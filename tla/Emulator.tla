------------------------------- MODULE Emulator -------------------------------
(***************************************************************************)
(* The functional emulation of a work-group (src/emu/computeunit.go and    *)
(* the two copies of it that sampling uses, bbvcomputeunit.go and          *)
(* sampledcomputeunit.go): the registers are initialised, and the waves    *)
(* run one after the other, each until its next barrier or its end.        *)
(*                                                                         *)
(* A kernel is a record: its code (a sequence of instructions of 4 bytes,  *)
(* the first at PC 0), its packet, the user registers it asks for and its  *)
(* work-group.  A machine g is [wf, mem, lds, trace]: one wave, the memory *)
(* and LDS it shares, and the (instruction, PC) pairs it has met.          *)
(***************************************************************************)
EXTENDS ALU, Coalescer, BasicBlocks

-----------------------------------------------------------------------------
\* executeInst

Committed(g, inst, m) ==
    [g EXCEPT !.wf = E!Commit(@, inst, m.s), !.mem = m.mem, !.lds = m.lds]

ExecuteInst(g, inst) ==
    Committed(g, inst, Run(inst, [s |-> E!Prepare(g.wf, inst), mem |-> g.mem, lds |-> g.lds]))

-----------------------------------------------------------------------------
\* initWfRegs: the user registers follow one another in this order; the kernel
\* enables some of them, and those without a value are only skipped

UserSGPRs == <<
    [name |-> "PrivateSegmentBuffer", size |-> 4], [name |-> "DispatchPtr", size |-> 2],
    [name |-> "QueuePtr", size |-> 2], [name |-> "KernelArgSegmentPtr", size |-> 2],
    [name |-> "DispatchID", size |-> 2], [name |-> "FlatScratchInit", size |-> 2],
    [name |-> "PrivateSegmentSize", size |-> 1], [name |-> "GridWorkGroupCountX", size |-> 1],
    [name |-> "GridWorkGroupCountY", size |-> 1], [name |-> "GridWorkGroupCountZ", size |-> 1],
    [name |-> "WorkGroupIDX", size |-> 1], [name |-> "WorkGroupIDY", size |-> 1],
    [name |-> "WorkGroupIDZ", size |-> 1], [name |-> "WorkGroupInfo", size |-> 1],
    [name |-> "PrivateSegmentWaveByteOffset", size |-> 1] >>

GroupCount(grid, group) == (grid + group - 1) \div group

UserValue(name, k) ==
    CASE name = "DispatchPtr"         -> WordsOf(k.packet.address)
      [] name = "KernelArgSegmentPtr" -> WordsOf(k.packet.kernarg)
      [] name = "GridWorkGroupCountX" -> <<GroupCount(k.packet.grid[1], k.packet.group[1])>>
      [] name = "GridWorkGroupCountY" -> <<GroupCount(k.packet.grid[2], k.packet.group[2])>>
      [] name = "GridWorkGroupCountZ" -> <<GroupCount(k.packet.grid[3], k.packet.group[3])>>
      [] name = "WorkGroupIDX" -> <<k.id[1]>>
      [] name = "WorkGroupIDY" -> <<k.id[2]>>
      [] name = "WorkGroupIDZ" -> <<k.id[3]>>
      [] OTHER -> <<>>

Enabled(k) == SelectSeq(UserSGPRs, LAMBDA f : f.name \in k.enabled)

SGPRPtr(k, j) == FoldLeft(LAMBDA sum, f : sum + f.size, 0, SubSeq(Enabled(k), 1, j - 1))

\* register n of a wave, when nothing is written it keeps old
UserSGPR(k, n, old) ==
    LET fields == {j \in DOMAIN Enabled(k) :
                      n - SGPRPtr(k, j) \in 0 .. Len(UserValue(Enabled(k)[j].name, k)) - 1}
    IN  IF fields = {} THEN old
        ELSE LET j == CHOOSE j \in fields : TRUE
             IN  UserValue(Enabled(k)[j].name, k)[n - SGPRPtr(k, j) + 1]

\* register n of lane i: the position of the item in its work-group
ItemId(k, w, i, n, old) ==
    LET flat == k.waves[w].first + i
        slice == k.packet.group[1] * k.packet.group[2]
    IN  CASE n = 0 -> (flat % slice) % k.packet.group[1]
          [] n = 1 /\ k.itemIds > 0 -> (flat % slice) \div k.packet.group[1]
          [] n = 2 /\ k.itemIds > 1 -> flat \div slice
          [] OTHER -> old

InitWfRegs(k, w) ==
    [pc |-> 0, exec |-> k.waves[w].mask, scc |-> 0, vcc |-> 0, m0 |-> 0,
     sreg |-> [n \in SRegs |-> UserSGPR(k, n, 0)],
     vreg |-> [i \in Lanes |-> [n \in VRegs |-> ItemId(k, w, i, n, 0)]]]

InitLDS(k) == [a \in 0 .. k.ldsSize - 1 |-> 0]

-----------------------------------------------------------------------------
\* runWfUntilBarrier: the PC moves on before the instruction runs

RECURSIVE RunWfUntilBarrier(_, _)
RunWfUntilBarrier(code, g) ==
    LET inst == code[g.wf.pc \div 4 + 1]
        next == [g EXCEPT !.wf.pc = @ + 4,
                          !.trace = Append(@, [inst |-> inst, pc |-> g.wf.pc])]
    IN  CASE inst.op = "S_BARRIER" -> [next EXCEPT !.state = "AtBarrier"]
          [] inst.op = "S_ENDPGM"  -> [next EXCEPT !.state = "Completed"]
          [] OTHER -> RunWfUntilBarrier(code, ExecuteInst(next, inst))

\* the waves of a work-group, each with what the ones before it left in memory
WaveRan(group, w, ran) ==
    [wfs |-> [group.wfs EXCEPT ![w] = [wf |-> ran.wf, trace |-> ran.trace, state |-> ran.state]],
     mem |-> ran.mem, lds |-> ran.lds]

RunWaves(k, group) ==
    FoldLeft(LAMBDA acc, w :
                WaveRan(acc, w, RunWfUntilBarrier(k.code,
                        [wf |-> acc.wfs[w].wf, mem |-> acc.mem, lds |-> acc.lds,
                         trace |-> acc.wfs[w].trace, state |-> "Running"])),
             group, [w \in DOMAIN k.waves |-> w])

AllCompleted(group) == \A w \in DOMAIN group.wfs : group.wfs[w].state = "Completed"

\* resolveBarrier panics unless all waves are at the barrier
ResolveBarrier(group) ==
    IF AllCompleted(group) THEN group
    ELSE [group EXCEPT !.wfs = [w \in DOMAIN @ |-> [@[w] EXCEPT !.state = "Running"]]]

RECURSIVE RunUntilEnd(_, _)
RunUntilEnd(k, group) ==
    IF AllCompleted(group) THEN group ELSE RunUntilEnd(k, ResolveBarrier(RunWaves(k, group)))

InitWfs(k, mem, regs) ==
    [wfs |-> [w \in DOMAIN k.waves |-> [wf |-> regs[w], trace |-> <<>>, state |-> "Running"]],
     mem |-> mem, lds |-> InitLDS(k)]

RunWG(k, mem) == RunUntilEnd(k, InitWfs(k, mem, [w \in DOMAIN k.waves |-> InitWfRegs(k, w)]))

\* the copies of sampling do the same, with an initWfRegs of their own, and cut
\* what a wave met into blocks
BBVInitWfRegs(k, w)     == InitWfRegs(k, w)
SampledInitWfRegs(k, w) == InitWfRegs(k, w)

CountBlocks(k, group) ==
    [mem |-> group.mem,
     bbvs |-> [w \in DOMAIN k.waves |->
        FoldLeft(LAMBDA b, e : CountInst(b, e.inst, e.pc), FreshBbv, group.wfs[w].trace)]]

BBVRunWG(k, mem) ==
    CountBlocks(k, RunUntilEnd(k,
        InitWfs(k, mem, [w \in DOMAIN k.waves |-> BBVInitWfRegs(k, w)])))

SampleBlocks(k, group) ==
    [mem |-> group.mem,
     samples |-> [w \in DOMAIN k.waves |->
        FoldLeft(LAMBDA p, e : SampleInst(p, e.inst, e.pc), FreshSample(0), group.wfs[w].trace)]]

SampledRunWG(k, mem) ==
    SampleBlocks(k, RunUntilEnd(k,
        InitWfs(k, mem, [w \in DOMAIN k.waves |-> SampledInitWfRegs(k, w)])))
=============================================================================
