------------------------------ MODULE Execution ------------------------------
(***************************************************************************)
(* One kernel, run twice: by the emulation compute unit, whose events are  *)
(* those of src/emu/computeunit.go, and then by a timing compute unit,     *)
(* which runs the waves of its work-groups instruction by instruction in   *)
(* any order, with memory accesses that return later                       *)
(* (src/timing/cu).  The two share nothing but the kernel and the memory   *)
(* they start from, so the second starts when the first has reported.      *)
(*                                                                         *)
(* Before or during the second run sampling may run a whole work-group on  *)
(* the memory of the timing model: to count its blocks (Analyse) or        *)
(* instead of the rest of it (TakeOver).                                   *)
(*                                                                         *)
(* A timing instruction is one step here: its pipeline is the subject of   *)
(* ComputeUnit.                                                            *)
(***************************************************************************)
EXTENDS Emulator

CONSTANTS Kernels,       \* the kernels
          Memories,      \* the contents memory may start with
          Stale          \* what the register files hold before a wave comes

T == INSTANCE CURegisters WITH LaneStride <- 2 * Cardinality(VRegs)

VARIABLES kernel,        \* the kernel and
          start,         \*   the memory it starts from
          toEmu,         \* the port of the emulation unit, with room for one message
          queueing,      \* queueingWGs
          event,         \* an emulationEvent is scheduled
          completing,    \* work-groups with a WGCompleteEvent
          fromEmu,       \* completions in the port, with room for one
          reported,      \* work-groups the dispatcher knows to be complete
          emuMem,        \* the memory of the emulation
          emulated,      \* what RunWG left of every work-group it ran
          mem,           \* the memory of the timing model
          lds,           \* the LDS of every work-group
          sfile, vfile,  \* the register files
          waves,         \* the waves of the timing model
          vector,        \* InFlightVectorMemAccess
          scalar         \* InFlightScalarMemAccess

emuVars    == <<toEmu, queueing, event, completing, fromEmu, reported, emuMem, emulated>>
timingVars == <<mem, lds, sfile, vfile, waves, vector, scalar>>
vars == <<kernel, start, emuVars, timingVars>>

Groups == DOMAIN kernel.groups
GroupKernel(k, g) == k @@ [id |-> k.groups[g]]
Waves == Groups \X DOMAIN kernel.waves
OfGroup(g) == {c \in Waves : c[1] = g}

-----------------------------------------------------------------------------
\* The emulation compute unit

Dispatch(g) ==
    /\ toEmu = <<>>
    /\ g \notin DOMAIN emulated \cup Range(queueing) \cup Range(toEmu)
    /\ \A h \in Groups : h < g => h \in DOMAIN emulated \cup Range(queueing)
    /\ toEmu' = <<g>>
    /\ UNCHANGED <<kernel, start, queueing, event, completing, fromEmu, reported, emuMem,
                   emulated, timingVars>>

\* an event is scheduled unless one is still to come
ProcessMapWGReq ==
    /\ toEmu # <<>>
    /\ queueing' = Append(queueing, Head(toEmu))
    /\ event' = TRUE
    /\ toEmu' = <<>>
    /\ UNCHANGED <<kernel, start, completing, fromEmu, reported, emuMem, emulated, timingVars>>

GroupRan(acc, g, group) == [mem |-> group.mem, wfs |-> acc.wfs @@ (g :> group.wfs)]

RunEmulation ==
    /\ event
    /\ \E ran \in {FoldLeft(LAMBDA acc, g : GroupRan(acc, g, RunWG(GroupKernel(kernel, g), acc.mem)),
                           [mem |-> emuMem, wfs |-> emulated], queueing)} :
          emuMem' = ran.mem /\ emulated' = ran.wfs
    /\ completing' = completing \cup Range(queueing)
    /\ queueing' = <<>>
    /\ event' = FALSE
    /\ UNCHANGED <<kernel, start, toEmu, fromEmu, reported, timingVars>>

\* when the port is full the event comes again the next cycle
HandleWGCompleteEvent(g) ==
    /\ g \in completing
    /\ fromEmu = <<>>
    /\ fromEmu' = <<g>>
    /\ completing' = completing \ {g}
    /\ UNCHANGED <<kernel, start, toEmu, queueing, event, reported, emuMem, emulated, timingVars>>

Report ==
    /\ fromEmu # <<>>
    /\ reported' = reported \cup {Head(fromEmu)}
    /\ fromEmu' = <<>>
    /\ UNCHANGED <<kernel, start, toEmu, queueing, event, completing, emuMem, emulated, timingVars>>

EmulationDone == reported = Groups

-----------------------------------------------------------------------------
\* The timing compute unit: registers and dispatch

Place(c) == (c[1] - 1) * Len(kernel.waves) + c[2] - 1
SOffset(c) == Place(c) * Cardinality(SRegs)
VOffset(c) == Place(c) * Cardinality(VRegs)

\* the registers a wave sees, and the files and the wave after it wrote them
View(c) == waves[c] @@ [s |-> sfile, v |-> vfile]
Store(c, wf) ==
    /\ sfile' = wf.s
    /\ vfile' = wf.v
    /\ waves' = [waves EXCEPT ![c] = [f \in DOMAIN @ |-> wf[f]]]

Idle == [pc |-> 0, exec |-> 0, scc |-> 0, vcc |-> 0, m0 |-> 0, sOffset |-> 0, vOffset |-> 0,
         state |-> "Waiting", outV |-> 0, outS |-> 0, feature |-> FreshFeature,
         profile |-> FreshFeature]

\* initRegisters of the dispatcher of waves, on the files
InitSFile(k) ==
    [n \in DOMAIN sfile |->
        LET mine == {c \in OfGroup(k.number) : n - SOffset(c) \in SRegs}
        IN  IF mine = {} THEN sfile[n]
            ELSE UserSGPR(k, n - SOffset(CHOOSE c \in mine : TRUE), sfile[n])]

InitVFile(k) ==
    [n \in DOMAIN vfile |->
        LET at(e) == T!VectorOffset([vOffset |-> VOffset(e.wave)], VReg(e.reg, 1), e.lane)
            mine == {e \in [wave : OfGroup(k.number), reg : 0 .. 2, lane : Lanes] : at(e) = n}
        IN  IF mine = {} THEN vfile[n]
            ELSE LET e == CHOOSE e \in mine : TRUE
                 IN  ItemId(k, e.wave[2], e.lane, e.reg, vfile[n])]

DispatchWf(g) ==
    LET k == GroupKernel(kernel, g) @@ [number |-> g]
    IN  /\ EmulationDone
        /\ \A c \in OfGroup(g) : waves[c].state = "Waiting"
        /\ sfile' = InitSFile(k)
        /\ vfile' = InitVFile(k)
        /\ waves' = [c \in Waves |->
                        IF c \notin OfGroup(g) THEN waves[c]
                        ELSE [waves[c] EXCEPT !.state = "Ready", !.exec = kernel.waves[c[2]].mask,
                                              !.sOffset = SOffset(c), !.vOffset = VOffset(c)]]
        /\ UNCHANGED <<kernel, start, emuVars, mem, lds, vector, scalar>>

-----------------------------------------------------------------------------
\* its instructions

Inst(c)  == kernel.code[waves[c].pc \div 4 + 1]
Ready(c) == waves[c].state = "Ready"

\* an instruction is collected for its block when it is issued
Collected(wf, inst) ==
    [wf EXCEPT !.feature = CollectFeature(@, inst, wf.pc),
               !.profile = CollectProfile(@, inst, wf.pc)]

Internal == {"S_BARRIER", "S_ENDPGM", "S_WAITCNT"}

\* the scalar, vector, LDS and branch units: UpdatePCAndSetReady adds the size
\* of the instruction after the result is written
Execute(c) ==
    LET inst == Inst(c)
    IN  /\ Ready(c)
        /\ inst.fmt \notin {"FLAT", "SMEM"}
        /\ inst.op \notin Internal
        /\ \E m \in {Run(inst, [s |-> T!Prepare(View(c), inst), mem |-> mem, lds |-> lds[c[1]]])} :
              /\ Store(c, [T!Commit(Collected(View(c), inst), inst, m.s) EXCEPT !.pc = @ + 4])
              /\ lds' = [lds EXCEPT ![c[1]] = m.lds]
        /\ UNCHANGED <<kernel, start, emuVars, mem, vector, scalar>>

\* executeFlatLoad and executeFlatStore: without an active lane nothing is sent
ExecuteFlat(c) ==
    LET inst == Inst(c)
    IN  /\ Ready(c)
        /\ inst.fmt = "FLAT"
        /\ \E transactions \in {GenerateMemTransactions(T!Prepare(View(c), inst), inst)} :
             LET count == IF transactions = <<>> THEN 0 ELSE 1
             IN  /\ vector' = vector \o [k \in DOMAIN transactions |->
                        transactions[k] @@ [wave |-> c, op |-> inst.op,
                                            last |-> k = Len(transactions)]]
                 /\ waves' = [waves EXCEPT ![c] = [Collected(@, inst) EXCEPT
                        !.pc = @ + 4, !.outV = @ + count, !.outS = @ + count]]
        /\ UNCHANGED <<kernel, start, emuVars, mem, lds, sfile, vfile, scalar>>

ExecuteSMEM(c) ==
    LET inst == Inst(c)
    IN  /\ Ready(c)
        /\ inst.fmt = "SMEM"
        /\ \E s \in {T!Prepare(View(c), inst)} :
            \E requests \in {ScalarRequests(s.base + s.offset, 4 * SmemWords(inst.op), inst.data.n)} :
              scalar' = scalar \o [k \in DOMAIN requests |->
                        requests[k] @@ [wave |-> c, last |-> k = Len(requests)]]
        /\ waves' = [waves EXCEPT ![c] = [Collected(@, inst) EXCEPT
                        !.pc = @ + 4, !.outS = @ + 1]]
        /\ UNCHANGED <<kernel, start, emuVars, mem, lds, sfile, vfile, vector>>

\* mutant: scalar accesses are not waited for
WaitCntVectorOnly(c) ==
    /\ Ready(c)
    /\ Inst(c).op = "S_WAITCNT"
    /\ waves[c].outV <= Inst(c).vmcnt
    /\ waves' = [waves EXCEPT ![c] = [Collected(@, Inst(c)) EXCEPT !.pc = @ + 4]]
    /\ UNCHANGED <<kernel, start, emuVars, mem, lds, sfile, vfile, vector, scalar>>

WaitCnt(c) ==
    /\ Ready(c)
    /\ Inst(c).op = "S_WAITCNT"
    /\ waves[c].outS <= Inst(c).lgkmcnt
    /\ waves[c].outV <= Inst(c).vmcnt
    /\ waves' = [waves EXCEPT ![c] = [Collected(@, Inst(c)) EXCEPT !.pc = @ + 4]]
    /\ UNCHANGED <<kernel, start, emuVars, mem, lds, sfile, vfile, vector, scalar>>

\* the last wave of the work-group lets all of them pass
Barrier(c) ==
    /\ Ready(c)
    /\ Inst(c).op = "S_BARRIER"
    /\ LET here == [waves EXCEPT ![c] = [Collected(@, Inst(c)) EXCEPT !.state = "AtBarrier"]]
       IN  waves' = IF \A d \in OfGroup(c[1]) : here[d].state = "AtBarrier"
                    THEN [d \in Waves |-> IF d[1] = c[1]
                                          THEN [here[d] EXCEPT !.state = "Ready", !.pc = @ + 4]
                                          ELSE here[d]]
                    ELSE here
    /\ UNCHANGED <<kernel, start, emuVars, mem, lds, sfile, vfile, vector, scalar>>

EndPgm(c) ==
    /\ Ready(c)
    /\ Inst(c).op = "S_ENDPGM"
    /\ waves[c].outS = 0 /\ waves[c].outV = 0
    /\ waves' = [waves EXCEPT ![c] = [Collected(@, Inst(c)) EXCEPT !.state = "Completed"]]
    /\ UNCHANGED <<kernel, start, emuVars, mem, lds, sfile, vfile, vector, scalar>>

-----------------------------------------------------------------------------
\* memory.  The requests are answered in the order they were sent.

LoadedWord(op, line, offset) ==
    IF op \in {"FLAT_LOAD_UBYTE", "FLAT_LOAD_USHORT"} THEN line[offset + 1]
    ELSE ToWords(SubSeq(line, offset + 1, offset + 4))[1]

Drained(list) ==
    [waves EXCEPT ![Head(list).wave].outS = IF Head(list).last THEN @ - 1 ELSE @,
                  ![Head(list).wave].outV = IF Head(list).last /\ Head(list).kind # "scalar"
                                            THEN @ - 1 ELSE @]

HandleVectorDataLoadReturn ==
    /\ vector # <<>> /\ Head(vector).kind = "read"
    /\ LET req  == Head(vector)
           line == StorageRead(mem, req.addr, LineSize)
       IN  vfile' = FoldLeft(LAMBDA file, info :
                LET o == T!VectorOffset(waves[req.wave], VReg(info.reg, 1), info.lane)
                IN  T!FileWrite(file, o, 1, <<LoadedWord(req.op, line, info.offset)>>),
                vfile, req.lanes)
    /\ waves' = Drained(vector)
    /\ vector' = Tail(vector)
    /\ UNCHANGED <<kernel, start, emuVars, mem, lds, sfile, scalar>>

HandleVectorDataStoreRsp ==
    /\ vector # <<>> /\ Head(vector).kind = "write"
    /\ LET req == Head(vector)
           first == Physical(req.addr \div PageSize, req.addr)
       IN  mem' = [a \in DOMAIN mem |-> IF a - first \in DOMAIN req.data THEN req.data[a - first]
                                        ELSE mem[a]]
    /\ waves' = Drained(vector)
    /\ vector' = Tail(vector)
    /\ UNCHANGED <<kernel, start, emuVars, lds, sfile, vfile, scalar>>

HandleScalarDataLoadReturn ==
    /\ scalar # <<>>
    /\ LET req == Head(scalar)
       IN  sfile' = T!FileWrite(sfile, T!ScalarOffset(waves[req.wave], SReg(req.reg, 1)),
                                req.size \div 4, ToWords(StorageRead(mem, req.addr, req.size)))
    /\ waves' = Drained(scalar)
    /\ scalar' = Tail(scalar)
    /\ UNCHANGED <<kernel, start, emuVars, mem, lds, vfile, vector>>

-----------------------------------------------------------------------------
\* sampling runs a work-group on the memory of the timing model.  Only for
\* kernels that read nothing they write is the result the same.

\* the first work-group, before the kernel is dispatched
Analyse ==
    /\ EmulationDone
    /\ kernel.rerun
    /\ \A c \in Waves : waves[c].state = "Waiting"
    /\ mem = start
    /\ mem' = BBVRunWG(GroupKernel(kernel, 1), mem).mem
    /\ UNCHANGED <<kernel, start, emuVars, lds, sfile, vfile, waves, vector, scalar>>

\* stopTimeModel and handleMapWGReq, once sampling is on: the emulator runs the
\* work-group from its beginning, the waves that have not ended do not go on
TakeOver(g) ==
    /\ EmulationDone
    /\ kernel.rerun
    /\ \E c \in OfGroup(g) : waves[c].state \notin {"Completed", "SampledCompleted"}
    /\ mem' = SampledRunWG(GroupKernel(kernel, g), mem).mem
    /\ waves' = [c \in Waves |->
                    IF c[1] = g /\ waves[c].state # "Completed"
                    THEN [waves[c] EXCEPT !.state = "SampledCompleted"] ELSE waves[c]]
    /\ UNCHANGED <<kernel, start, emuVars, lds, sfile, vfile, vector, scalar>>

-----------------------------------------------------------------------------
Init ==
    /\ kernel \in Kernels
    /\ start \in Memories
    /\ toEmu = <<>> /\ queueing = <<>> /\ event = FALSE /\ completing = {}
    /\ fromEmu = <<>> /\ reported = {}
    /\ emuMem = start
    /\ emulated = [g \in {} |-> 0]
    /\ mem = start
    /\ lds = [g \in Groups |-> InitLDS(kernel)]
    /\ sfile = [n \in 0 .. 2 * Cardinality(SRegs) - 1 |-> Stale]
    /\ vfile = [n \in 0 .. 2 * Cardinality(VRegs) * (Max(Lanes) + 1) - 1 |-> Stale]
    /\ waves = [c \in Waves |-> Idle]
    /\ vector = <<>> /\ scalar = <<>>

AllEnded ==
    /\ \A c \in Waves : waves[c].state \in {"Completed", "SampledCompleted"}
    /\ vector = <<>> /\ scalar = <<>>

Emulation ==
    \/ \E g \in Groups : Dispatch(g) \/ HandleWGCompleteEvent(g)
    \/ ProcessMapWGReq
    \/ RunEmulation
    \/ Report

Wave(c) ==
    \/ Execute(c)
    \/ ExecuteFlat(c)
    \/ ExecuteSMEM(c)
    \/ WaitCnt(c)
    \/ Barrier(c)
    \/ EndPgm(c)

Memory == HandleVectorDataLoadReturn \/ HandleVectorDataStoreRsp \/ HandleScalarDataLoadReturn

Finished == AllEnded /\ UNCHANGED vars

Next ==
    \/ Emulation
    \/ \E g \in Groups : DispatchWf(g) \/ TakeOver(g)
    \/ \E c \in Waves : Wave(c)
    \/ Memory
    \/ Analyse
    \/ Finished

Spec == Init /\ [][Next]_vars

-----------------------------------------------------------------------------
\* Properties

States == {"Waiting", "Ready", "AtBarrier", "Completed", "SampledCompleted"}

\* Every variable has its type.
TypeOK ==
    /\ Len(toEmu) <= 1 /\ Len(fromEmu) <= 1
    /\ event \in BOOLEAN
    /\ completing \subseteq Groups /\ reported \subseteq Groups
    /\ \A a \in DOMAIN mem : mem[a] \in 0 .. 2^ByteBits - 1
    /\ \A n \in DOMAIN sfile : sfile[n] \in 0 .. Max32
    /\ \A n \in DOMAIN vfile : vfile[n] \in 0 .. Max32
    /\ \A c \in Waves : /\ waves[c].state \in States
                        /\ waves[c].outV \in Nat /\ waves[c].outS \in Nat
                        /\ waves[c].pc \div 4 + 1 \in DOMAIN kernel.code

\* The timing model computes what the emulator computes: when all waves have
\* ended and memory is quiet, memory is what the emulation left, and a wave
\* that ran to its end has the emulated registers.  The two have scratchpad
\* preparers, register initialisation and memory paths of their own, and the
\* waves of the timing model overlap (src/timing/cu/computeunit.go, coalescer,
\* src/emu/computeunit.go); work-groups that sampling ran again change nothing.
TimingAgrees ==
    (EmulationDone /\ AllEnded) =>
        /\ mem = emuMem
        /\ \A c \in Waves : waves[c].state = "Completed" =>
            LET wf == emulated[c[1]][c[2]].wf
            IN  /\ waves[c].scc = wf.scc /\ waves[c].vcc = wf.vcc /\ waves[c].exec = wf.exec
                /\ \A o \in kernel.results, i \in Lanes :
                        Masked(kernel.waves[c[2]].mask, i) =>
                            T!ReadReg(View(c), o, i) = E!ReadReg(wf, o, i)

\* The blocks a wave of the timing model has finished are the first ones the
\* emulator finds in it; when it ends they are all of them; the profiler and the
\* basic block vectors see the same; and every one is known to the static
\* analysis, whose GetBBLInsts panics of one that is not
\* (src/emu/static_feature.go:117).
BlocksAgree ==
    EmulationDone => \A c \in Waves :
        LET trace  == emulated[c[1]][c[2]].trace
            sample == FoldLeft(LAMBDA p, e : SampleInst(p, e.inst, e.pc), FreshSample(0), trace)
            bbv    == FoldLeft(LAMBDA b, e : CountInst(b, e.inst, e.pc), FreshBbv, trace)
            timing == waves[c].feature.blocks
        IN  /\ IsPrefix(timing, sample.blocks)
            /\ waves[c].state = "Completed" => timing = sample.blocks
            /\ waves[c].profile.blocks = timing
            /\ bbv.blocks = sample.blocks
            /\ \A b \in Range(sample.blocks) : GetBBLInsts(kernel.code, b) # <<>>

\* Registers of the shared files change only by a wave they belong to, in a step
\* of that wave or by the answer to its request, and those of a lane only if EXEC
\* names the lane when an instruction runs: the waves of a SIMD share one file
\* and tell their parts by an offset (src/timing/cu/registerfile.go), and a load
\* of one wave returns while others run.
OwnScalar(c, n) == n \div Cardinality(SRegs) = Place(c)
OwnVector(c, n) ==
    LET stride == 2 * Cardinality(VRegs)
    IN  /\ (n % stride) \div Cardinality(VRegs) = Place(c)
        /\ waves[c].state = "Ready" /\ Inst(c).fmt # "FLAT" => Masked(waves[c].exec, n \div stride)
RegistersApart ==
    [][/\ \A n \in DOMAIN vfile : vfile'[n] # vfile[n] =>
            \E c \in Waves : /\ OwnVector(c, n)
                             /\ \/ waves'[c] # waves[c]
                                \/ vector # <<>> /\ Head(vector).wave = c
       /\ \A n \in DOMAIN sfile : sfile'[n] # sfile[n] =>
            \E c \in Waves : /\ OwnScalar(c, n)
                             /\ \/ waves'[c] # waves[c]
                                \/ scalar # <<>> /\ Head(scalar).wave = c]_vars
=============================================================================
