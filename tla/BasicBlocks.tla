----------------------------- MODULE BasicBlocks -----------------------------
(***************************************************************************)
(* The basic blocks that sampling is about.  Five places of the code cut a *)
(* kernel into blocks, each in a way of its own, and a block one of them   *)
(* finds is a key the others look up:                                      *)
(*   - the timing compute unit as it issues instructions                   *)
(*     (src/samples/sampledrunner/branchtracer.go),                        *)
(*   - the profiler beside it (src/profiler/branch_feature.go),            *)
(*   - the basic block vectors (src/profiler/wf_feature.go),               *)
(*   - the sampled emulator (src/emu/sampledcomputeunit.go),               *)
(*   - the static analysis of the code (src/emu/static_feature.go).        *)
(* A block is its first PC, relative to the kernel, and its number of      *)
(* instructions.  Every instruction counts 1 (InstWidth) and has 4 bytes.  *)
(***************************************************************************)
EXTENDS Integers, Sequences, SequencesExt

Block(pc, num) == [pc |-> pc, num |-> num]

\* opcodes 2 and 4 to 10 of SOPP end a block, opcode 1 ends the wave
EndsBlock(inst) ==
    inst.fmt = "SOPP" /\ inst.op \in {"S_BRANCH", "S_CBRANCH_SCC0", "S_CBRANCH_SCC1",
        "S_CBRANCH_VCCZ", "S_CBRANCH_VCCNZ", "S_CBRANCH_EXECZ", "S_CBRANCH_EXECNZ", "S_BARRIER"}
EndsWave(inst) == inst.fmt = "SOPP" /\ inst.op = "S_ENDPGM"

-----------------------------------------------------------------------------
\* BranchSampledEngine.Collect: the feature of a wave.  The first instruction
\* counts in startIns too, so that both counts run one ahead.

FreshFeature == [currentIns |-> 0, startIns |-> 0, pc |-> 0, startPC |-> 0, branch |-> FALSE,
                 blocks |-> <<>>]

FlushFeature(f, pc) ==
    [f EXCEPT !.blocks = Append(@, Block(f.pc - f.startPC, f.currentIns - f.startIns)),
              !.startIns = f.currentIns, !.pc = pc]

\* mutant: the count of the last block is one short
CollectFeatureShort(f, inst, pc) ==
    LET counted == IF f.currentIns = 0
                   THEN [f EXCEPT !.pc = pc, !.startPC = pc, !.currentIns = 1, !.startIns = 1]
                   ELSE [f EXCEPT !.currentIns = @ + 1]
        flushed == IF f.branch THEN [FlushFeature(counted, pc) EXCEPT !.branch = FALSE] ELSE counted
    IN  CASE EndsBlock(inst) -> [flushed EXCEPT !.branch = TRUE]
          [] EndsWave(inst)  -> FlushFeature(flushed, pc)
          [] OTHER           -> flushed

CollectFeature(f, inst, pc) ==
    LET counted == IF f.currentIns = 0
                   THEN [f EXCEPT !.pc = pc, !.startPC = pc, !.currentIns = 1, !.startIns = 1]
                   ELSE [f EXCEPT !.currentIns = @ + 1]
        flushed == IF f.branch THEN [FlushFeature(counted, pc) EXCEPT !.branch = FALSE] ELSE counted
    IN  CASE EndsBlock(inst) -> [flushed EXCEPT !.branch = TRUE]
          [] EndsWave(inst)  -> FlushFeature([flushed EXCEPT !.currentIns = @ + 1], pc)
          [] OTHER           -> flushed

\* BranchFeature.Collect: the same counts, the flag is taken down before the flush
FlushProfile(f, pc) ==
    [f EXCEPT !.blocks = Append(@, Block(f.pc - f.startPC, f.currentIns - f.startIns)),
              !.startIns = f.currentIns, !.pc = pc]

CollectProfile(f, inst, pc) ==
    LET counted == IF f.currentIns = 0          \* not found in wfcount_map
                   THEN [f EXCEPT !.pc = pc, !.startPC = pc, !.currentIns = 1, !.startIns = 1]
                   ELSE [f EXCEPT !.currentIns = @ + 1]
        flushed == IF f.branch THEN FlushProfile([counted EXCEPT !.branch = FALSE], pc) ELSE counted
    IN  CASE EndsWave(inst)  -> FlushProfile([flushed EXCEPT !.currentIns = @ + 1], pc)
          [] EndsBlock(inst) -> [flushed EXCEPT !.branch = TRUE]
          [] OTHER           -> flushed

-----------------------------------------------------------------------------
\* OnlineBbv.CountInst and Count

FreshBbv == [inited |-> FALSE, startPC |-> 0, lastPC |-> 0, inscount |-> 0, lastinscount |-> 0,
             branch |-> FALSE, blocks |-> <<>>]

CountBlock(b) == Append(b.blocks, Block(b.lastPC - b.startPC, b.inscount - b.lastinscount))

CountInst(b, inst, pc) ==
    LET counted == IF ~b.inited
                   THEN [b EXCEPT !.startPC = pc, !.lastPC = pc, !.inited = TRUE,
                                  !.branch = FALSE, !.inscount = 1, !.lastinscount = 1]
                   ELSE [b EXCEPT !.inscount = @ + 1]
        flushed == IF counted.branch
                   THEN [counted EXCEPT !.branch = FALSE, !.blocks = CountBlock(counted),
                                        !.lastinscount = counted.inscount, !.lastPC = pc]
                   ELSE counted
        ended   == [flushed EXCEPT !.inscount = @ + 1]
    IN  CASE EndsBlock(inst) -> [flushed EXCEPT !.branch = TRUE]
          [] EndsWave(inst)  -> [ended EXCEPT !.blocks = CountBlock(ended)]
          [] OTHER           -> flushed

-----------------------------------------------------------------------------
\* SampledComputeUnit.runWfUntilBarrier: a block is known when the instruction
\* after its branch is met, the last one when the wave ends

FreshSample(pc) == [startPC |-> pc, lastPC |-> 0, lastIns |-> 0, currentIns |-> 0,
                    branch |-> FALSE, blocks |-> <<>>]

SampleBlock(p) == Append(p.blocks, Block(p.lastPC, p.currentIns - p.lastIns))

SampleInst(p, inst, pc) ==
    LET flushed == IF p.branch
                   THEN [p EXCEPT !.blocks = SampleBlock(p), !.lastPC = pc - p.startPC,
                                  !.lastIns = p.currentIns, !.branch = FALSE]
                   ELSE p
        counted == [flushed EXCEPT !.currentIns = @ + 1]
    IN  CASE EndsBlock(inst) -> [counted EXCEPT !.branch = TRUE]
          [] EndsWave(inst)  -> [counted EXCEPT !.blocks = SampleBlock(counted)]
          [] OTHER           -> counted

-----------------------------------------------------------------------------
\* analysisWfUntilEnd: one walk over the code, up to its first S_ENDPGM, cuts it
\* after every branch; then every branch target starts a block as well, which
\* ends where the block around the target does.

Walked(code) == SubSeq(code, 1, SelectInSeq(code, EndsWave))

\* the number of instructions from position k to the end of its block
ToEnd(code, k) ==
    SelectInSeq(SubSeq(Walked(code), k, Len(Walked(code))), LAMBDA i : EndsBlock(i) \/ EndsWave(i))

BlockStarts(code) ==
    {1} \union {k + 1 : k \in {j \in DOMAIN Walked(code) : EndsBlock(code[j])}}

\* the target of the branch at position k; S_BARRIER counts as one
Target(code, k) == k + 1 + code[k].imm.val

StaticBlocks(code) ==
    LET targets == {Target(code, k) : k \in {j \in DOMAIN Walked(code) : EndsBlock(code[j])}}
    IN  {Block(4 * (k - 1), ToEnd(code, k)) : k \in BlockStarts(code)}
        \union {Block(4 * (k - 1), IF k \in DOMAIN Walked(code) THEN ToEnd(code, k) ELSE 0) :
                    k \in targets}

\* GetBBLInsts panics when a block was not found
GetBBLInsts(code, block) ==
    IF block \in StaticBlocks(code)
    THEN SubSeq(code, block.pc \div 4 + 1, block.pc \div 4 + block.num) ELSE <<>>
=============================================================================
