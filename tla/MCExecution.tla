----------------------------- MODULE MCExecution -----------------------------
(***************************************************************************)
(* Kernels for Execution, with bytes of two bits, words of 8 and lanes 0   *)
(* and 1.  Page 0 holds the arguments and, from 16 on, the input, page 1   *)
(* the output.                                                             *)
(***************************************************************************)
EXTENDS Execution, Instructions

MCPageTable == 0 :> 1 @@ 1 :> 0

\* the words of physical memory as bytes
MCMemory(word(_)) == [a \in 0 .. 63 |-> ByteOf(word(a \div 4), a % 4)]
MCMemories == {MCMemory(LAMBDA w : (37 * w + 11) % 256), MCMemory(LAMBDA w : (91 * w + 250) % 256)}

-----------------------------------------------------------------------------
\* v[2:3] = base + 4 * v0, through v1
Address(base) == << Vop2("V_LSHLREV_B32", V(1), Imm(2), V(0)),
                    Vop2("V_ADD_I32", V(2), Imm(base), V(1)), Vop1("V_MOV_B32", V(3), Imm(0)) >>

OneWave  == << [first |-> 0, mask |-> 3] >>
TwoWaves == << [first |-> 0, mask |-> 3], [first |-> 2, mask |-> 1] >>

Kernel(code, groups, shape, results, rerun) ==
    [code |-> code, enabled |-> {"KernelArgSegmentPtr", "WorkGroupIDX"}, itemIds |-> 1,
     packet |-> [address |-> 5, kernarg |-> 4, grid |-> <<4, 2, 1>>, group |-> <<2, 2, 1>>],
     groups |-> groups, waves |-> shape, ldsSize |-> 32, results |-> results, rerun |-> rerun]

One == << <<1, 0, 0>> >>
Two == << <<0, 0, 0>>, <<1, 0, 0>> >>

-----------------------------------------------------------------------------
\* two work-groups add an argument to the input, each in its part of the output;
\* the pair of arguments lies across a line
CopyCode(out) ==
    << Smem("S_LOAD_DWORDX2", SReg(4, 2), SReg(0, 2), 0) >> \o Address(16)
    \o << Load("FLAT_LOAD_DWORD", V(4), VReg(2, 2)),
          Sop2("S_LSHL_B32", S(3), S(2), Imm(3)),
          Wait,
          Vop2("V_ADD_I32", V(4), S(4), V(4)),
          Vop2("V_ADD_I32", V(2), S(3), V(2)),
          Vop2("V_ADD_I32", V(2), Imm(out), V(2)),
          FlatOut("FLAT_STORE_DWORD", VReg(2, 2), V(4)), End >>
Copy    == Kernel(CopyCode(16), Two, OneWave, {V(4), S(5)}, TRUE)
InPlace == Kernel(SelectSeq(CopyCode(0), LAMBDA i : i.src0 # S(3)), One, OneWave, {V(4)}, FALSE)

\* two waves exchange words through the LDS, on the two sides of a barrier; the
\* second wave has one item only
Exchange == Kernel(
    << Vop2("V_LSHLREV_B32", V(6), Imm(1), V(1)),
       Vop2("V_ADD_I32", V(6), V(0), V(6)),
       Vop2("V_LSHLREV_B32", V(5), Imm(3), V(6)),
       DsOut("DS_WRITE2_B32", V(5), V(6), V(1), 0, 1),
       Sopp("S_BARRIER", 0),
       Vop2("V_SUB_I32", V(5), Imm(16), V(5)),
       DsIn("DS_READ2_B32", VReg(2, 2), V(5), 0, 1),
       DsIn("DS_READ_B32", V(4), V(5), 4, 0), End >>, One, TwoWaves, {V(2), V(3), V(4)}, TRUE)

\* a loop, left when the counter is zero
Loop == Kernel(
    << Sopk("S_MOVK_I32", S(3), 2), Vop1("V_MOV_B32", V(1), Imm(5)),
       Vop2("V_ADD_I32", V(1), S(3), V(1)),
       Sop2("S_SUB_U32", S(3), S(3), Imm(1)),
       Sopc("lg", "i32", S(3), Imm(0)),
       Sopp("S_CBRANCH_SCC1", -4),
       Sopp("S_CBRANCH_SCC0", 1), Vop1("V_NOT_B32", V(1), V(1)), End >>,
    Two, OneWave, {V(1), S(3)}, TRUE)

\* lanes that differ: one side of a branch each, EXEC restored after it
Diverge == Kernel(
    << Vopc("lt", "i32", Imm(0), V(0)),
       Vop1("V_MOV_B32", V(1), Imm(9)),
       Sop1("S_AND_SAVEEXEC_B64", SReg(4, 2), VCC),
       Sopp("S_CBRANCH_EXECZ", 2),
       Vop2("V_CNDMASK_B32", V(1), V(0), V(1)), Vop1("V_NOT_B32", V(1), V(1)),
       Sop2("S_OR_B64", EXECLO, EXECLO, SReg(4, 2)),
       Sop2("S_ANDN2_B64", EXECLO, EXECLO, VCC),
       Vop2("V_XOR_B32", V(1), Imm(-1), V(1)), End >>, One, TwoWaves, {V(1), SReg(4, 2)}, TRUE)

\* wide loads and stores over the ends of lines, bytes, and no active lane
Wide == Kernel(
    Address(20)
    \o << Load("FLAT_LOAD_DWORDX2", VReg(4, 2), VReg(2, 2)), Load("FLAT_LOAD_UBYTE", V(6), VReg(2, 2)),
          Wait, Vop2("V_LSHLREV_B32", V(2), Imm(3), V(0)), Vop2("V_ADD_I32", V(2), Imm(36), V(2)),
          FlatOut("FLAT_STORE_DWORDX2", VReg(2, 2), VReg(4, 2)),
          Sop2("S_ANDN2_B64", EXECLO, EXECLO, EXECLO),
          FlatOut("FLAT_STORE_DWORDX2", VReg(2, 2), VReg(5, 2)), Wait, End >>,
    One, OneWave, {V(4), V(5), V(6)}, TRUE)

\* carries in vector masks, a median and a choice by a mask
Three == Kernel(
    << Vop1("V_MOV_B32", V(1), Imm(-3)),
       Vop3b("V_ADD_U32", V(2), SReg(4, 2), V(1), V(1), None),
       Vop3b("V_ADDC_U32", V(3), SReg(6, 2), V(1), V(0), SReg(4, 2)),
       Vop3("V_CMP", "u32", SReg(4, 2), V(3), V(2), None),
       Vop3("V_MED3", "i32", V(4), V(1), V(2), V(3)),
       Vop3("V_MIN3", "u32", V(5), V(1), V(2), V(3)),
       Vop3("V_CNDMASK_B32", "b32", V(6), V(4), V(5), SReg(6, 2)),
       Vop2("V_SUBB_U32", V(7), V(4), V(5)), End >>,
    One, OneWave, {V(n) : n \in 2 .. 7}, TRUE)

MCKernels == {Copy, InPlace, Exchange, Loop, Diverge, Wide, Three}
=============================================================================
