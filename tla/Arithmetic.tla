----------------------------- MODULE Arithmetic -----------------------------
(***************************************************************************)
(* Short programs without memory, run on the registers of an emulated wave *)
(* (EmuRegisters, src/emu/scratchpadpreparer.go) and, side by side, on     *)
(* those of a wave of the timing model (CURegisters,                       *)
(* src/timing/cu/scratchpadpreparer.go).  What the instructions compute is *)
(* the same code for both; how operands get into the scratchpad and back   *)
(* is not.                                                                 *)
(*                                                                         *)
(* A program is a sequence of instructions and what is expected of it: its *)
(* goal is "any", or the property that is about it.                        *)
(***************************************************************************)
EXTENDS ALU

CONSTANTS Programs,      \* the programs
          Inputs         \* the words registers 0 to 3 start with, for lanes 0 and 1

VARIABLES program, input, \* what is run
          done,          \* instructions that have been run
          emu,           \* the registers of the emulator
          cu             \* those of the timing model

vars == <<program, input, done, emu, cu>>

T == INSTANCE CURegisters WITH LaneStride <- Cardinality(VRegs)

\* lanes and vector registers are numbered without gaps
ASSUME FilesAssumption ==
    /\ IsFiniteSet(VRegs) /\ VRegs = 0 .. Cardinality(VRegs) - 1
    /\ Lanes = 0 .. Cardinality(Lanes) - 1
    /\ SRegs \subseteq Nat

-----------------------------------------------------------------------------
\* The operands a decoded instruction can have (src/insts/disassembler.go) in a
\* wave that was given the registers they name.  Of other registers ReadReg and
\* WriteReg panic.  S_GETPC_B64 is left out: the timing model runs it with a PC
\* of 0.

InFile(o, regs) == o.n \in Nat /\ o.count \in Nat /\ E!Span(o) \subseteq regs

IsVector(o) == o.kind = "v" /\ InFile(o, VRegs)
IsScalar(o) == o.kind = "s" /\ InFile(o, SRegs)

IsRegister(o) ==
    \/ IsVector(o)
    \/ IsScalar(o)
    \/ o.kind \in {"scc", "vcc", "exec", "m0"}
    \/ o.kind = "vcclo" /\ o.count \in {1, 2}
    \/ o.kind = "vcchi" /\ o.count = 1
    \/ o.kind = "execlo" /\ o.count = 2

IsSource(o)   == o.kind \in {"int", "float", "literal"} \/ IsRegister(o)
IsOptional(o) == E!Present(o) => IsSource(o)

\* V_READFIRSTLANE_B32 has a scalar destination
IsLaneResult(o) == IsVector(o) \/ IsScalar(o) \/ o.kind = "m0"

WellFormedScalar(inst) ==
    \/ /\ inst.fmt = "SOP1" /\ inst.op # "S_GETPC_B64"
       /\ IsSource(inst.src0) /\ IsRegister(inst.dst)
    \/ /\ inst.fmt = "SOP2"
       /\ IsSource(inst.src0) /\ IsSource(inst.src1) /\ IsRegister(inst.dst)
    \/ inst.fmt = "SOPC" /\ IsSource(inst.src0) /\ IsSource(inst.src1)
    \/ inst.fmt = "SOPK" /\ IsSource(inst.imm) /\ IsRegister(inst.dst)
    \/ inst.fmt = "SOPP" /\ IsSource(inst.imm)

WellFormedVector(inst) ==
    \/ inst.fmt = "VOP1" /\ IsSource(inst.src0) /\ IsLaneResult(inst.dst)
    \/ /\ inst.fmt \in {"VOP2", "VOP3a", "VOP3b"}
       /\ IsSource(inst.src0) /\ IsSource(inst.src1) /\ IsOptional(inst.src2)
       /\ IF inst.fmt = "VOP3a" /\ inst.op = "V_CMP" THEN IsRegister(inst.dst)
          ELSE IsVector(inst.dst)
       /\ inst.fmt = "VOP3b" => IsRegister(inst.sdst)
    \/ inst.fmt = "VOPC" /\ IsSource(inst.src0) /\ IsSource(inst.src1)

WellFormedMemory(inst) ==
    \/ /\ inst.fmt = "SMEM"
       /\ IsSource(inst.base) /\ IsSource(inst.offset) /\ IsRegister(inst.data)
    \/ inst.fmt = "FLAT" /\ IsVector(inst.addr) /\ IsVector(inst.data) /\ IsVector(inst.dst)
    \/ /\ inst.fmt = "DS" /\ IsVector(inst.addr)
       /\ IsOptional(inst.data) /\ IsOptional(inst.data1)
       /\ E!Present(inst.dst) => IsVector(inst.dst)

WellFormed(inst) == WellFormedScalar(inst) \/ WellFormedVector(inst) \/ WellFormedMemory(inst)

\* Loads and stores of the timing model stop after Prepare: requests go out, and
\* the handlers of the answers write the registers (ExecuteFlat and ExecuteSMEM of
\* Execution).
Sent(inst) == inst.fmt \in {"FLAT", "SMEM"}

\* The programs have neither those nor instructions of the LDS.
ASSUME ProgramsAssumption ==
    \A p \in Programs : /\ Len(p.code) \in Nat
                        /\ \A k \in 1 .. Len(p.code) :
                              /\ WellFormed(p.code[k])
                              /\ ~Sent(p.code[k]) /\ p.code[k].fmt # "DS"

\* The two instructions that add or subtract numbers of two words, low words
\* first: their encoding, and which is subtracted from which.
WideOps ==
    {<<"VOP2", "add", "V_ADD_I32", "V_ADDC_U32">>, <<"VOP2", "sub", "V_SUB_I32", "V_SUBB_U32">>,
     <<"VOP2", "rsub", "V_SUBREV_I32", "V_SUBBREV_U32">>,
     <<"VOP3b", "add", "V_ADD_U32", "V_ADDC_U32">>, <<"VOP3b", "sub", "V_SUB_U32", "V_SUBB_U32">>,
     <<"VOP3b", "rsub", "V_SUBREV_U32", "V_SUBBREV_U32">>,
     <<"SOP2", "add", "S_ADD_U32", "S_ADDC_U32">>, <<"SOP2", "sub", "S_SUB_U32", "S_SUBB_U32">>}

\* Registers 0 and 1 hold the words of the one number, 2 and 3 those of the other,
\* 4 and 5 get the result.  The carry of VOP3b is in scalar registers 6 and 7.
IsChain(p) ==
    /\ Len(p.code) = 2
    /\ <<p.form, p.op, p.code[1].op, p.code[2].op>> \in WideOps
    /\ \A k \in 1 .. 2 :
          LET Reg(n) == IF p.form = "SOP2" THEN SReg(n, 1) ELSE VReg(n, 1)
          IN  /\ p.code[k].fmt = p.form
              /\ p.code[k].src0 = Reg(k - 1) /\ p.code[k].src1 = Reg(k + 1)
              /\ p.code[k].dst = Reg(k + 3)
              /\ p.form = "VOP2" => ~p.code[k].sdwa
              /\ p.form = "VOP3b" => /\ p.code[k].sdst = SReg(6, 2)
                                     /\ p.code[k].abs = {} /\ p.code[k].neg = {}
    /\ p.form = "VOP3b" => p.code[2].src2 = SReg(6, 2)

ASSUME ChainsAssumption == \A p \in Programs : p.goal = "wide" => IsChain(p)

ASSUME InputsAssumption == \A x \in Inputs, i \in Lanes, n \in 0 .. 3 : x[i][n] \in 0 .. Max32

-----------------------------------------------------------------------------
\* the special registers vary with the input, so that all values occur
Special == [pc |-> 0, m0 |-> 0, exec |-> IF input[0][2] = 2^(Word - 1) THEN 2 ELSE 3,
            vcc |-> input[0][3] % 4, scc |-> input[0][0] % 2]
Active0 == Active(Special.exec)
ScalarInput(n) == IF n < 4 THEN input[0][n] ELSE 0
VectorInput(i, n) == IF n < 4 THEN input[i][n] ELSE 0

Init ==
    /\ program \in Programs
    /\ input \in Inputs
    /\ done = 0
    /\ emu = [pc |-> Special.pc, m0 |-> Special.m0, exec |-> Special.exec, vcc |-> Special.vcc,
              scc |-> Special.scc,
              sreg |-> [n \in SRegs |-> ScalarInput(n)],
              vreg |-> [i \in Lanes |-> [n \in VRegs |-> VectorInput(i, n)]]]
    /\ cu = [pc |-> Special.pc, m0 |-> Special.m0, exec |-> Special.exec, vcc |-> Special.vcc,
             scc |-> Special.scc, sOffset |-> 0, vOffset |-> 0,
             s |-> [n \in SRegs |-> ScalarInput(n)],
             v |-> [n \in 0 .. Cardinality(Lanes) * Cardinality(VRegs) - 1 |->
                       VectorInput(n \div Cardinality(VRegs), n % Cardinality(VRegs))]]

Computed(inst, s) == Run(inst, [s |-> s, mem |-> <<>>, lds |-> <<>>]).s

Execute ==
    /\ done < Len(program.code)
    /\ LET inst == program.code[done + 1]
       IN  /\ emu' = E!Commit(emu, inst, Computed(inst, E!Prepare(emu, inst)))
           /\ cu' = T!Commit(cu, inst, Computed(inst, T!Prepare(cu, inst)))
    /\ done' = done + 1
    /\ UNCHANGED <<program, input>>

Ended == done = Len(program.code)
Next == Execute \/ (Ended /\ UNCHANGED vars)

Spec == Init /\ [][Next]_vars

-----------------------------------------------------------------------------
\* Properties

\* The two scratchpad preparers are one: whatever instruction without memory runs, it
\* leaves the same registers in a wave of the emulator and in one of the timing model.  They
\* are 600 lines each, written twice.
PreparersAgree ==
    /\ emu.pc = cu.pc /\ emu.m0 = cu.m0
    /\ emu.exec = cu.exec /\ emu.vcc = cu.vcc /\ emu.scc = cu.scc
    /\ \A n \in SRegs : emu.sreg[n] = cu.s[n]
    /\ \A i \in Lanes, n \in VRegs :
            <<emu.vreg[i][n]>> = T!ReadReg(cu, VReg(n, 1), i)

\* Numbers of two words: the low words are added or subtracted first, the high
\* ones with the carry.  The result is that of the wide operation and the carry
\* left over is its overflow, except where the code is known to be wrong: V_ADDC
\* of VOP2 loses the carry of Max32 + carry (src/emu/aluvop2.go:669), S_ADDC
\* finds one in a sum of exactly Max32 (src/emu/alusop2.go:142), and S_SUB leaves
\* an SCC that was set (src/emu/alusop2.go:91).
Wide(i, n) == PairOf(<<VectorInput(i, n), VectorInput(i, n + 1)>>)
Difference(op, x, y) == IF op = "sub" THEN x - y ELSE y - x
WideResult(op, x, y) == U64(IF op = "add" THEN x + y ELSE Difference(op, x, y))
Overflows(op, x, y)  == IF op = "add" THEN x + y >= 2^Pair ELSE Difference(op, x, y) < 0
CarryKnownWrong(i) ==
    LET low == VectorInput(i, 0) + VectorInput(i, 2) > Max32
    IN  CASE program.form = "VOP2" -> program.op = "add" /\ low /\ VectorInput(i, 3) = Max32
          [] program.form = "SOP2" -> TRUE
          [] OTHER -> FALSE
WideArithmetic ==
    Ended /\ program.goal = "wide" =>
        IF program.form = "SOP2"
        THEN program.op = "add" \/ Special.scc = 0 =>
                PairOf(<<emu.sreg[4], emu.sreg[5]>>) = WideResult(program.op, Wide(0, 0), Wide(0, 2))
        ELSE \A i \in Active0 :
                LET carry == IF program.form = "VOP2" THEN emu.vcc
                             ELSE PairOf(<<emu.sreg[6], emu.sreg[7]>>)
                IN  /\ PairOf(<<emu.vreg[i][4], emu.vreg[i][5]>>)
                        = WideResult(program.op, Wide(i, 0), Wide(i, 2))
                    /\ CarryKnownWrong(i)
                        \/ Masked(carry, i) = Overflows(program.op, Wide(i, 0), Wide(i, 2))

\* One operation has one meaning: where the short encoding (VOP2, VOPC) and the
\* long one (VOP3) of an operation are two functions of the code, both leave the
\* same results.  program.same pairs the registers of the one with those of the
\* other.
EncodingsAgree ==
    Ended /\ program.goal = "same" =>
        \A p \in program.same, i \in Active0 : E!ReadReg(emu, p[1], i) = E!ReadReg(emu, p[2], i)
=============================================================================
