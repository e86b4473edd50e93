------------------------------ MODULE ScalarALU ------------------------------
(***************************************************************************)
(* The scalar instructions of src/emu/alusop1.go, alusop2.go, alusopc.go,  *)
(* alusopk.go and the branches of alu.go.  An instruction reads and writes *)
(* a scratchpad: s.src0, s.src1, s.dst, s.exec, s.vcc, s.pc and s.imm are  *)
(* pairs, s.scc is a bit.  Each operator returns the scratchpad after the  *)
(* instruction.                                                            *)
(***************************************************************************)
EXTENDS Words

\* most instructions leave in SCC whether the result is not zero
WithResult(s, dst)  == [s EXCEPT !.dst = dst, !.scc = Truth(dst # 0)]
WithCarry(s, dst, scc) == [s EXCEPT !.dst = dst, !.scc = scc]

-----------------------------------------------------------------------------
\* SOP1

\* S_NOT never clears SCC
Move(op, s) ==
    CASE op \in {"S_MOV_B32", "S_MOV_B64"} -> [s EXCEPT !.dst = s.src0]
      [] op = "S_NOT_U32" ->
            LET dst == Not64(s.src0)
            IN  [s EXCEPT !.dst = dst, !.scc = IF dst # 0 THEN 1 ELSE s.scc]
      [] op = "S_BREV_B32" -> [s EXCEPT !.dst = Reversed32(s.src0)]
      [] op = "S_GETPC_B64" -> [s EXCEPT !.dst = U64(s.pc + 4)]

\* the old EXEC is the result, EXEC combines it with the operand
SaveExec(op, s) ==
    LET exec == CASE op = "S_AND_SAVEEXEC_B64"   -> BitAnd(s.src0, s.exec)
                  [] op = "S_OR_SAVEEXEC_B64"    -> BitOr(s.src0, s.exec)
                  [] op = "S_XOR_SAVEEXEC_B64"   -> BitXor(s.src0, s.exec)
                  [] op = "S_ANDN2_SAVEEXEC_B64" -> AndNot(s.src0, s.exec)
                  [] op = "S_ORN2_SAVEEXEC_B64"  -> BitOr(s.src0, Not64(s.exec))
                  [] op = "S_NAND_SAVEEXEC_B64"  -> Not64(BitAnd(s.src0, s.exec))
                  [] op = "S_NOR_SAVEEXEC_B64"   -> Not64(BitOr(s.src0, s.exec))
                  [] op = "S_NXOR_SAVEEXEC_B64"  -> Not64(BitXor(s.src0, s.exec))
    IN  [s EXCEPT !.dst = s.exec, !.exec = exec, !.scc = Truth(exec # 0)]

Moves == {"S_MOV_B32", "S_MOV_B64", "S_NOT_U32", "S_BREV_B32", "S_GETPC_B64"}

RunSOP1(op, s) == IF op \in Moves THEN Move(op, s) ELSE SaveExec(op, s)

-----------------------------------------------------------------------------
\* SOP2

\* S_ADD_I32 leaves the unsigned carry in SCC, like S_ADD_U32; S_SUB_U32 is
\* done in 64 bits and never clears SCC
AddSub(op, s) ==
    LET a == U32(s.src0)  b == U32(s.src1)
    IN  CASE op \in {"S_ADD_U32", "S_ADD_I32"} ->
                WithCarry(s, U32(a + b), Truth(a > Max32 - b))
          [] op = "S_SUB_U32" ->
                WithCarry(s, U64(s.src0 - s.src1),
                          IF s.src0 < s.src1 THEN 1 ELSE s.scc)
          [] op = "S_SUB_I32" ->
                LET x == I32(a)  y == I32(b)  d == I32(x - y)
                IN  WithCarry(s, U32(d),
                              Truth((y > 0 /\ d > x) \/ (y < 0 /\ d < x)))

\* the difference Max - scc - src1 wraps around in 32 bits
AddWithCarry(op, s) ==
    LET a == U32(s.src0)  b == U32(s.src1)
    IN  CASE op = "S_ADDC_U32" ->
                WithCarry(s, U32(a + b + s.scc),
                          Truth(~(a < U32(Max32 - s.scc - b))))
          [] op = "S_SUBB_U32" ->
                WithCarry(s, U64(s.src0 - s.src1 - s.scc),
                          Truth(s.src0 < U64(s.src1 + s.scc)))

\* the first operand when it is chosen, and then SCC is set, never cleared
MinMax(op, s) ==
    LET first == CASE op = "S_MIN_I32" -> I32(s.src0) < I32(s.src1)
                   [] op = "S_MIN_U32" -> s.src0 < s.src1
                   [] op = "S_MAX_I32" -> I32(s.src0) > I32(s.src1)
                   [] op = "S_MAX_U32" -> s.src0 > s.src1
    IN  IF first THEN WithCarry(s, s.src0, 1) ELSE [s EXCEPT !.dst = s.src1]

Select(op, s) == [s EXCEPT !.dst = IF s.scc = 1 THEN s.src0 ELSE s.src1]

Logic(op, s) ==
    CASE op \in {"S_AND_B32", "S_AND_B64"} -> WithResult(s, BitAnd(s.src0, s.src1))
      [] op = "S_OR_B64"    -> WithResult(s, BitOr(s.src0, s.src1))
      [] op = "S_XOR_B64"   -> WithResult(s, BitXor(s.src0, s.src1))
      [] op = "S_ANDN2_B64" -> WithResult(s, AndNot(s.src0, s.src1))

\* S_LSHR_B32 shifts the whole slot, S_ASHR_I32 by a whole byte
Shift(op, s) ==
    CASE op = "S_LSHL_B32" -> WithResult(s, Shl32(s.src0, s.src1 % Word))
      [] op = "S_LSHL_B64" -> WithResult(s, Shl64(s.src0, s.src1 % Pair))
      [] op = "S_LSHR_B32" -> WithResult(s, Shr(s.src0, s.src1 % Word))
      [] op = "S_LSHR_B64" -> WithResult(s, Shr(s.src0, s.src1 % Pair))
      [] op = "S_ASHR_I32" ->
            WithResult(s, U32(Sar(I32(s.src0), s.src1 % (8 * Word))))

\* S_BFE_I32 does not extend the sign of its field; S_MUL_I32 tests the overflow
\* by dividing back, which misses -1 times the least number
BitField(op, s) ==
    CASE op = "S_BFM_B32" ->
            [s EXCEPT !.dst = Shl64(2^(s.src0 % Word) - 1, s.src1 % Word)]
      [] op = "S_MUL_I32" ->
            LET x == I32(s.src0)  y == I32(s.src1)  d == I32(x * y)
            IN  WithCarry(s, U32(d), IF x * y # d /\ x # -1 THEN 1 ELSE s.scc)
      [] op = "S_BFE_I32" ->
            LET offset == U32(s.src1) % Word
                width  == (U32(s.src1) \div 2^Half) % (4 * Word)
                field  == U32(Sar(I32(s.src0), offset))
            IN  WithResult(s, field % 2^(IF width > Word THEN Word ELSE width))

RunSOP2(op, s) ==
    CASE op \in {"S_ADD_U32", "S_ADD_I32", "S_SUB_U32", "S_SUB_I32"} -> AddSub(op, s)
      [] op \in {"S_ADDC_U32", "S_SUBB_U32"} -> AddWithCarry(op, s)
      [] op \in {"S_MIN_I32", "S_MIN_U32", "S_MAX_I32", "S_MAX_U32"} -> MinMax(op, s)
      [] op = "S_CSELECT_B32" -> Select(op, s)
      [] op \in {"S_AND_B32", "S_AND_B64", "S_OR_B64", "S_XOR_B64", "S_ANDN2_B64"} ->
            Logic(op, s)
      [] op \in {"S_BFM_B32", "S_MUL_I32", "S_BFE_I32"} -> BitField(op, s)
      [] OTHER -> Shift(op, s)

-----------------------------------------------------------------------------
\* SOPC, SOPK and SOPP.  rel is the relation of a comparison and typ the type
\* of its operands.

Related(rel, x, y) ==
    CASE rel = "lt" -> x < y
      [] rel = "le" -> x <= y
      [] rel = "eq" -> x = y
      [] rel = "ge" -> x >= y
      [] rel = "gt" -> x > y
      [] rel = "lg" -> x # y

RunSOPC(rel, typ, s) ==
    LET x == IF typ = "i32" THEN I32(s.src0) ELSE U32(s.src0)
        y == IF typ = "i32" THEN I32(s.src1) ELSE U32(s.src1)
    IN  [s EXCEPT !.scc = Truth(Related(rel, x, y))]

\* the comparison looks at the low half of the register only
RunSOPK(op, s) ==
    LET imm == I16(s.imm)
    IN  CASE op = "S_MOVK_I32"    -> [s EXCEPT !.dst = U64(imm)]
          [] op = "S_CMPK_LG_I32" -> [s EXCEPT !.scc = Truth(I16(s.dst) # imm)]
          [] op = "S_MULK_I32"    -> [s EXCEPT !.dst = U64(I32(imm * I32(s.dst)))]

RunSOPP(op, s) ==
    LET taken == CASE op = "S_BRANCH"         -> TRUE
                   [] op = "S_CBRANCH_SCC0"   -> s.scc = 0
                   [] op = "S_CBRANCH_SCC1"   -> s.scc = 1
                   [] op = "S_CBRANCH_VCCZ"   -> s.vcc = 0
                   [] op = "S_CBRANCH_VCCNZ"  -> s.vcc # 0
                   [] op = "S_CBRANCH_EXECZ"  -> s.exec = 0
                   [] op = "S_CBRANCH_EXECNZ" -> s.exec # 0
                   [] OTHER -> FALSE            \* S_NOP, S_WAITCNT
    IN  IF taken THEN [s EXCEPT !.pc = U64(s.pc + 4 * I16(s.imm))] ELSE s
=============================================================================
