------------------------------ MODULE VectorALU ------------------------------
(***************************************************************************)
(* The vector instructions of src/emu/aluvop1.go, aluvop2.go, aluvop3a.go, *)
(* aluvop3b.go and aluvopc.go, and the sub-word selects of alu.go.         *)
(*                                                                         *)
(* s.src0, s.src1, s.src2 and s.dst hold a pair for every lane.  Lanes     *)
(* outside s.exec are skipped by every loop of the code, except where an   *)
(* operator says otherwise.                                                *)
(*                                                                         *)
(* Floating point is not interpreted: F32(op, args) and F64(op, args) are  *)
(* the bits of a result, FLess and FEqual the order of two floats given    *)
(* by their bits, so that NaN is a value neither less, equal nor greater.  *)
(***************************************************************************)
EXTENDS Words

CONSTANTS F32(_, _), F64(_, _), FLess(_, _), FEqual(_, _)

\* one result per active lane, the slots of the others stay as they are
PerLane(s, f(_)) ==
    [s EXCEPT !.dst = [i \in Lanes |-> IF Masked(s.exec, i) THEN f(i) ELSE s.dst[i]]]

\* the active lanes a condition holds for, as the bits of a mask
LaneMask(s, p(_)) == Mask({i \in Active(s.exec) : p(i)})

-----------------------------------------------------------------------------
\* VOP1

\* V_READFIRSTLANE reads the lowest active lane, or lane 0, and fills all slots
MoveLanes(op, s) ==
    IF op = "V_MOV_B32" THEN PerLane(s, LAMBDA i : s.src0[i])
    ELSE LET first == IF Active(s.exec) = {} THEN 0 ELSE Min(Active(s.exec))
         IN  [s EXCEPT !.dst = [i \in Lanes |-> s.src0[first]]]

IntToFloat(op, s) ==
    PerLane(s, LAMBDA i :
        CASE op = "V_CVT_F64_I32" -> F64(op, <<I32(s.src0[i])>>)
          [] op = "V_CVT_F32_I32" -> F32(op, <<I32(s.src0[i])>>)
          [] op = "V_CVT_F32_U32" -> F32(op, <<U32(s.src0[i])>>))

\* negative numbers and NaN become 0
FloatToInt(op, s) ==
    PerLane(s, LAMBDA i :
        LET x == U32(s.src0[i])
        IN  IF ~FEqual(x, x) \/ (op = "V_CVT_U32_F32" /\ FLess(x, 0)) THEN 0
            ELSE U32(F32(op, <<x>>)))

FloatUnary(op, s) == PerLane(s, LAMBDA i : F32(op, <<U32(s.src0[i])>>))

NotAndReverse(op, s) ==
    PerLane(s, LAMBDA i : IF op = "V_NOT_B32" THEN Not32(s.src0[i])
                          ELSE Reversed32(s.src0[i]))

ConvertUnary(op, s) ==
    PerLane(s, LAMBDA i :
        CASE op = "V_CVT_F32_UBYTE0" -> F32("V_CVT_F32_U32", <<s.src0[i] % 2^ByteBits>>)
          [] op = "V_CVT_F64_F32" -> F64(op, <<U32(s.src0[i])>>)
          [] op = "V_RCP_F64"     -> F64(op, <<s.src0[i]>>)
          [] op = "V_SQRT_F32"    -> F32(op, <<U32(s.src0[i])>>)
          [] op = "V_CVT_F32_F64" -> F32(op, <<s.src0[i]>>))

\* V_CVT_F16_F32 takes the fraction from the number of the lane, which is 0 in
\* all 64 lanes, so only the sign and the exponent of the operand are seen;
\* opcode 76 copies its operand
HalfAndCopy(op, s) ==
    PerLane(s, LAMBDA i : IF op = "V_CVT_F16_F32"
                          THEN U16(F32(op, <<U32(s.src0[i])>>)) ELSE s.src0[i])

Truncations == {"V_TRUNC_F32", "V_RNDNE_F32", "V_EXP_F32", "V_LOG_F32", "V_RSQ_F32",
                "V_RCP_IFLAG_F32"}

RunVOP1(op, s) ==
    CASE op \in {"V_MOV_B32", "V_READFIRSTLANE_B32"} -> MoveLanes(op, s)
      [] op \in {"V_CVT_F64_I32", "V_CVT_F32_I32", "V_CVT_F32_U32"} -> IntToFloat(op, s)
      [] op \in {"V_CVT_U32_F32", "V_CVT_I32_F32"} -> FloatToInt(op, s)
      [] op \in Truncations -> FloatUnary(op, s)
      [] op \in {"V_NOT_B32", "V_BFREV_B32"} -> NotAndReverse(op, s)
      [] op \in {"V_CVT_F16_F32", "V_LOG_LEGACY_F32"} -> HalfAndCopy(op, s)
      [] OTHER -> ConvertUnary(op, s)

-----------------------------------------------------------------------------
\* VOP2

ConditionalMask(s) ==
    PerLane(s, LAMBDA i : IF Bit(s.vcc, i) = 1 THEN s.src1[i] ELSE s.src0[i])

FloatBinary(op, s) ==
    PerLane(s, LAMBDA i :
        LET x == U32(s.src0[i])  y == U32(s.src1[i])
        IN  CASE op = "V_SUBREV_F32" -> F32("V_SUB_F32", <<y, x>>)
              [] OTHER -> F32(op, <<x, y>>))

\* the low three bytes of a slot
Low24(x) == x % 2^(3 * ByteBits)

Multiply24(op, s) ==
    PerLane(s, LAMBDA i :
        CASE op = "V_MUL_I32_I24" ->
                U64(I32(Signed(s.src0[i], 3 * ByteBits) * Signed(s.src1[i], 3 * ByteBits)))
          [] op = "V_MUL_U32_U24" -> U32(Low24(s.src0[i]) * Low24(s.src1[i])))

FloatMinMax(op, s) ==
    PerLane(s, LAMBDA i :
        LET x == U32(s.src0[i])  y == U32(s.src1[i])
        IN  IF (op = "V_MIN_F32" /\ FLess(y, x)) \/ (op = "V_MAX_F32" /\ FLess(x, y))
            THEN y ELSE x)

\* the signed result is extended to the whole slot
IntMinMax(op, s) ==
    PerLane(s, LAMBDA i :
        CASE op = "V_MIN_I32" -> U64(Min({I32(s.src0[i]), I32(s.src1[i])}))
          [] op = "V_MAX_I32" -> U64(Max({I32(s.src0[i]), I32(s.src1[i])}))
          [] op = "V_MIN_U32" -> Min({U32(s.src0[i]), U32(s.src1[i])})
          [] op = "V_MAX_U32" -> Max({U32(s.src0[i]), U32(s.src1[i])}))

ShiftReversed(op, s) ==
    PerLane(s, LAMBDA i :
        LET n == s.src0[i] % Word
        IN  CASE op = "V_LSHRREV_B32" -> Shr(s.src1[i], n)
              [] op = "V_ASHRREV_I32" -> U64(Sar(I32(s.src1[i]), n))
              [] op = "V_LSHLREV_B32" -> Shl32(s.src1[i], n))

\* the sub-word selects of a SDWA operand; the code names them by their masks
SelMask(sel) ==
    CASE sel = "BYTE_0" -> 2^ByteBits - 1
      [] sel = "BYTE_1" -> (2^ByteBits - 1) * 2^ByteBits
      [] sel = "BYTE_2" -> (2^ByteBits - 1) * 2^Half
      [] sel = "BYTE_3" -> (2^ByteBits - 1) * 2^(3 * ByteBits)
      [] sel = "WORD_0" -> 2^Half - 1
      [] sel = "WORD_1" -> (2^Half - 1) * 2^Half
      [] sel = "DWORD"  -> Max32

SelShift(sel) ==
    CASE sel \in {"BYTE_0", "WORD_0", "DWORD"} -> 0
      [] sel = "BYTE_1" -> ByteBits
      [] sel \in {"BYTE_2", "WORD_1"} -> Half
      [] sel = "BYTE_3" -> 3 * ByteBits

SdwaSrcSelect(x, sel) == BitAnd(U32(x), SelMask(sel)) \div 2^SelShift(sel)

\* the bits outside the field become 0, whatever dst_unused asks for
SdwaDstSelect(x, sel) == BitAnd(U32(x * 2^SelShift(sel)), SelMask(sel))

BitwiseOf(op, x, y) == CASE op = "V_AND_B32" -> BitAnd(x, y)
                         [] op = "V_OR_B32"  -> BitOr(x, y)
                         [] op = "V_XOR_B32" -> BitXor(x, y)

LogicLanes(op, s, inst) ==
    PerLane(s, LAMBDA i :
        IF inst.sdwa
        THEN SdwaDstSelect(BitwiseOf(op, SdwaSrcSelect(s.src0[i], inst.sel0),
                                         SdwaSrcSelect(s.src1[i], inst.sel1)),
                           inst.selDst)
        ELSE BitwiseOf(op, U32(s.src0[i]), U32(s.src1[i])))

MultiplyAdd(op, s) ==
    PerLane(s, LAMBDA i :
        LET product == F32("V_MUL_F32", <<U32(s.src0[i]), U32(s.src1[i])>>)
        IN  CASE op = "V_MAC_F32"   -> F32("V_ADD_F32", <<U32(s.dst[i]), product>>)
              [] op = "V_MADAK_F32" -> F32("V_ADD_F32", <<product, U32(s.lit)>>))

\* the SDWA form selects without shifting the field down, and its test of a
\* negative overflow looks for src0 < Min + src1
AddSdwa(s, inst) ==
    LET a(i) == I32(BitAnd(U32(s.src0[i]), SelMask(inst.sel0)))
        b(i) == I32(BitAnd(U32(s.src1[i]), SelMask(inst.sel1)))
        least == -2^(Word - 1)
        overflow(i) == \/ b(i) > 0 /\ a(i) > 2^(Word - 1) - 1 - b(i)
                       \/ b(i) < 0 /\ a(i) < I32(least + b(i))
    IN  [PerLane(s, LAMBDA i : BitAnd(U32(a(i) + b(i)), SelMask(inst.selDst)))
            EXCEPT !.vcc = LaneMask(s, overflow)]

AddSubLanes(op, s) ==
    LET a(i) == U32(s.src0[i])
        b(i) == U32(s.src1[i])
        result(i) == CASE op = "V_ADD_I32"    -> U32(a(i) + b(i))
                       [] op = "V_SUB_I32"    -> U32(a(i) - b(i))
                       [] op = "V_SUBREV_I32" -> U32(b(i) - a(i))
        carry(i)  == CASE op = "V_ADD_I32"    -> a(i) + b(i) > Max32
                       [] op = "V_SUB_I32"    -> a(i) < b(i)
                       [] op = "V_SUBREV_I32" -> a(i) > b(i)
    IN  [PerLane(s, result) EXCEPT !.vcc = LaneMask(s, carry)]

\* in 64 bits: Max32 - carry - src1 wraps around when src1 is Max32 and there
\* is a carry to add
AddSubCarryLanes(op, s) ==
    LET a(i) == s.src0[i]
        b(i) == s.src1[i]
        c(i) == Bit(s.vcc, i)
        result(i) == CASE op = "V_ADDC_U32"    -> U64(a(i) + b(i) + c(i))
                       [] op = "V_SUBB_U32"    -> U64(a(i) - b(i) - c(i))
                       [] op = "V_SUBBREV_U32" -> U64(b(i) - a(i) - c(i))
        carry(i)  == CASE op = "V_ADDC_U32"    -> a(i) > U64(Max32 - c(i) - b(i))
                       [] op = "V_SUBB_U32"    -> a(i) < U64(b(i) + c(i))
                       [] op = "V_SUBBREV_U32" -> b(i) < U64(a(i) + c(i))
    IN  [PerLane(s, result) EXCEPT !.vcc = LaneMask(s, carry)]

RunVOP2(op, s, inst) ==
    CASE op = "V_CNDMASK_B32" -> ConditionalMask(s)
      [] op \in {"V_ADD_F32", "V_SUB_F32", "V_SUBREV_F32", "V_MUL_F32"} -> FloatBinary(op, s)
      [] op \in {"V_MUL_I32_I24", "V_MUL_U32_U24"} -> Multiply24(op, s)
      [] op \in {"V_MIN_F32", "V_MAX_F32"} -> FloatMinMax(op, s)
      [] op \in {"V_MIN_I32", "V_MAX_I32", "V_MIN_U32", "V_MAX_U32"} -> IntMinMax(op, s)
      [] op \in {"V_LSHRREV_B32", "V_ASHRREV_I32", "V_LSHLREV_B32"} -> ShiftReversed(op, s)
      [] op \in {"V_AND_B32", "V_OR_B32", "V_XOR_B32"} -> LogicLanes(op, s, inst)
      [] op \in {"V_MAC_F32", "V_MADAK_F32"} -> MultiplyAdd(op, s)
      [] op = "V_ADD_I32" /\ inst.sdwa -> AddSdwa(s, inst)
      [] op \in {"V_ADD_I32", "V_SUB_I32", "V_SUBREV_I32"} -> AddSubLanes(op, s)
      [] OTHER -> AddSubCarryLanes(op, s)

-----------------------------------------------------------------------------
\* VOPC: the compare instructions write all of VCC, with 0 for inactive lanes.
\* inst.rel names the relation, inst.typ the type of the operands.

ToVCC(s, p(_)) == [s EXCEPT !.vcc = LaneMask(s, p)]

FloatRelated(rel, x, y) ==
    CASE rel = "lt" -> FLess(x, y)
      [] rel = "eq" -> FEqual(x, y)
      [] rel = "le" -> FLess(x, y) \/ FEqual(x, y)
      [] rel = "lg" -> ~FEqual(x, y)           \* true of NaN as well
      [] rel = "gt" -> FLess(y, x)
      [] rel = "ge" -> FLess(y, x) \/ FEqual(x, y)

CompareFloat(s, rel) ==
    ToVCC(s, LAMBDA i : FloatRelated(rel, U32(s.src0[i]), U32(s.src1[i])))

\* the negated relations hold of NaN; rel is the relation that is negated
CompareFloatNot(s, rel) ==
    ToVCC(s, LAMBDA i : ~FloatRelated(rel, U32(s.src0[i]), U32(s.src1[i])))

IntRelated(rel, x, y) ==
    CASE rel = "lt" -> x < y
      [] rel = "eq" -> x = y
      [] rel = "le" -> x <= y
      [] rel \in {"lg", "ne"} -> x # y
      [] rel = "gt" -> x > y
      [] rel = "ge" -> x >= y
      [] rel = "f" -> FALSE
      [] rel = "tru" -> TRUE

\* mutant: the operands are not taken as signed
CompareI32Unsigned(s, rel) ==
    ToVCC(s, LAMBDA i : IntRelated(rel, U32(s.src0[i]), U32(s.src1[i])))

CompareI32(s, rel) ==
    ToVCC(s, LAMBDA i : IntRelated(rel, I32(s.src0[i]), I32(s.src1[i])))

\* only the test for equality looks at the low words; the others at the slots
CompareU32(s, rel) ==
    ToVCC(s, LAMBDA i : IF rel = "eq" THEN U32(s.src0[i]) = U32(s.src1[i])
                        ELSE IntRelated(rel, s.src0[i], s.src1[i]))

CompareU64(s, rel) == ToVCC(s, LAMBDA i : IntRelated(rel, s.src0[i], s.src1[i]))

RunVOPC(inst, s) ==
    CASE inst.typ = "f32" /\ ~inst.negated -> CompareFloat(s, inst.rel)
      [] inst.typ = "f32" /\ inst.negated  -> CompareFloatNot(s, inst.rel)
      [] inst.typ = "i32" -> CompareI32(s, inst.rel)
      [] inst.typ = "u32" -> CompareU32(s, inst.rel)
      [] inst.typ = "u64" -> CompareU64(s, inst.rel)

-----------------------------------------------------------------------------
\* VOP3a.  The input modifiers come first; abs and neg name the operands.

SignBit(width) == 2^(width - 1)

Modified(s, slot, f(_)) == [i \in Lanes |-> f(s[slot][i])]

\* the absolute value, of floats only, and in every lane
PreAbs(s, inst) ==
    IF inst.typ # "f32" THEN s
    ELSE [s EXCEPT !.src0 = IF 0 \in inst.abs THEN Modified(s, "src0", LAMBDA x : U32(x) % SignBit(Word)) ELSE @,
                   !.src1 = IF 1 \in inst.abs THEN Modified(s, "src1", LAMBDA x : U32(x) % SignBit(Word)) ELSE @,
                   !.src2 = IF 2 \in inst.abs THEN Modified(s, "src2", LAMBDA x : U32(x) % SignBit(Word)) ELSE @]

NegF64(x) == U64(x + SignBit(Pair))
NegF32(x) == U32(U32(x) + SignBit(Word))
NegB32(x) == U32(-I32(x))

Negated(s, inst, f(_)) ==
    [s EXCEPT !.src0 = IF 0 \in inst.neg THEN Modified(s, "src0", f) ELSE @,
              !.src1 = IF 1 \in inst.neg THEN Modified(s, "src1", f) ELSE @,
              !.src2 = IF 2 \in inst.neg THEN Modified(s, "src2", f) ELSE @]

PreNeg(s, inst) ==
    CASE inst.typ = "f64" -> Negated(s, inst, NegF64)
      [] inst.typ = "f32" -> Negated(s, inst, NegF32)
      [] inst.typ = "b32" -> Negated(s, inst, NegB32)
      [] OTHER -> s                       \* the code prints that it does not

Preprocess(s, inst) ==
    LET absolute == IF inst.abs # {} THEN PreAbs(s, inst) ELSE s
    IN  IF inst.neg # {} THEN PreNeg(absolute, inst) ELSE absolute

\* the mask of a comparison is or-ed into the first slot
ToDst(s, p(_)) == [s EXCEPT !.dst[0] = BitOr(s.dst[0], LaneMask(s, p))]

Compare3Float(s, inst) ==
    ToDst(s, LAMBDA i :
        LET related == FloatRelated(inst.rel, U32(s.src0[i]), U32(s.src1[i]))
        IN  IF inst.negated THEN ~related ELSE related)

Compare3I32(s, rel) ==
    ToDst(s, LAMBDA i : IntRelated(rel, I32(s.src0[i]), I32(s.src1[i])))

Compare3Unsigned(s, inst) ==
    ToDst(s, LAMBDA i : IF inst.typ = "u32" /\ inst.rel = "eq"
                        THEN U32(s.src0[i]) = U32(s.src1[i])
                        ELSE IntRelated(inst.rel, s.src0[i], s.src1[i]))

\* three operands
Select3(s) ==
    PerLane(s, LAMBDA i : IF Bit(s.src2[i], i) = 1 THEN s.src1[i] ELSE s.src0[i])

MultiplyAdd3(op, s) ==
    PerLane(s, LAMBDA i :
        LET x == s.src0[i]  y == s.src1[i]  z == s.src2[i]
        IN  CASE op = "V_SUB_F32" -> F32(op, <<U32(x), U32(y)>>)
              [] op = "V_MAD_F32" ->
                    F32("V_ADD_F32", <<F32("V_MUL_F32", <<U32(x), U32(y)>>), U32(z)>>)
              [] op = "V_MAD_I32_I24" ->
                    U64(I32(Signed(x, 3 * ByteBits) * Signed(y, 3 * ByteBits) + I32(z)))
              [] op = "V_MAD_U64_U32" -> U64(x * y + z)
              [] op = "V_MUL_LO_U32"  -> U64(x * y)
              [] op = "V_MUL_HI_U32"  -> U64(x * y) \div 2^Word)

Shift64(op, s) ==
    PerLane(s, LAMBDA i : IF op = "V_LSHLREV_B64" THEN Shl64(s.src1[i], s.src0[i])
                          ELSE U64(Sar(I64(s.src1[i]), s.src0[i])))

Float64(op, s) ==
    PerLane(s, LAMBDA i :
        CASE op \in {"V_ADD_F64", "V_MUL_F64"} -> F64(op, <<s.src0[i], s.src1[i]>>)
          [] op = "V_FMA_F64" ->
                F64("V_ADD_F64", <<F64("V_MUL_F64", <<s.src0[i], s.src1[i]>>), s.src2[i]>>))

\* the scan of the code: keep the first, replace it by a later one that is better
Best3(x, y, z, better(_, _)) ==
    LET first == IF better(y, x) THEN y ELSE x
    IN  IF better(z, first) THEN z ELSE first

Min3(typ, s) ==
    PerLane(s, LAMBDA i :
        LET x == U32(s.src0[i])  y == U32(s.src1[i])  z == U32(s.src2[i])
        IN  CASE typ = "f32" -> Best3(x, y, z, FLess)
              [] typ = "i32" -> Best3(x, y, z, LAMBDA a, b : I32(a) < I32(b))
              [] typ = "u32" -> Best3(x, y, z, LAMBDA a, b : a < b))

Max3(typ, s) ==
    PerLane(s, LAMBDA i :
        LET x == U32(s.src0[i])  y == U32(s.src1[i])  z == U32(s.src2[i])
        IN  CASE typ = "f32" -> Best3(x, y, z, LAMBDA a, b : FLess(b, a))
              [] typ = "i32" -> Best3(x, y, z, LAMBDA a, b : I32(a) > I32(b))
              [] typ = "u32" -> Best3(x, y, z, LAMBDA a, b : a > b))

\* the middle of a sorted list, for floats with NaN first
SortedMiddle(x, y, z, before(_, _)) ==
    CHOOSE m \in {x, y, z} :
        \E p \in {<<x, y, z>>, <<x, z, y>>, <<y, x, z>>, <<y, z, x>>, <<z, x, y>>, <<z, y, x>>} :
            p[2] = m /\ ~before(p[2], p[1]) /\ ~before(p[3], p[2]) /\ ~before(p[3], p[1])

FloatBefore(a, b) == FLess(a, b) \/ (~FEqual(a, a) /\ FEqual(b, b))

\* median3Uint32: no operand is strictly in the middle when two are equal
Median3(x, y, z) ==
    LET between(b, a, c) == (b < a /\ b > c) \/ (b > a /\ b < c)
    IN  IF between(z, x, y) THEN z ELSE IF between(y, x, z) THEN y ELSE x

Med3(typ, s) ==
    PerLane(s, LAMBDA i :
        LET x == U32(s.src0[i])  y == U32(s.src1[i])  z == U32(s.src2[i])
        IN  CASE typ = "f32" -> SortedMiddle(x, y, z, FloatBefore)
              [] typ = "i32" -> SortedMiddle(x, y, z, LAMBDA a, b : I32(a) < I32(b))
              [] typ = "u32" -> Median3(x, y, z))

\* the test vccVal == 1 can only hold in lane 0
DivideMultiplyAdd(s) ==
    PerLane(s, LAMBDA i :
        LET sum == F64("V_ADD_F64", <<F64("V_MUL_F64", <<s.src0[i], s.src1[i]>>), s.src2[i]>>)
        IN  IF i = 0 /\ Bit(s.vcc, 0) = 1 THEN F64("scaled", <<sum>>) ELSE sum)

\* the special cases of a quotient; the two infinities of the code are large
\* finite numbers, and the comparisons with NaN never hold
DivideFixup(s) ==
    PerLane(s, LAMBDA i :
        LET sign == Truth(Bit(s.src1[i], Pair - 1) # Bit(s.src2[i], Pair - 1))
        IN  F64("V_DIV_FIXUP_F64", <<sign, s.src0[i], s.src1[i], s.src2[i]>>))

RunVOP3a(op, s0, inst) ==
    LET s == Preprocess(s0, inst)
    IN  CASE op = "V_CMP" /\ inst.typ = "f32" -> Compare3Float(s, inst)
          [] op = "V_CMP" /\ inst.typ = "i32" -> Compare3I32(s, inst.rel)
          [] op = "V_CMP" /\ inst.typ \in {"u32", "u64"} -> Compare3Unsigned(s, inst)
          [] op = "V_CNDMASK_B32" -> Select3(s)
          [] op \in {"V_LSHLREV_B64", "V_ASHRREV_I64"} -> Shift64(op, s)
          [] op \in {"V_ADD_F64", "V_MUL_F64", "V_FMA_F64"} -> Float64(op, s)
          [] op = "V_MIN3" -> Min3(inst.typ, s)
          [] op = "V_MAX3" -> Max3(inst.typ, s)
          [] op = "V_MED3" -> Med3(inst.typ, s)
          [] op = "V_DIV_FMAS_F64"  -> DivideMultiplyAdd(s)
          [] op = "V_DIV_FIXUP_F64" -> DivideFixup(s)
          [] OTHER -> MultiplyAdd3(op, s)

-----------------------------------------------------------------------------
\* VOP3b: the carries go to a scalar destination of their own, which starts at
\* 0.  The carry is told from bits above the low word of the slot; only V_SUBREV
\* without a borrow and V_SUB leave the slot as it is.

AddSub3(op, s) ==
    LET a(i) == s.src0[i]
        b(i) == s.src1[i]
        raw(i) == CASE op = "V_ADD_U32"    -> U64(a(i) + b(i))
                    [] op = "V_SUB_U32"    -> U64(a(i) - b(i))
                    [] op = "V_SUBREV_U32" -> U64(b(i) - a(i))
        carry(i) == IF op = "V_SUB_U32" THEN a(i) < b(i) ELSE raw(i) > Max32
    IN  [PerLane(s, LAMBDA i : IF carry(i) THEN U32(raw(i)) ELSE raw(i))
            EXCEPT !.sdst = LaneMask(s, carry)]

\* mutant: the borrow of the lower word is added
AddSubCarry3Adds(op, s) ==
    LET a(i) == s.src0[i]
        b(i) == s.src1[i]
        c(i) == Bit(s.src2[i], i)
        raw(i) == CASE op = "V_ADDC_U32"    -> U64(a(i) + b(i) + c(i))
                    [] op = "V_SUBB_U32"    -> U64(a(i) - b(i) + c(i))
                    [] op = "V_SUBBREV_U32" -> U64(b(i) - a(i) + c(i))
    IN  [PerLane(s, LAMBDA i : U32(raw(i)))
            EXCEPT !.sdst = LaneMask(s, LAMBDA i : raw(i) > Max32)]

AddSubCarry3(op, s) ==
    LET a(i) == s.src0[i]
        b(i) == s.src1[i]
        c(i) == Bit(s.src2[i], i)
        raw(i) == CASE op = "V_ADDC_U32"    -> U64(a(i) + b(i) + c(i))
                    [] op = "V_SUBB_U32"    -> U64(a(i) - b(i) - c(i))
                    [] op = "V_SUBBREV_U32" -> U64(b(i) - a(i) - c(i))
    IN  [PerLane(s, LAMBDA i : U32(raw(i)))
            EXCEPT !.sdst = LaneMask(s, LAMBDA i : raw(i) > Max32)]

\* every active lane overwrites all of VCC with 0 or 1, so the last one decides;
\* what is scaled depends on the floats of the lane alone
DivideScale(s) ==
    LET operands(i) == <<s.src0[i], s.src1[i], s.src2[i]>>
        last == Max(Active(s.exec))
    IN  [PerLane(s, LAMBDA i : F64("V_DIV_SCALE_F64", operands(i)))
            EXCEPT !.vcc = IF Active(s.exec) = {} THEN s.vcc
                           ELSE F64("scales", operands(last)) % 2]

RunVOP3b(op, s0, inst) ==
    LET s == Preprocess(s0, inst)
    IN  CASE op \in {"V_ADD_U32", "V_SUB_U32", "V_SUBREV_U32"} -> AddSub3(op, s)
          [] op \in {"V_ADDC_U32", "V_SUBB_U32", "V_SUBBREV_U32"} -> AddSubCarry3(op, s)
          [] op = "V_DIV_SCALE_F64" -> DivideScale(s)
=============================================================================
