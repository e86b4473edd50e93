----------------------------- MODULE Instructions -----------------------------
(***************************************************************************)
(* Instructions of the emulator from their operation and operands, for the *)
(* kernels and programs the models are checked with, and a small set of    *)
(* floats for words of W bits: sign and magnitude, with one NaN.           *)
(***************************************************************************)
EXTENDS ALU

FSign == 2^(Word - 1)
MCNaN == FSign - 1
MCFloat(x) == IF x >= FSign THEN FSign - x ELSE x
MCNumber(x) == x % FSign # MCNaN
MCFLess(x, y) == MCNumber(x) /\ MCNumber(y) /\ MCFloat(x) < MCFloat(y)
MCFEqual(x, y) == MCNumber(x) /\ MCNumber(y) /\ MCFloat(x) = MCFloat(y)
MCHash(op, args) == FoldLeft(LAMBDA h, x : (7 * h + x) % 2^Word, Len(op), args)
MCF32(op, args) == MCHash(op, args)
MCF64(op, args) == MCHash(op, args) * 2^Word + 3

-----------------------------------------------------------------------------
Imm(x) == [kind |-> "int", n |-> 0, count |-> 0, val |-> x]
EXECLO == [kind |-> "execlo", n |-> 0, count |-> 2, val |-> 0]
VCC    == [kind |-> "vcclo", n |-> 0, count |-> 2, val |-> 0]
S(n) == SReg(n, 1)
V(n) == VReg(n, 1)

Plain == [fmt |-> "SOPP", op |-> "S_NOP", src0 |-> None, src1 |-> None, src2 |-> None,
          dst |-> None, sdst |-> None, imm |-> Imm(0), addr |-> None, data |-> None,
          data1 |-> None, base |-> None, offset |-> None, off0 |-> 0, off1 |-> 0,
          rel |-> "eq", typ |-> "u32", negated |-> FALSE, abs |-> {}, neg |-> {},
          sdwa |-> FALSE, sel0 |-> "DWORD", sel1 |-> "DWORD", selDst |-> "DWORD",
          vmcnt |-> 0, lgkmcnt |-> 0]

\* an instruction of a format from its operation and operands
Sopp(op, imm)      == [Plain EXCEPT !.op = op, !.imm = Imm(imm)]
Sopk(op, dst, imm) == [Plain EXCEPT !.fmt = "SOPK", !.op = op, !.dst = dst, !.imm = Imm(imm)]
Sop1(op, dst, a)   == [Plain EXCEPT !.fmt = "SOP1", !.op = op, !.dst = dst, !.src0 = a]
Sop2(op, dst, a, b) == [Plain EXCEPT !.fmt = "SOP2", !.op = op, !.dst = dst, !.src0 = a, !.src1 = b]
Sopc(rel, typ, a, b) == [Plain EXCEPT !.fmt = "SOPC", !.op = "S_CMP", !.rel = rel, !.typ = typ,
                                      !.src0 = a, !.src1 = b]
Vop1(op, dst, a)   == [Plain EXCEPT !.fmt = "VOP1", !.op = op, !.dst = dst, !.src0 = a]
Vop2(op, dst, a, b) == [Plain EXCEPT !.fmt = "VOP2", !.op = op, !.dst = dst, !.src0 = a, !.src1 = b]
Vopc(rel, typ, a, b) == [Plain EXCEPT !.fmt = "VOPC", !.op = "V_CMP", !.rel = rel, !.typ = typ,
                                      !.src0 = a, !.src1 = b]
Vop3(op, typ, dst, a, b, c) ==
    [Plain EXCEPT !.fmt = "VOP3a", !.op = op, !.typ = typ, !.dst = dst, !.src0 = a, !.src1 = b,
                  !.src2 = c]
Vop3b(op, dst, sdst, a, b, c) ==
    [Plain EXCEPT !.fmt = "VOP3b", !.op = op, !.dst = dst, !.sdst = sdst, !.src0 = a, !.src1 = b,
                  !.src2 = c]
Load(op, dst, addr)  == [Plain EXCEPT !.fmt = "FLAT", !.op = op, !.dst = dst, !.addr = addr,
                                      !.data = V(0)]
FlatOut(op, addr, data) == [Plain EXCEPT !.fmt = "FLAT", !.op = op, !.addr = addr, !.data = data,
                                         !.dst = V(0)]
Smem(op, data, base, offset) == [Plain EXCEPT !.fmt = "SMEM", !.op = op, !.data = data,
                                              !.base = base, !.offset = Imm(offset)]
DsIn(op, dst, addr, off0, off1) ==
    [Plain EXCEPT !.fmt = "DS", !.op = op, !.dst = dst, !.addr = addr, !.off0 = off0, !.off1 = off1]
DsOut(op, addr, data, data1, off0, off1) ==
    [Plain EXCEPT !.fmt = "DS", !.op = op, !.addr = addr, !.data = data, !.data1 = data1,
                  !.off0 = off0, !.off1 = off1]
Wait == Sopp("S_WAITCNT", 0)
End  == Sopp("S_ENDPGM", 0)
=============================================================================
