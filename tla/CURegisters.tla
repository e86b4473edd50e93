---------------------------- MODULE CURegisters -----------------------------
(***************************************************************************)
(* The registers of a wave of the timing model: the register files of the  *)
(* compute unit (src/timing/cu/registerfile.go), which all waves share,    *)
(* and the scratchpad preparer over them                                   *)
(* (src/timing/cu/scratchpadpreparer.go).                                  *)
(*                                                                         *)
(* wf is the wave, with its special registers and the offsets of its part  *)
(* of the files, together with the files: wf.s is the scalar one and wf.v  *)
(* the vector one of its SIMD, functions from an offset to a word.  The    *)
(* operands are those of EmuRegisters.                                     *)
(***************************************************************************)
EXTENDS Words

CONSTANT LaneStride         \* ByteSizePerLane, in words

\* a count of 0 means 1; the file multiplies any other count
Count(o) == IF o.count = 0 THEN 1 ELSE o.count

ScalarOffset(wf, o)       == o.n + wf.sOffset

\* mutant: the part of the wave in the file is forgotten
VectorOffsetShared(wf, o, lane) == o.n + lane * LaneStride

VectorOffset(wf, o, lane) == o.n + lane * LaneStride + wf.vOffset

FileRead(file, offset, count) == [k \in 1 .. count |-> file[offset + k - 1]]

FileWrite(file, offset, count, words) ==
    [n \in DOMAIN file |-> IF n \in offset .. offset + count - 1 THEN words[n - offset + 1]
                           ELSE file[n]]

ReadReg(wf, o, lane) ==
    CASE o.kind = "s"   -> FileRead(wf.s, ScalarOffset(wf, o), Count(o))
      [] o.kind = "v"   -> FileRead(wf.v, VectorOffset(wf, o, lane), Count(o))
      [] o.kind = "scc" -> <<wf.scc>>
      [] o.kind = "vcc" \/ (o.kind = "vcclo" /\ o.count = 2) -> WordsOf(wf.vcc)
      [] o.kind = "vcclo" /\ o.count = 1 -> <<Low(wf.vcc)>>
      [] o.kind = "vcchi" /\ o.count = 1 -> <<High(wf.vcc)>>
      [] o.kind = "exec" \/ (o.kind = "execlo" /\ o.count = 2) -> WordsOf(wf.exec)
      [] o.kind = "m0"  -> <<wf.m0>>

WriteReg(wf, o, lane, words) ==
    CASE o.kind = "s" -> [wf EXCEPT !.s = FileWrite(@, ScalarOffset(wf, o), Count(o), words)]
      [] o.kind = "v" ->
            [wf EXCEPT !.v = FileWrite(@, VectorOffset(wf, o, lane), Count(o), words)]
      [] o.kind = "scc" -> [wf EXCEPT !.scc = words[1]]
      [] o.kind = "vcc" \/ (o.kind = "vcclo" /\ o.count = 2) -> [wf EXCEPT !.vcc = PairOf(words)]
      [] o.kind = "vcclo" /\ o.count = 1 -> [wf EXCEPT !.vcc = BitOr(Low(@), words[1])]
      [] o.kind = "vcchi" /\ o.count = 1 ->
            [wf EXCEPT !.vcc = BitOr(2^Word * High(@), 2^Word * words[1])]
      [] o.kind = "exec" \/ (o.kind = "execlo" /\ o.count = 2) -> [wf EXCEPT !.exec = PairOf(words)]
      [] o.kind = "m0"  -> [wf EXCEPT !.m0 = words[1]]

-----------------------------------------------------------------------------
\* the bytes of a slot of the scratchpad, as size words
Slot(words, size) == [k \in 1 .. size |-> IF k <= Len(words) THEN words[k] ELSE 0]

ReadOperand(wf, o, lane, size) ==
    CASE o.kind = "int" -> Slot(WordsOf(U64(o.val)), size)
      [] o.kind \in {"float", "literal"} -> Slot(<<o.val>>, size)
      [] OTHER -> Slot(ReadReg(wf, o, lane), size)

ReadPair(wf, o, lane)  == PairOf(ReadOperand(wf, o, lane, 2))
ReadLanes(wf, o)       == [i \in Lanes |-> ReadPair(wf, o, i)]
ReadData(wf, o)        == [i \in Lanes |-> ReadOperand(wf, o, i, 4)]
Present(o) == o.kind # "none"

WriteOperand(wf, o, lane, words) == WriteReg(wf, o, lane, words)

\* writes the slots of the lanes a mask names, from the highest lane to the lowest
WriteLanes(wf, o, exec, words) ==
    LET written[lane \in 0 .. Pair] ==
            IF lane = Pair THEN wf
            ELSE IF lane \in Active(exec)
                 THEN WriteOperand(written[lane + 1], o, lane, words[lane])
                 ELSE written[lane + 1]
    IN  written[0]

-----------------------------------------------------------------------------
\* Prepare: the scratchpad is cleared, then filled from the operands

ZeroLanes == [i \in Lanes |-> 0]
ZeroData  == [i \in Lanes |-> [k \in 1 .. 4 |-> 0]]

ScalarPad == [src0 |-> 0, src1 |-> 0, dst |-> 0, exec |-> 0, vcc |-> 0, scc |-> 0,
              pc |-> 0, imm |-> 0]
VectorPad == [src0 |-> ZeroLanes, src1 |-> ZeroLanes, src2 |-> ZeroLanes,
              dst |-> ZeroLanes, sdst |-> 0, exec |-> 0, vcc |-> 0, lit |-> 0]
MemoryPad == [exec |-> 0, addr |-> ZeroLanes, data |-> ZeroData, data1 |-> ZeroData,
              out |-> ZeroData, base |-> 0, offset |-> 0, words |-> [k \in 1 .. 8 |-> 0]]

\* the program counter of the scratchpad stays 0 here
PrepareSOP1(wf, inst) ==
    [ScalarPad EXCEPT !.src0 = ReadPair(wf, inst.src0, 0), !.scc = wf.scc, !.exec = wf.exec]

PrepareSOP2(wf, inst) ==
    [ScalarPad EXCEPT !.src0 = ReadPair(wf, inst.src0, 0),
                      !.src1 = ReadPair(wf, inst.src1, 0), !.scc = wf.scc]

PrepareVOP1(wf, inst) ==
    [VectorPad EXCEPT !.exec = wf.exec, !.vcc = wf.vcc, !.src0 = ReadLanes(wf, inst.src0)]

\* the third operand of VOP2 is the literal of V_MADAK
PrepareVOP2(wf, inst) ==
    [VectorPad EXCEPT !.exec = wf.exec, !.vcc = wf.vcc,
                      !.lit = IF Present(inst.src2) THEN ReadPair(wf, inst.src2, 0) ELSE 0,
                      !.dst = ReadLanes(wf, inst.dst),
                      !.src0 = ReadLanes(wf, inst.src0), !.src1 = ReadLanes(wf, inst.src1)]

\* VOP3a and VOP3b
PrepareVOP3(wf, inst) ==
    [VectorPad EXCEPT !.exec = wf.exec, !.vcc = wf.vcc,
                      !.src0 = ReadLanes(wf, inst.src0), !.src1 = ReadLanes(wf, inst.src1),
                      !.src2 = IF Present(inst.src2) THEN ReadLanes(wf, inst.src2) ELSE @]

PrepareVOPC(wf, inst) ==
    [VectorPad EXCEPT !.src0 = ReadLanes(wf, inst.src0), !.src1 = ReadLanes(wf, inst.src1),
                      !.exec = wf.exec]

PrepareFlat(wf, inst) ==
    [MemoryPad EXCEPT !.exec = wf.exec, !.addr = ReadLanes(wf, inst.addr),
                      !.data = ReadData(wf, inst.data)]

PrepareSMEM(wf, inst) ==
    [MemoryPad EXCEPT !.offset = ReadPair(wf, inst.offset, 0), !.base = ReadPair(wf, inst.base, 0)]

PrepareSOPP(wf, inst) ==
    [ScalarPad EXCEPT !.pc = wf.pc, !.scc = wf.scc, !.exec = wf.exec, !.vcc = wf.vcc,
                      !.imm = ReadPair(wf, inst.imm, 0)]

PrepareSOPK(wf, inst) ==
    [ScalarPad EXCEPT !.scc = wf.scc, !.dst = ReadPair(wf, inst.dst, 0),
                      !.imm = ReadPair(wf, inst.imm, 0)]

PrepareSOPC(wf, inst) ==
    [ScalarPad EXCEPT !.src0 = ReadPair(wf, inst.src0, 0), !.src1 = ReadPair(wf, inst.src1, 0)]

\* an address in the LDS is one word
PrepareDS(wf, inst) ==
    [MemoryPad EXCEPT !.exec = wf.exec,
                      !.addr = [i \in Lanes |-> ReadOperand(wf, inst.addr, i, 1)[1]],
                      !.data = IF Present(inst.data) THEN ReadData(wf, inst.data) ELSE @,
                      !.data1 = IF Present(inst.data1) THEN ReadData(wf, inst.data1) ELSE @]

Prepare(wf, inst) ==
    CASE inst.fmt = "SOP1"  -> PrepareSOP1(wf, inst)
      [] inst.fmt = "SOP2"  -> PrepareSOP2(wf, inst)
      [] inst.fmt = "SOPC"  -> PrepareSOPC(wf, inst)
      [] inst.fmt = "SOPK"  -> PrepareSOPK(wf, inst)
      [] inst.fmt = "SOPP"  -> PrepareSOPP(wf, inst)
      [] inst.fmt = "SMEM"  -> PrepareSMEM(wf, inst)
      [] inst.fmt = "VOP1"  -> PrepareVOP1(wf, inst)
      [] inst.fmt = "VOP2"  -> PrepareVOP2(wf, inst)
      [] inst.fmt = "VOPC"  -> PrepareVOPC(wf, inst)
      [] inst.fmt \in {"VOP3a", "VOP3b"} -> PrepareVOP3(wf, inst)
      [] inst.fmt = "FLAT"  -> PrepareFlat(wf, inst)
      [] inst.fmt = "DS"    -> PrepareDS(wf, inst)

-----------------------------------------------------------------------------
\* Commit: the results go back to the registers, in the order of the code

\* EXEC is written last, so an instruction whose destination is EXEC loses it
CommitSOP1(wf, inst, s) ==
    [WriteOperand(wf, inst.dst, 0, WordsOf(s.dst)) EXCEPT !.exec = s.exec, !.scc = s.scc]

CommitSOP2(wf, inst, s) ==
    [WriteOperand(wf, inst.dst, 0, WordsOf(s.dst)) EXCEPT !.scc = s.scc]

\* VOP1, VOP2 and VOP3a that do not compare
CommitVector(wf, inst, s) ==
    WriteLanes([wf EXCEPT !.vcc = s.vcc], inst.dst, s.exec, [i \in Lanes |-> WordsOf(s.dst[i])])

CommitVOP3aCmp(wf, inst, s) == WriteOperand(wf, inst.dst, 0, WordsOf(s.dst[0]))

CommitVOP3b(wf, inst, s) ==
    WriteOperand(CommitVector(wf, inst, s), inst.sdst, 0, WordsOf(s.sdst))

CommitVOPC(wf, s) == [wf EXCEPT !.vcc = s.vcc, !.exec = s.exec]

IsStore(inst) == inst.op \in {"FLAT_STORE_DWORD", "FLAT_STORE_DWORDX2",
                              "FLAT_STORE_DWORDX3", "FLAT_STORE_DWORDX4"}

CommitFlat(wf, inst, s) ==
    IF IsStore(inst) THEN wf ELSE WriteLanes(wf, inst.dst, s.exec, s.out)

CommitSMEM(wf, inst, s) == WriteOperand(wf, inst.data, 0, s.words)

CommitSOPC(wf, s) == [wf EXCEPT !.scc = s.scc]

CommitSOPP(wf, s) == [wf EXCEPT !.pc = s.pc]

\* mutant: SCC is not written back
CommitSOPKOnly(wf, inst, s) == WriteOperand(wf, inst.dst, 0, WordsOf(s.dst))

CommitSOPK(wf, inst, s) ==
    [WriteOperand(wf, inst.dst, 0, WordsOf(s.dst)) EXCEPT !.scc = s.scc]

CommitDS(wf, inst, s) ==
    IF Present(inst.dst) THEN WriteLanes(wf, inst.dst, s.exec, s.out) ELSE wf

Commit(wf, inst, s) ==
    CASE inst.fmt = "SOP1" -> CommitSOP1(wf, inst, s)
      [] inst.fmt = "SOP2" -> CommitSOP2(wf, inst, s)
      [] inst.fmt = "SOPC" -> CommitSOPC(wf, s)
      [] inst.fmt = "SOPK" -> CommitSOPK(wf, inst, s)
      [] inst.fmt = "SOPP" -> CommitSOPP(wf, s)
      [] inst.fmt = "SMEM" -> CommitSMEM(wf, inst, s)
      [] inst.fmt = "VOPC" -> CommitVOPC(wf, s)
      [] inst.fmt = "VOP3a" /\ inst.op = "V_CMP" -> CommitVOP3aCmp(wf, inst, s)
      [] inst.fmt = "VOP3a" /\ inst.op # "V_CMP" -> CommitVector(wf, inst, s)
      [] inst.fmt \in {"VOP1", "VOP2"} -> CommitVector(wf, inst, s)
      [] inst.fmt = "VOP3b" -> CommitVOP3b(wf, inst, s)
      [] inst.fmt = "FLAT" -> CommitFlat(wf, inst, s)
      [] inst.fmt = "DS"   -> CommitDS(wf, inst, s)
=============================================================================
