--------------------------- MODULE EmulationProofs ---------------------------
(***************************************************************************)
(* Theorems about the functional emulation, for every width of a word,     *)
(* number of lanes and size of the register files, every program and every *)
(* trace:                                                                  *)
(*   - the scratchpad preparer of the emulator and that of the timing      *)
(*     model leave the same registers after every instruction (the first   *)
(*     part: src/emu/scratchpadpreparer.go and                             *)
(*     src/timing/cu/scratchpadpreparer.go),                               *)
(*   - the four counters of basic blocks cut a trace alike, and what they  *)
(*     find the static analysis of the code knows (the second part:        *)
(*     src/samples/sampledrunner/branchtracer.go,                          *)
(*     src/profiler/branch_feature.go, src/profiler/wf_feature.go,         *)
(*     src/emu/sampledcomputeunit.go, src/emu/static_feature.go),          *)
(*   - pairs of instructions that add or subtract numbers of two words     *)
(*     leave the wide result and its carry, apart from the cases the       *)
(*     property names (the third part: src/emu/aluvop2.go,                 *)
(*     src/emu/aluvop3b.go, src/emu/alusop2.go).                           *)
(***************************************************************************)
EXTENDS Arithmetic, BasicBlocks, FiniteSetTheorems, WellFoundedInduction, TLAPS

-----------------------------------------------------------------------------
\* Natural numbers

\* a set of numbers that is not empty has a least one
LEMMA SmallestNat ==
  ASSUME NEW S \in SUBSET Nat, S # {}
  PROVE  \E n \in S : \A m \in S : n <= m
<1> DEFINE R == {ss \in Nat \X Nat : ss[1] < ss[2]}
<1>1. IsWellFoundedOn(R, Nat)
  BY NatLessThanWellFounded DEF OpToRel
<1>2. \E x \in S : \A y \in S : ~ (<<y, x>> \in R)
  <2> HIDE DEF R
  <2> QED BY <1>1, WFMin
<1>3. PICK x \in S : \A y \in S : ~ (<<y, x>> \in R)
  BY <1>2
<1>4. \A y, z \in Nat : y < z => <<y, z>> \in R
  OBVIOUS
<1>5. \A y \in S : x \in Nat /\ y \in Nat /\ ~ (y < x)
  BY <1>3, <1>4
<1> QED  BY <1>5

\* induction over a set, which the provers can instantiate
LEMMA Induction ==
  ASSUME NEW X, 0 \in X, \A n \in Nat : n \in X => n + 1 \in X
  PROVE  Nat \subseteq X
<1> SUFFICES ASSUME Nat \ X # {} PROVE FALSE
  OBVIOUS
<1>1. PICK n \in Nat \ X : \A m \in Nat \ X : n <= m
  BY SmallestNat
<1>2. n # 0 /\ n - 1 \in Nat /\ (n - 1) + 1 = n /\ ~ (n <= n - 1)
  BY <1>1
<1> QED BY <1>1, <1>2

-----------------------------------------------------------------------------
\* Part 1: the registers.  A wave of the emulator, with a file for every lane, and
\* one of the timing model, with a part of a file of its own, agree on them.

EmuShape(e) ==
    /\ e = [pc |-> e.pc, m0 |-> e.m0, exec |-> e.exec, vcc |-> e.vcc, scc |-> e.scc,
            sreg |-> e.sreg, vreg |-> e.vreg]
    /\ e.sreg = [n \in SRegs |-> e.sreg[n]]
    /\ e.vreg = [i \in Lanes |-> e.vreg[i]]
    /\ \A i \in Lanes : e.vreg[i] = [n \in VRegs |-> e.vreg[i][n]]

Size == Cardinality(VRegs)
VFile == 0 .. Cardinality(Lanes) * Size - 1

CUShape(c) ==
    /\ c = [pc |-> c.pc, m0 |-> c.m0, exec |-> c.exec, vcc |-> c.vcc, scc |-> c.scc,
            sOffset |-> 0, vOffset |-> 0, s |-> c.s, v |-> c.v]
    /\ c.s = [n \in SRegs |-> c.s[n]]
    /\ c.v = [n \in VFile |-> c.v[n]]

Same(e, c) ==
    /\ e.pc = c.pc /\ e.m0 = c.m0 /\ e.exec = c.exec /\ e.vcc = c.vcc /\ e.scc = c.scc
    /\ e.sreg = c.s
    /\ \A i \in Lanes, n \in VRegs : e.vreg[i][n] = c.v[i * Size + n]

Agree(e, c) == EmuShape(e) /\ CUShape(c) /\ Same(e, c)

\* both preparers count an operand without a count as one register
LEMMA Counts ==
  ASSUME NEW o, o.count \in Nat
  PROVE  /\ E!Count(o) = T!Count(o) /\ T!Count(o) \in Nat \ {0}
  BY DEF E!Count, T!Count

LEMMA SizeType == Size \in Nat /\ Cardinality(Lanes) \in Nat /\ VRegs = 0 .. Size - 1
  <1>1. IsFiniteSet(VRegs) /\ VRegs = 0 .. Cardinality(VRegs) - 1
        BY FilesAssumption
  <1>2. Size \in Nat  BY <1>1, FS_CardinalityType DEF Size
  <1>3. IsFiniteSet(Lanes)
        <2>1. Pair \in Int /\ 0 \in Int
              BY WidthAssumption DEF Pair
        <2>2. Lanes \subseteq 0 .. Pair - 1
              BY LanesAssumption DEF Pair
        <2>3. IsFiniteSet(0 .. Pair - 1)
              BY <2>1, FS_Interval
        <2>. QED BY <2>2, <2>3, FS_Subset
  <1>. QED BY <1>1, <1>2, <1>3, FS_CardinalityType DEF Size

LEMMA LaneType == ASSUME NEW i \in Lanes PROVE i \in Nat
  BY FilesAssumption, SizeType

\* Reading: ReadOperand of the emulator and of the timing model.
LEMMA ScalarRead ==
  ASSUME NEW e, NEW c, Agree(e, c), NEW o, IsScalar(o), NEW i
  PROVE  E!ReadReg(e, o, i) = T!ReadReg(c, o, i)
  <1>1. c.sOffset = 0  BY DEF Agree, CUShape
  <1>2. e.sreg = c.s BY DEF Agree, Same
  <1>3. o.kind = "s" /\ o.n \in Nat /\ o.count \in Nat BY DEF IsScalar, InFile
  <1>4. E!Count(o) = T!Count(o) /\ T!Count(o) \in Nat \ {0} BY <1>3, Counts
  <1>5. E!ReadReg(e, o, i) = [k \in 1 .. E!Count(o) |-> e.sreg[o.n + k - 1]]
        BY <1>3 DEF E!ReadReg
  <1>6. T!ReadReg(c, o, i) = [k \in 1 .. T!Count(o) |-> c.s[o.n + 0 + k - 1]]
        BY <1>3, <1>1 DEF T!ReadReg, T!FileRead, T!ScalarOffset
  <1>7. \A k \in 1 .. T!Count(o) : o.n + k - 1 = o.n + 0 + k - 1
        BY <1>3
  <1>. QED BY <1>2, <1>4, <1>5, <1>6, <1>7


LEMMA VectorRead ==
  ASSUME NEW e, NEW c, Agree(e, c), NEW o, IsVector(o), NEW i \in Lanes
  PROVE  E!ReadReg(e, o, i) = T!ReadReg(c, o, i)
  <1>1. c.vOffset = 0  BY DEF Agree, CUShape
  <1>2. \A n \in VRegs : e.vreg[i][n] = c.v[i * Size + n] BY DEF Agree, Same
  <1>3. o.kind = "v" /\ o.n \in Nat /\ o.count \in Nat /\ E!Span(o) \subseteq VRegs
        BY DEF IsVector, InFile
  <1>4. E!Count(o) = T!Count(o) /\ T!Count(o) \in Nat \ {0} BY <1>3, Counts
  <1>5. E!ReadReg(e, o, i) = [k \in 1 .. E!Count(o) |-> e.vreg[i][o.n + k - 1]]
        BY <1>3 DEF E!ReadReg
  <1>6. T!ReadReg(c, o, i) = [k \in 1 .. T!Count(o) |-> c.v[o.n + i * Size + 0 + k - 1]]
        BY <1>3, <1>1 DEF T!ReadReg, T!FileRead, T!VectorOffset, Size
  <1>7. ASSUME NEW k \in 1 .. T!Count(o)
        PROVE  e.vreg[i][o.n + k - 1] = c.v[o.n + i * Size + 0 + k - 1]
        <2>1. o.n + k - 1 \in VRegs  BY <1>3, <1>4 DEF E!Span
        <2>2. i * Size \in Int  BY SizeType, LaneType
        <2>3. i * Size + (o.n + k - 1) = o.n + i * Size + 0 + k - 1  BY <2>2, <1>3
        <2>. QED BY <1>2, <2>1, <2>3
  <1>. QED BY <1>4, <1>5, <1>6, <1>7

\* what an operand reads, wherever it is
LEMMA SourceRead ==
  ASSUME NEW e, NEW c, Agree(e, c), NEW o, IsSource(o), NEW i \in Lanes, NEW size
  PROVE  E!ReadOperand(e, o, i, size) = T!ReadOperand(c, o, i, size)
  <1>1. CASE o.kind = "int"
        BY <1>1 DEF E!ReadOperand, T!ReadOperand, E!Slot, T!Slot, E!WordsOf, T!WordsOf, E!U64, T!U64,
                E!Low, T!Low, E!High, T!High, E!U32, T!U32, E!Word, T!Word, E!Pair, T!Pair
  <1>2. CASE o.kind \in {"float", "literal"}
        BY <1>2 DEF E!ReadOperand, T!ReadOperand, E!Slot, T!Slot
  <1>3. ASSUME IsRegister(o) PROVE E!ReadReg(e, o, i) = T!ReadReg(c, o, i)
        <2>1. CASE IsVector(o)  BY <2>1, VectorRead
        <2>2. CASE IsScalar(o)  BY <2>2, ScalarRead
        <2>3. CASE \/ o.kind \in {"scc", "vcc", "exec", "m0"}
                   \/ o.kind = "vcclo" /\ o.count \in {1, 2}
                   \/ o.kind = "vcchi" /\ o.count = 1
                   \/ o.kind = "execlo" /\ o.count = 2
              <3>1. e.m0 = c.m0 /\ e.exec = c.exec /\ e.vcc = c.vcc /\ e.scc = c.scc
                    BY DEF Agree, Same
              <3>. QED BY <2>3, <3>1 DEF E!ReadReg, T!ReadReg, E!WordsOf, T!WordsOf,
                E!Low, T!Low, E!High, T!High, E!U32, T!U32, E!Word, T!Word
        <2>. QED BY <1>3, <2>1, <2>2, <2>3 DEF IsRegister
  <1>4. CASE IsRegister(o)
        <2>1. o.kind \notin {"int", "float", "literal"}
              BY <1>4 DEF IsRegister, IsVector, IsScalar
        <2>. QED BY <2>1, <1>3, <1>4 DEF E!ReadOperand, T!ReadOperand, E!Slot, T!Slot
  <1>. QED BY <1>1, <1>2, <1>4 DEF IsSource

LEMMA PairRead ==
  ASSUME NEW e, NEW c, Agree(e, c), NEW o, IsSource(o), NEW i \in Lanes
  PROVE  E!ReadPair(e, o, i) = T!ReadPair(c, o, i)
  <1>1. E!ReadOperand(e, o, i, 2) = T!ReadOperand(c, o, i, 2)  BY SourceRead
  <1>. QED BY <1>1 DEF E!ReadPair, T!ReadPair, E!PairOf, T!PairOf, E!Word, T!Word

LEMMA LanesRead ==
  ASSUME NEW e, NEW c, Agree(e, c), NEW o, IsSource(o)
  PROVE  E!ReadLanes(e, o) = T!ReadLanes(c, o)
  <1>1. \A i \in Lanes : E!ReadPair(e, o, i) = T!ReadPair(c, o, i)  BY PairRead
  <1>. QED BY <1>1 DEF E!ReadLanes, T!ReadLanes

LEMMA DataRead ==
  ASSUME NEW e, NEW c, Agree(e, c), NEW o, IsSource(o)
  PROVE  E!ReadData(e, o) = T!ReadData(c, o)
  <1>1. \A i \in Lanes : E!ReadOperand(e, o, i, 4) = T!ReadOperand(c, o, i, 4)  BY SourceRead
  <1>. QED BY <1>1 DEF E!ReadData, T!ReadData


LEMMA Multiples ==
  ASSUME NEW a \in Nat, NEW b \in Nat, NEW s \in Nat, a < b
  PROVE  a * s + s <= b * s
  <1>1. a + 1 <= b  OBVIOUS
  <1>2. (a + 1) * s <= b * s  BY <1>1
  <1>3. (a + 1) * s = a * s + s  OBVIOUS
  <1>. QED BY <1>2, <1>3

\* the places of two registers in the file differ
LEMMA PlaceApart ==
  ASSUME NEW i \in Lanes, NEW j \in Lanes, NEW n \in VRegs, NEW m \in Int,
         m >= 0, m < Size, i * Size + n = j * Size + m
  PROVE  i = j /\ n = m
  <1>1. i \in Nat /\ j \in Nat /\ Size \in Nat /\ n \in Nat /\ n < Size
        BY LaneType, SizeType
  <1>2. ~(i < j)
        <2>1. ASSUME i < j PROVE FALSE
              <3>1. i * Size + Size <= j * Size  BY <1>1, <2>1, Multiples
              <3>2. i * Size \in Int /\ j * Size \in Int  BY <1>1
              <3>. QED BY <3>1, <3>2, <1>1
        <2>. QED BY <2>1
  <1>3. ~(j < i)
        <2>1. ASSUME j < i PROVE FALSE
              <3>1. j * Size + Size <= i * Size  BY <1>1, <2>1, Multiples
              <3>2. i * Size \in Int /\ j * Size \in Int  BY <1>1
              <3>. QED BY <3>1, <3>2, <1>1
        <2>. QED BY <2>1
  <1>4. i = j  BY <1>1, <1>2, <1>3
  <1>5. i * Size \in Int  BY <1>1
  <1>. QED BY <1>1, <1>4, <1>5

LEMMA PlaceInFile ==
  ASSUME NEW i \in Lanes, NEW n \in VRegs
  PROVE  i * Size + n \in VFile
  <1>. DEFINE L == Cardinality(Lanes)
  <1>1. i \in Nat /\ L \in Nat /\ i < L /\ Size \in Nat /\ n \in Nat /\ n < Size
        BY LaneType, SizeType, FilesAssumption
  <1>2. i * Size + Size <= L * Size  BY <1>1, Multiples
  <1>3. i * Size \in Nat /\ L * Size \in Nat  BY <1>1
  <1>. HIDE DEF L
  <1>4. i * Size + n \in 0 .. L * Size - 1  BY <1>1, <1>2, <1>3
  <1>. QED BY <1>4 DEF VFile, L

\* Writing: WriteOperand and the register files.
LEMMA ScalarWrite ==
  ASSUME NEW e, NEW c, Agree(e, c), NEW o, IsScalar(o), NEW i, NEW words
  PROVE  Agree(E!WriteReg(e, o, i, words), T!WriteReg(c, o, i, words))
  <1>1. c.sOffset = 0 /\ EmuShape(e) /\ CUShape(c) /\ Same(e, c) BY DEF Agree, CUShape
  <1>2. o.kind = "s" /\ o.n \in Nat /\ o.count \in Nat BY DEF IsScalar, InFile
  <1>3. E!Count(o) = T!Count(o) /\ T!Count(o) \in Nat \ {0} BY <1>2, Counts
  <1>. DEFINE new == [n \in SRegs |-> IF n \in E!Span(o) THEN words[n - o.n + 1] ELSE e.sreg[n]]
  <1>4. DOMAIN e.sreg = SRegs /\ DOMAIN c.s = SRegs /\ e.sreg = c.s
        BY <1>1 DEF EmuShape, CUShape, Same
  <1>5. E!WriteReg(e, o, i, words) = [e EXCEPT !.sreg = new]
        BY <1>2, <1>4 DEF E!WriteReg
  <1>6. T!FileWrite(c.s, T!ScalarOffset(c, o), T!Count(o), words) = new
        <2>1. T!ScalarOffset(c, o) = o.n  BY <1>1, <1>2 DEF T!ScalarOffset
        <2>2. E!Span(o) = o.n .. o.n + T!Count(o) - 1  BY <1>3 DEF E!Span
        <2>. QED BY <1>4, <2>1, <2>2 DEF T!FileWrite
  <1>7. T!WriteReg(c, o, i, words) = [c EXCEPT !.s = new]
        BY <1>2, <1>6 DEF T!WriteReg
  <1>8. new = [n \in SRegs |-> new[n]]  OBVIOUS
  <1>. HIDE DEF new
  <1>9. EmuShape([e EXCEPT !.sreg = new])
        BY <1>1, <1>8 DEF EmuShape
  <1>10. CUShape([c EXCEPT !.s = new])
        BY <1>1, <1>8 DEF CUShape
  <1>11. Same([e EXCEPT !.sreg = new], [c EXCEPT !.s = new])
        BY <1>1 DEF Same, EmuShape, CUShape
  <1>. QED BY <1>5, <1>7, <1>9, <1>10, <1>11 DEF Agree

LEMMA VectorWrite ==
  ASSUME NEW e, NEW c, Agree(e, c), NEW o, IsVector(o), NEW i \in Lanes, NEW words
  PROVE  Agree(E!WriteReg(e, o, i, words), T!WriteReg(c, o, i, words))
  <1>1. c.vOffset = 0 /\ EmuShape(e) /\ CUShape(c) /\ Same(e, c) BY DEF Agree, CUShape
  <1>2. o.kind = "v" /\ o.n \in Nat /\ o.count \in Nat /\ E!Span(o) \subseteq VRegs
        BY DEF IsVector, InFile
  <1>3. E!Count(o) = T!Count(o) /\ T!Count(o) \in Nat \ {0} BY <1>2, Counts
  <1>4. i \in Nat /\ Size \in Nat /\ i * Size \in Nat  BY LaneType, SizeType
  <1>. DEFINE row == [n \in VRegs |-> IF n \in E!Span(o) THEN words[n - o.n + 1] ELSE e.vreg[i][n]]
              rows == [j \in Lanes |-> IF j = i THEN row ELSE e.vreg[j]]
              first == o.n + i * Size
              file == [n \in VFile |-> IF n \in first .. first + T!Count(o) - 1
                                       THEN words[n - first + 1] ELSE c.v[n]]
  <1>5. /\ e.vreg = [j \in Lanes |-> e.vreg[j]] /\ DOMAIN c.v = VFile
        /\ \A j \in Lanes : e.vreg[j] = [n \in VRegs |-> e.vreg[j][n]]
        BY <1>1 DEF EmuShape, CUShape
  <1>6. E!WriteReg(e, o, i, words) = [e EXCEPT !.vreg = rows]
        <2>1. E!WriteReg(e, o, i, words) = [e EXCEPT !.vreg[i] = [n \in DOMAIN @ |->
                IF n \in E!Span(o) THEN words[n - o.n + 1] ELSE @[n]]]
              BY <1>2 DEF E!WriteReg
        <2>2. DOMAIN e.vreg[i] = VRegs  BY <1>5
        <2>3. [e.vreg EXCEPT ![i] = row] = rows  BY <1>5
        <2>4. E!WriteReg(e, o, i, words) = [e EXCEPT !.vreg = [e.vreg EXCEPT ![i] = row]]
              BY <2>1, <2>2, <1>1 DEF EmuShape
        <2>. QED BY <2>3, <2>4
  <1>7. T!WriteReg(c, o, i, words) = [c EXCEPT !.v = file]
        <2>1. T!VectorOffset(c, o, i) = first  BY <1>1, <1>2, <1>4 DEF T!VectorOffset, Size
        <2>2. T!FileWrite(c.v, first, T!Count(o), words) = file  BY <1>5 DEF T!FileWrite
        <2>. QED BY <1>2, <2>1, <2>2 DEF T!WriteReg
  <1>8. /\ rows = [j \in Lanes |-> rows[j]]
        /\ \A j \in Lanes : rows[j] = [n \in VRegs |-> rows[j][n]]
        /\ file = [n \in VFile |-> file[n]]
        BY <1>5
  <1>9. ASSUME NEW j \in Lanes, NEW n \in VRegs, NEW p \in VFile, p = j * Size + n
        PROVE  rows[j][n] = file[p]
        <2>1. n \in Int /\ n >= 0 /\ n < Size /\ j * Size \in Int  BY SizeType, LaneType
        <2>2. e.vreg[j][n] = c.v[p]
              <3>1. e.vreg[j][n] = c.v[j * Size + n]  BY <1>1 DEF Same
              <3>. QED BY <3>1, <1>9
        <2>3. p \in Int  BY <1>9, <2>1
        <2>4. CASE j = i /\ n \in E!Span(o)
              <3>1. n \in o.n .. o.n + T!Count(o) - 1  BY <2>4, <1>3 DEF E!Span
              <3>2. p \in first .. first + T!Count(o) - 1
                    BY <2>4, <3>1, <1>2, <1>3, <1>4, <1>9, <2>1
              <3>3. n - o.n + 1 = p - first + 1
                    BY <2>4, <1>2, <1>4, <1>9, <2>1
              <3>4. rows[j][n] = words[n - o.n + 1]  BY <2>4
              <3>5. file[p] = words[p - first + 1]  BY <3>2
              <3>. HIDE DEF rows, file, first
              <3>. QED BY <3>3, <3>4, <3>5
        <2>5. CASE ~(j = i /\ n \in E!Span(o))
              <3>1. p \notin first .. first + T!Count(o) - 1
                    <4>1. ASSUME p \in first .. first + T!Count(o) - 1 PROVE FALSE
                          <5>. DEFINE m == p - i * Size
                          <5>1. m \in Int /\ m >= o.n /\ m <= o.n + T!Count(o) - 1
                                BY <4>1, <1>2, <1>3, <1>4, <2>3
                          <5>2. m \in E!Span(o)  BY <5>1, <1>2, <1>3 DEF E!Span
                          <5>3. m \in 0 .. Size - 1  BY <5>2, <1>2, SizeType
                          <5>4. m >= 0 /\ m < Size /\ j * Size + n = i * Size + m
                                BY <5>1, <5>3, <1>4, <1>9, <2>1
                          <5>. HIDE DEF m
                          <5>5. j = i /\ n = m  BY <5>1, <5>4, PlaceApart
                          <5>. QED BY <5>2, <5>5, <2>5
                    <4>. QED BY <4>1
              <3>2. file[p] = c.v[p]  BY <3>1
              <3>3. rows[j][n] = e.vreg[j][n]  BY <2>5
              <3>. HIDE DEF rows, file
              <3>. QED BY <3>2, <3>3, <2>2
        <2>. QED BY <2>4, <2>5
  <1>. HIDE DEF rows, file
  <1>10. EmuShape([e EXCEPT !.vreg = rows])
        BY <1>1, <1>8 DEF EmuShape
  <1>11. CUShape([c EXCEPT !.v = file])
        BY <1>1, <1>8 DEF CUShape
  <1>12. \A j \in Lanes, n \in VRegs : rows[j][n] = file[j * Size + n]
        BY <1>9, PlaceInFile
  <1>13. Same([e EXCEPT !.vreg = rows], [c EXCEPT !.v = file])
        BY <1>1, <1>12 DEF Same, EmuShape, CUShape
  <1>. QED BY <1>6, <1>7, <1>10, <1>11, <1>13 DEF Agree

\* the special registers of a wave, set one at a time
PutPC(r, x)   == [r EXCEPT !.pc = x]
PutM0(r, x)   == [r EXCEPT !.m0 = x]
PutSCC(r, x)  == [r EXCEPT !.scc = x]
PutVCC(r, x)  == [r EXCEPT !.vcc = x]
PutExec(r, x) == [r EXCEPT !.exec = x]

LEMMA SetSpecial ==
  ASSUME NEW e, NEW c, Agree(e, c), NEW x
  PROVE  /\ Agree(PutPC(e, x), PutPC(c, x))
         /\ Agree(PutM0(e, x), PutM0(c, x))
         /\ Agree(PutSCC(e, x), PutSCC(c, x))
         /\ Agree(PutVCC(e, x), PutVCC(c, x))
         /\ Agree(PutExec(e, x), PutExec(c, x))
  <1>1. EmuShape(e) /\ CUShape(c) /\ Same(e, c)  BY DEF Agree
  <1>2. Agree(PutPC(e, x), PutPC(c, x))
        BY <1>1 DEF PutPC, Agree, EmuShape, CUShape, Same
  <1>3. Agree(PutM0(e, x), PutM0(c, x))
        BY <1>1 DEF PutM0, Agree, EmuShape, CUShape, Same
  <1>4. Agree(PutSCC(e, x), PutSCC(c, x))
        BY <1>1 DEF PutSCC, Agree, EmuShape, CUShape, Same
  <1>5. Agree(PutVCC(e, x), PutVCC(c, x))
        BY <1>1 DEF PutVCC, Agree, EmuShape, CUShape, Same
  <1>6. Agree(PutExec(e, x), PutExec(c, x))
        BY <1>1 DEF PutExec, Agree, EmuShape, CUShape, Same
  <1>. QED BY <1>2, <1>3, <1>4, <1>5, <1>6

\* One register, whatever it is, is written alike.
LEMMA RegisterWrite ==
  ASSUME NEW e, NEW c, Agree(e, c), NEW o, IsRegister(o), NEW i \in Lanes, NEW words
  PROVE  Agree(E!WriteReg(e, o, i, words), T!WriteReg(c, o, i, words))
  <1>1. CASE IsVector(o)  BY <1>1, VectorWrite
  <1>2. CASE IsScalar(o)  BY <1>2, ScalarWrite
  <1>. DEFINE pair == E!PairOf(words)
              low  == E!BitOr(E!Low(e.vcc), words[1])
              high == E!BitOr(2^E!Word * E!High(e.vcc), 2^E!Word * words[1])
  <1>3. e.vcc = c.vcc  BY DEF Agree, Same
  <1>4. /\ T!PairOf(words) = pair
        /\ T!BitOr(T!Low(c.vcc), words[1]) = low
        /\ T!BitOr(2^T!Word * T!High(c.vcc), 2^T!Word * words[1]) = high
        BY <1>3 DEF E!PairOf, T!PairOf, E!BitOr, T!BitOr, E!Low, T!Low, E!High, T!High,
              E!U32, T!U32, E!Word, T!Word, E!Mask, T!Mask, E!Bit, T!Bit, E!Pair, T!Pair,
              E!MapThenSumSet, T!MapThenSumSet, E!MapThenFoldSet, T!MapThenFoldSet
  <1>. HIDE DEF pair, low, high
  <1>5. CASE o.kind = "scc"
        <2>1. /\ E!WriteReg(e, o, i, words) = PutSCC(e, words[1])
              /\ T!WriteReg(c, o, i, words) = PutSCC(c, words[1])
              BY <1>5 DEF E!WriteReg, T!WriteReg, PutSCC
        <2>. QED BY <2>1, SetSpecial
  <1>6. CASE o.kind = "m0"
        <2>1. /\ E!WriteReg(e, o, i, words) = PutM0(e, words[1])
              /\ T!WriteReg(c, o, i, words) = PutM0(c, words[1])
              BY <1>6 DEF E!WriteReg, T!WriteReg, PutM0
        <2>. QED BY <2>1, SetSpecial
  <1>7. CASE o.kind = "vcc" \/ (o.kind = "vcclo" /\ o.count = 2)
        <2>1. /\ E!WriteReg(e, o, i, words) = PutVCC(e, pair)
              /\ T!WriteReg(c, o, i, words) = PutVCC(c, pair)
              BY <1>4, <1>7 DEF E!WriteReg, T!WriteReg, PutVCC, pair
        <2>. QED BY <2>1, SetSpecial
  <1>8. CASE o.kind = "exec" \/ (o.kind = "execlo" /\ o.count = 2)
        <2>1. /\ E!WriteReg(e, o, i, words) = PutExec(e, pair)
              /\ T!WriteReg(c, o, i, words) = PutExec(c, pair)
              BY <1>4, <1>8 DEF E!WriteReg, T!WriteReg, PutExec, pair
        <2>. QED BY <2>1, SetSpecial
  <1>9. CASE o.kind = "vcclo" /\ o.count = 1
        <2>1. /\ E!WriteReg(e, o, i, words) = PutVCC(e, low)
              /\ T!WriteReg(c, o, i, words) = PutVCC(c, low)
              BY <1>4, <1>9 DEF E!WriteReg, T!WriteReg, PutVCC, low
        <2>. QED BY <2>1, SetSpecial
  <1>10. CASE o.kind = "vcchi" /\ o.count = 1
        <2>1. /\ E!WriteReg(e, o, i, words) = PutVCC(e, high)
              /\ T!WriteReg(c, o, i, words) = PutVCC(c, high)
              BY <1>4, <1>10 DEF E!WriteReg, T!WriteReg, PutVCC, high
        <2>. QED BY <2>1, SetSpecial
  <1>. QED BY <1>1, <1>2, <1>5, <1>6, <1>7, <1>8, <1>9, <1>10 DEF IsRegister

LEMMA ActiveType ==
  ASSUME NEW x
  PROVE  /\ E!Active(x) = T!Active(x) /\ T!Active(x) \subseteq Lanes
         /\ \A i \in Lanes : E!Masked(x, i) <=> i \in T!Active(x)
  BY DEF E!Active, T!Active, E!Masked, T!Masked, E!Bit, T!Bit


\* the wave after the lanes from the highest down to k are written
Written(g, k, c, o, exec, words) ==
    IF k = T!Pair THEN c
    ELSE IF k \in T!Active(exec) THEN T!WriteOperand(g[k + 1], o, k, words[k]) ELSE g[k + 1]

IsWritten(g, n, c, o, exec, words) ==
    /\ g = [k \in 0 .. T!Pair |-> g[k]]
    /\ \A k \in 0 .. T!Pair : k >= n => g[k] = Written(g, k, c, o, exec, words)

LEMMA PairType == T!Pair \in Nat \ {0} /\ T!Pair = Pair /\ Lanes \subseteq 0 .. T!Pair - 1
  <1>1. ByteBits \in Nat \ {0}  BY WidthAssumption
  <1>2. T!Pair = 8 * ByteBits /\ Pair = 8 * ByteBits  BY DEF T!Pair, Pair
  <1>. QED BY <1>1, <1>2, LanesAssumption

\* there is such a function of k
LEMMA WrittenExists ==
  ASSUME NEW c, NEW o, NEW exec, NEW words
  PROVE  \E g : IsWritten(g, 0, c, o, exec, words)
  <1>. DEFINE P == T!Pair
              S == {m \in Nat : m <= P => \E g : IsWritten(g, P - m, c, o, exec, words)}
  <1>1. P \in Nat  BY PairType
  <1>2. 0 \in S
        <2>. DEFINE g == [k \in 0 .. P |-> c]
        <2>1. g = [k \in 0 .. P |-> g[k]]  OBVIOUS
        <2>2. \A k \in 0 .. P : k >= P - 0 => k = P  BY <1>1
        <2>3. \A k \in 0 .. P : k = P => g[k] = Written(g, k, c, o, exec, words)
              BY DEF Written
        <2>. HIDE DEF g
        <2>4. IsWritten(g, P - 0, c, o, exec, words)  BY <2>1, <2>2, <2>3 DEF IsWritten
        <2>. QED BY <2>4
  <1>3. ASSUME NEW m \in Nat, m \in S PROVE m + 1 \in S
        <2>1. SUFFICES ASSUME m + 1 <= P
                       PROVE  \E h : IsWritten(h, P - (m + 1), c, o, exec, words)
              OBVIOUS
        <2>2. PICK g : IsWritten(g, P - m, c, o, exec, words)  BY <1>1, <1>3, <2>1
        <2>. DEFINE n == P - (m + 1)
                    w == Written(g, n, c, o, exec, words)
                    h == [k \in 0 .. P |-> IF k = n THEN w ELSE g[k]]
        <2>3. n \in 0 .. P /\ n # P /\ n + 1 \in 0 .. P /\ n + 1 = P - m /\ n + 1 # n
              BY <1>1, <2>1
        <2>. HIDE DEF n
        <2>4. h = [k \in 0 .. P |-> h[k]]  OBVIOUS
        <2>5. h[n] = w /\ \A k \in 0 .. P : k # n => h[k] = g[k]  BY <2>3
        <2>. HIDE DEF h
        <2>6. ASSUME NEW k \in 0 .. P, k >= n
              PROVE  h[k] = Written(h, k, c, o, exec, words)
              <3>1. CASE k = n
                    <4>1. h[n + 1] = g[n + 1]  BY <2>3, <2>5
                    <4>2. Written(h, n, c, o, exec, words) = w  BY <4>1 DEF Written
                    <4>. QED BY <3>1, <4>2, <2>5
              <3>2. CASE k # n
                    <4>1. k >= P - m  BY <2>3, <2>6, <3>2, <1>1
                    <4>2. g[k] = Written(g, k, c, o, exec, words)
                          BY <4>1, <2>2 DEF IsWritten
                    <4>3. k # P => h[k + 1] = g[k + 1]
                          <5>1. k # P => k + 1 \in 0 .. P /\ k + 1 # n  BY <2>3, <2>6, <1>1
                          <5>. QED BY <5>1, <2>5
                    <4>4. Written(h, k, c, o, exec, words) = Written(g, k, c, o, exec, words)
                          BY <4>3 DEF Written
                    <4>. QED BY <4>2, <4>4, <3>2, <2>5
              <3>. QED BY <3>1, <3>2
        <2>7. IsWritten(h, n, c, o, exec, words)  BY <2>4, <2>6 DEF IsWritten
        <2>. QED BY <2>7 DEF n
  <1>. HIDE DEF S
  <1>4. Nat \subseteq S  BY <1>2, <1>3, Induction
  <1>5. P \in S  BY <1>1, <1>4
  <1>6. \E g : IsWritten(g, P - P, c, o, exec, words)  BY <1>1, <1>5 DEF S
  <1>7. P - P = 0  BY <1>1
  <1>. QED BY <1>6, <1>7

\* WriteLanes is the last of these waves.
LEMMA WriteLanesUnrolled ==
  ASSUME NEW c, NEW o, NEW exec, NEW words
  PROVE  \E g : /\ IsWritten(g, 0, c, o, exec, words)
                /\ T!WriteLanes(c, o, exec, words) = g[0]
  <1>. DEFINE Rec(g) == g = [lane \in 0 .. T!Pair |->
                  IF lane = T!Pair THEN c
                  ELSE IF lane \in T!Active(exec)
                       THEN T!WriteOperand(g[lane + 1], o, lane, words[lane])
                       ELSE g[lane + 1]]
              f == CHOOSE g : Rec(g)
  <1>1. T!WriteLanes(c, o, exec, words) = f[0]
        BY Zenon DEF T!WriteLanes
  <1>2. PICK g : IsWritten(g, 0, c, o, exec, words)  BY WrittenExists
  <1>3. Rec(g)
        <2>1. \A k \in 0 .. T!Pair : k >= 0  OBVIOUS
        <2>2. \A k \in 0 .. T!Pair : g[k] = Written(g, k, c, o, exec, words)
              BY <1>2, <2>1 DEF IsWritten
        <2>3. g = [k \in 0 .. T!Pair |-> g[k]]  BY <1>2 DEF IsWritten
        <2>. QED BY <2>2, <2>3 DEF Written
  <1>4. Rec(f)
        <2>. HIDE DEF Rec
        <2>. QED BY <1>3
  <1>5. IsWritten(f, 0, c, o, exec, words)
        <2>. HIDE DEF f
        <2>1. f = [k \in 0 .. T!Pair |-> f[k]]  BY <1>4
        <2>2. \A k \in 0 .. T!Pair : f[k] = Written(f, k, c, o, exec, words)
              BY <1>4 DEF Written
        <2>. QED BY <2>1, <2>2 DEF IsWritten
  <1>. HIDE DEF f
  <1>. QED BY <1>1, <1>5

PutVectors(r, x) == [r EXCEPT !.vreg = x]

WrittenRow(row, o, words) ==
    [n \in VRegs |-> IF n \in E!Span(o) THEN words[n - o.n + 1] ELSE row[n]]

LEMMA PutVectorsTwice ==
  ASSUME NEW e, EmuShape(e), NEW x, NEW y
  PROVE  /\ PutVectors(e, x).vreg = x
         /\ PutVectors(PutVectors(e, x), y) = PutVectors(e, y)
  BY DEF PutVectors, EmuShape

LEMMA EmuVectorWrite ==
  ASSUME NEW e, EmuShape(e), NEW o, IsVector(o), NEW i \in Lanes, NEW words
  PROVE  E!WriteReg(e, o, i, words)
         = PutVectors(e, [j \in Lanes |-> IF j = i THEN WrittenRow(e.vreg[i], o, words)
                                          ELSE e.vreg[j]])
  <1>. DEFINE row == WrittenRow(e.vreg[i], o, words)
              rows == [j \in Lanes |-> IF j = i THEN row ELSE e.vreg[j]]
  <1>1. /\ e.vreg = [j \in Lanes |-> e.vreg[j]]
        /\ \A j \in Lanes : e.vreg[j] = [n \in VRegs |-> e.vreg[j][n]]
        BY DEF EmuShape
  <1>2. E!WriteReg(e, o, i, words) = [e EXCEPT !.vreg[i] = [n \in DOMAIN @ |->
            IF n \in E!Span(o) THEN words[n - o.n + 1] ELSE @[n]]]
        BY DEF E!WriteReg, IsVector
  <1>3. DOMAIN e.vreg[i] = VRegs  BY <1>1
  <1>4. [e.vreg EXCEPT ![i] = row] = rows  BY <1>1
  <1>5. E!WriteReg(e, o, i, words) = [e EXCEPT !.vreg = [e.vreg EXCEPT ![i] = row]]
        BY <1>2, <1>3 DEF EmuShape, WrittenRow
  <1>. QED BY <1>4, <1>5 DEF PutVectors

\* the vector registers after the lanes from the highest down to k are written
RowsFrom(e, o, exec, words, k) ==
    [i \in Lanes |-> IF i \in T!Active(exec) /\ i >= k THEN WrittenRow(e.vreg[i], o, words[i])
                     ELSE e.vreg[i]]

LEMMA VectorLanes ==
  ASSUME NEW e, NEW c, Agree(e, c), NEW o, IsVector(o), NEW exec, NEW words
  PROVE  Agree(E!WriteLanes(e, o, exec, words), T!WriteLanes(c, o, exec, words))
  <1>. DEFINE P == T!Pair
              Rows(k) == RowsFrom(e, o, exec, words, k)
              EW(k) == PutVectors(e, Rows(k))
              S(g) == {m \in Nat : m <= P => Agree(EW(P - m), g[P - m])}
  <1>0. P \in Nat /\ Lanes \subseteq 0 .. P - 1  BY PairType
  <1>1. EmuShape(e) /\ e.vreg = [i \in Lanes |-> e.vreg[i]]  BY DEF Agree, EmuShape
  <1>2. PICK g : /\ IsWritten(g, 0, c, o, exec, words)
                 /\ T!WriteLanes(c, o, exec, words) = g[0]
        BY WriteLanesUnrolled
  <1>3. \A k \in 0 .. P : g[k] = Written(g, k, c, o, exec, words)
        <2>1. \A k \in 0 .. P : k >= 0  OBVIOUS
        <2>. QED BY <1>2, <2>1 DEF IsWritten
  <1>4. 0 \in S(g)
        <2>1. P \in 0 .. P /\ P - 0 = P  BY <1>0
        <2>2. g[P] = c  BY <2>1, <1>3 DEF Written
        <2>3. \A i \in Lanes : ~(i >= P)  BY <1>0
        <2>4. Rows(P) = e.vreg  BY <2>3, <1>1 DEF RowsFrom
        <2>5. EW(P) = e  BY <2>4, <1>1 DEF PutVectors, EmuShape
        <2>. QED BY <2>1, <2>2, <2>5
  <1>5. ASSUME NEW m \in Nat, m \in S(g) PROVE m + 1 \in S(g)
        <2>. DEFINE k == P - (m + 1)
        <2>1. SUFFICES ASSUME m + 1 <= P PROVE Agree(EW(k), g[k])
              OBVIOUS
        <2>2. k \in 0 .. P /\ k # P /\ k + 1 = P - m /\ k \in Int  BY <1>0, <2>1
        <2>. HIDE DEF k
        <2>3. Agree(EW(k + 1), g[k + 1])  BY <1>5, <2>1, <2>2, <1>0
        <2>4. g[k] = Written(g, k, c, o, exec, words)  BY <2>2, <1>3
        <2>5. \A i \in Lanes : i \in Int  BY <1>0
        <2>6. CASE k \in T!Active(exec)
              <3>1. k \in Lanes  BY <2>6, ActiveType
              <3>2. g[k] = T!WriteReg(g[k + 1], o, k, words[k])
                    BY <2>2, <2>4, <2>6 DEF Written, T!WriteOperand
              <3>3. E!WriteReg(EW(k + 1), o, k, words[k]) = EW(k)
                    <4>. DEFINE x == EW(k + 1)
                    <4>1. x.vreg = Rows(k + 1)  BY <1>1, PutVectorsTwice
                    <4>2. EmuShape(x)  BY <2>3 DEF Agree
                    <4>3. E!WriteReg(x, o, k, words[k])
                          = PutVectors(x, [j \in Lanes |-> IF j = k THEN WrittenRow(x.vreg[k], o, words[k])
                                                           ELSE x.vreg[j]])
                          <5>. HIDE DEF x
                          <5>. QED BY <4>2, <3>1, EmuVectorWrite
                    <4>4. [j \in Lanes |-> IF j = k THEN WrittenRow(x.vreg[k], o, words[k])
                                           ELSE x.vreg[j]] = Rows(k)
                          <5>1. x.vreg[k] = e.vreg[k]
                                <6>1. ~(k >= k + 1)  BY <2>2
                                <6>2. Rows(k + 1)[k] = e.vreg[k]  BY <3>1, <6>1 DEF RowsFrom
                                <6>. QED BY <4>1, <6>2
                          <5>2. ASSUME NEW j \in Lanes, j # k PROVE x.vreg[j] = Rows(k)[j]
                                <6>1. j >= k + 1 <=> j >= k  BY <2>2, <2>5, <5>2
                                <6>2. Rows(k + 1)[j] = Rows(k)[j]  BY <6>1 DEF RowsFrom
                                <6>. QED BY <4>1, <6>2
                          <5>3. Rows(k)[k] = WrittenRow(e.vreg[k], o, words[k])
                                <6>1. k >= k  BY <2>2
                                <6>. QED BY <3>1, <2>6, <6>1 DEF RowsFrom
                          <5>4. Rows(k) = [j \in Lanes |-> Rows(k)[j]]  BY DEF RowsFrom
                          <5>. HIDE DEF x, Rows
                          <5>. QED BY <5>1, <5>2, <5>3, <5>4
                    <4>5. PutVectors(x, Rows(k)) = EW(k)
                          BY <1>1, PutVectorsTwice
                    <4>. HIDE DEF x, EW, Rows
                    <4>. QED BY <4>3, <4>4, <4>5 DEF x
              <3>. HIDE DEF EW
              <3>. QED BY <2>3, <3>1, <3>2, <3>3, VectorWrite
        <2>7. CASE k \notin T!Active(exec)
              <3>1. g[k] = g[k + 1]  BY <2>2, <2>4, <2>7 DEF Written
              <3>2. \A i \in T!Active(exec) : i >= k + 1 <=> i >= k
                    BY <2>2, <2>5, <2>7, ActiveType
              <3>3. Rows(k + 1) = Rows(k)  BY <3>2 DEF RowsFrom
              <3>. QED BY <2>3, <3>1, <3>3
        <2>. QED BY <2>6, <2>7
  <1>6. Nat \subseteq S(g)
        <2>. DEFINE X == S(g)
        <2>1. 0 \in X /\ \A m \in Nat : m \in X => m + 1 \in X  BY <1>4, <1>5
        <2>. HIDE DEF X
        <2>2. Nat \subseteq X  BY <2>1, Induction
        <2>. QED BY <2>2 DEF X
  <1>7. Agree(EW(0), g[0])
        <2>1. P \in S(g) /\ P <= P /\ P - P = 0  BY <1>0, <1>6
        <2>. QED BY <2>1
  <1>8. E!WriteLanes(e, o, exec, words) = EW(0)
        <2>1. E!WriteLanes(e, o, exec, words)
              = [e EXCEPT !.vreg = [i \in Lanes |->
                    IF E!Masked(exec, i) THEN E!WriteReg(e, o, i, words[i]).vreg[i] ELSE e.vreg[i]]]
              BY <1>1 DEF E!WriteLanes, IsVector, EmuShape
        <2>2. ASSUME NEW i \in Lanes
              PROVE  E!WriteReg(e, o, i, words[i]).vreg[i] = WrittenRow(e.vreg[i], o, words[i])
              <3>. DEFINE rows == [j \in Lanes |-> IF j = i THEN WrittenRow(e.vreg[i], o, words[i])
                                                   ELSE e.vreg[j]]
              <3>1. E!WriteReg(e, o, i, words[i]) = PutVectors(e, rows)
                    BY <1>1, EmuVectorWrite
              <3>2. rows[i] = WrittenRow(e.vreg[i], o, words[i])  OBVIOUS
              <3>. HIDE DEF rows
              <3>3. PutVectors(e, rows).vreg = rows  BY <1>1, PutVectorsTwice
              <3>. QED BY <3>1, <3>2, <3>3
        <2>3. \A i \in Lanes : i >= 0  BY <1>0
        <2>4. \A i \in Lanes : E!Masked(exec, i) <=> i \in T!Active(exec) /\ i >= 0
              BY <2>3, ActiveType
        <2>5. [i \in Lanes |-> IF E!Masked(exec, i) THEN E!WriteReg(e, o, i, words[i]).vreg[i]
                               ELSE e.vreg[i]] = Rows(0)
              BY <2>2, <2>4 DEF RowsFrom
        <2>. QED BY <2>1, <2>5 DEF PutVectors
  <1>. QED BY <1>2, <1>7, <1>8

\* a register of all lanes is written over
LEMMA WrittenOver ==
  ASSUME NEW c, CUShape(c), NEW o, IsScalar(o) \/ o.kind = "m0",
         NEW i, NEW j, NEW w, NEW x
  PROVE  /\ T!WriteReg(c, o, i, w) = T!WriteReg(c, o, 0, w)
         /\ T!WriteReg(T!WriteReg(c, o, i, x), o, j, w) = T!WriteReg(c, o, 0, w)
  <1>1. CASE IsScalar(o)
        <2>1. o.kind = "s"  BY <1>1 DEF IsScalar
        <2>. DEFINE n == T!Count(o)
                    at == T!ScalarOffset(c, o)
                    one == T!FileWrite(c.s, at, n, x)
                    two == T!FileWrite(c.s, at, n, w)
                    d == [c EXCEPT !.s = one]
        <2>2. \A y, l : T!WriteReg(c, o, l, y) = [c EXCEPT !.s = T!FileWrite(c.s, at, n, y)]
              BY <2>1 DEF T!WriteReg
        <2>3. T!WriteReg(d, o, j, w)
              = [d EXCEPT !.s = T!FileWrite(d.s, T!ScalarOffset(d, o), n, w)]
              BY <2>1 DEF T!WriteReg
        <2>4. T!FileWrite(one, at, n, w) = two
              <3>1. DOMAIN c.s = SRegs  BY DEF CUShape
              <3>2. DOMAIN one = SRegs  BY <3>1 DEF T!FileWrite
              <3>3. \A m \in SRegs : m \notin at .. at + n - 1 => one[m] = c.s[m]
                    BY <3>1 DEF T!FileWrite
              <3>. HIDE DEF one, at, n
              <3>. QED BY <3>1, <3>2, <3>3 DEF T!FileWrite
        <2>. HIDE DEF one, two, n
        <2>5. d.s = one /\ d.sOffset = c.sOffset  BY DEF CUShape
        <2>6. T!ScalarOffset(d, o) = at
              <3>. HIDE DEF d
              <3>. QED BY <2>5 DEF T!ScalarOffset
        <2>7. [d EXCEPT !.s = two] = [c EXCEPT !.s = two]  BY DEF CUShape
        <2>8. T!WriteReg(c, o, i, x) = d  BY <2>2 DEF one
        <2>9. T!WriteReg(c, o, 0, w) = [c EXCEPT !.s = two]  BY <2>2 DEF two
        <2>10. T!WriteReg(c, o, i, w) = [c EXCEPT !.s = two]  BY <2>2 DEF two
        <2>. HIDE DEF d, at
        <2>. QED BY <2>3, <2>4, <2>5, <2>6, <2>7, <2>8, <2>9, <2>10
  <1>2. CASE o.kind = "m0"
        <2>1. \A r, l, y : T!WriteReg(r, o, l, y) = PutM0(r, y[1])
              BY <1>2 DEF T!WriteReg, PutM0
        <2>2. PutM0(PutM0(c, x[1]), w[1]) = PutM0(c, w[1])
              BY DEF PutM0, CUShape
        <2>. QED BY <2>1, <2>2
  <1>. QED BY <1>1, <1>2

LEMMA ScalarLanes ==
  ASSUME NEW e, NEW c, Agree(e, c), NEW o, IsScalar(o) \/ o.kind = "m0", NEW exec, NEW words
  PROVE  Agree(E!WriteLanes(e, o, exec, words), T!WriteLanes(c, o, exec, words))
  <1>. DEFINE P == T!Pair
              A == T!Active(exec)
              TW(a) == T!WriteReg(c, o, 0, words[a])
              IsFirst(a, k) == a >= k /\ \A i \in A : i >= k => a <= i
              Inv(g, k) == /\ (\A i \in A : ~(i >= k)) => g[k] = c
                           /\ \A a \in A : IsFirst(a, k) => g[k] = TW(a)
                           /\ g[k] = c \/ \E a \in A : g[k] = TW(a)
              S(g) == {m \in Nat : m <= P => Inv(g, P - m)}
  <1>0. P \in Nat /\ A \subseteq 0 .. P - 1 /\ A \subseteq Lanes  BY PairType, ActiveType
  <1>1. CUShape(c)  BY DEF Agree
  <1>2. PICK g : /\ IsWritten(g, 0, c, o, exec, words)
                 /\ T!WriteLanes(c, o, exec, words) = g[0]
        BY WriteLanesUnrolled
  <1>3. \A k \in 0 .. P : g[k] = Written(g, k, c, o, exec, words)
        <2>1. \A k \in 0 .. P : k >= 0  OBVIOUS
        <2>. QED BY <1>2, <2>1 DEF IsWritten
  <1>. HIDE DEF A, TW
  <1>4. 0 \in S(g)
        <2>1. P \in 0 .. P /\ P - 0 = P  BY <1>0
        <2>2. g[P] = c  BY <2>1, <1>3 DEF Written
        <2>3. \A i \in A : ~(i >= P)  BY <1>0
        <2>4. Inv(g, P)  BY <2>2, <2>3
        <2>. HIDE DEF Inv
        <2>. QED BY <2>1, <2>4
  <1>5. ASSUME NEW m \in Nat, m \in S(g) PROVE m + 1 \in S(g)
        <2>. DEFINE k == P - (m + 1)
        <2>1. SUFFICES ASSUME m + 1 <= P PROVE Inv(g, k)
              OBVIOUS
        <2>2. k \in 0 .. P /\ k # P /\ k + 1 = P - m /\ k \in Int  BY <1>0, <2>1
        <2>. HIDE DEF k
        <2>3. Inv(g, k + 1)
              <3>1. m <= P  BY <2>1, <1>0
              <3>. HIDE DEF Inv
              <3>. QED BY <1>5, <2>2, <3>1
        <2>4. g[k] = Written(g, k, c, o, exec, words)  BY <2>2, <1>3
        <2>5. \A i \in A : i \in Int  BY <1>0
        <2>6. CASE k \in A
              <3>1. g[k] = T!WriteReg(g[k + 1], o, k, words[k])
                    BY <2>2, <2>4, <2>6 DEF Written, T!WriteOperand, A
              <3>2. g[k] = TW(k)
                    <4>1. CASE g[k + 1] = c
                          BY <4>1, <3>1, <1>1, WrittenOver DEF TW
                    <4>2. ASSUME NEW a \in A, g[k + 1] = TW(a) PROVE g[k] = TW(k)
                          BY <4>2, <3>1, <1>1, WrittenOver DEF TW
                    <4>. QED BY <4>1, <4>2, <2>3
              <3>3. \A a \in A : IsFirst(a, k) => a = k  BY <2>2, <2>5, <2>6
              <3>4. k >= k  BY <2>2
              <3>. QED BY <3>2, <3>3, <3>4, <2>6
        <2>7. CASE k \notin A
              <3>1. g[k] = g[k + 1]  BY <2>2, <2>4, <2>7 DEF Written, A
              <3>2. \A i \in A : i >= k + 1 <=> i >= k  BY <2>2, <2>5, <2>7
              <3>. QED BY <2>3, <3>1, <3>2
        <2>. QED BY <2>6, <2>7
  <1>6. Nat \subseteq S(g)
        <2>. DEFINE X == S(g)
        <2>1. 0 \in X /\ \A m \in Nat : m \in X => m + 1 \in X  BY <1>4, <1>5
        <2>. HIDE DEF X
        <2>2. Nat \subseteq X  BY <2>1, Induction
        <2>. QED BY <2>2 DEF X
  <1>7. Inv(g, 0)
        <2>1. P \in S(g) /\ P <= P /\ P - P = 0  BY <1>0, <1>6
        <2>. HIDE DEF Inv
        <2>. QED BY <2>1
  <1>8. E!Active(exec) = A /\ \A i \in A : i \in Nat /\ i >= 0  BY <1>0, ActiveType DEF A
  <1>9. o.kind # "v"  BY DEF IsScalar
  <1>10. CASE A = {}
        <2>1. E!WriteLanes(e, o, exec, words) = e  BY <1>8, <1>9, <1>10 DEF E!WriteLanes
        <2>2. g[0] = c  BY <1>7, <1>10
        <2>. QED BY <1>2, <2>1, <2>2
  <1>11. CASE A # {}
        <2>. DEFINE a == E!Min(A)
        <2>1. a \in A /\ \A i \in A : a <= i
              <3>1. A \in SUBSET Nat  BY <1>8
              <3>2. \E x \in A : \A y \in A : x <= y  BY <1>11, <3>1, SmallestNat
              <3>. QED BY <3>2 DEF E!Min
        <2>2. E!WriteLanes(e, o, exec, words) = E!WriteReg(e, o, 0, words[a])
              BY <1>8, <1>9, <1>11 DEF E!WriteLanes, E!WriteOperand
        <2>. HIDE DEF a
        <2>3. IsFirst(a, 0)  BY <2>1, <1>8
        <2>4. g[0] = T!WriteReg(c, o, 0, words[a])  BY <1>7, <2>1, <2>3 DEF TW
        <2>5. 0 \in Lanes /\ IsRegister(o)  BY LanesAssumption DEF IsRegister
        <2>. QED BY <1>2, <2>2, <2>4, <2>5, RegisterWrite
  <1>. QED BY <1>10, <1>11

LEMMA LanesWrite ==
  ASSUME NEW e, NEW c, Agree(e, c), NEW o, IsLaneResult(o), NEW exec, NEW words
  PROVE  Agree(E!WriteLanes(e, o, exec, words), T!WriteLanes(c, o, exec, words))
  BY VectorLanes, ScalarLanes DEF IsLaneResult

-----------------------------------------------------------------------------
Formats == {"SOP1", "SOP2", "SOPC", "SOPK", "SOPP", "SMEM", "VOP1", "VOP2", "VOP3a", "VOP3b",
            "VOPC", "FLAT", "DS"}

LEMMA FormatOf ==
  ASSUME NEW inst, WellFormed(inst)
  PROVE  inst.fmt \in Formats
  BY DEF WellFormed, WellFormedScalar, WellFormedVector, WellFormedMemory, Formats

LEMMA Pads ==
  /\ E!ScalarPad = T!ScalarPad /\ E!VectorPad = T!VectorPad /\ E!MemoryPad = T!MemoryPad
  /\ \A o : E!Present(o) <=> T!Present(o)
  BY DEF E!ScalarPad, T!ScalarPad, E!VectorPad, T!VectorPad, E!MemoryPad, T!MemoryPad,
         E!ZeroLanes, T!ZeroLanes, E!ZeroData, T!ZeroData, E!Present, T!Present

LEMMA VectorIsSource == ASSUME NEW o, IsVector(o) PROVE IsSource(o)
  BY DEF IsSource, IsRegister

\* Prepare fills the scratchpad alike, format by format.
LEMMA PrepareScalar ==
  ASSUME NEW e, NEW c, Agree(e, c), NEW inst, WellFormed(inst),
         inst.fmt \in {"SOP2", "SOPC", "SOPP"}
  PROVE  E!Prepare(e, inst) = T!Prepare(c, inst)
  <1>1. 0 \in Lanes  BY LanesAssumption
  <1>2. e.pc = c.pc /\ e.exec = c.exec /\ e.vcc = c.vcc /\ e.scc = c.scc  BY DEF Agree, Same
  <1>3. \A o : IsSource(o) => E!ReadPair(e, o, 0) = T!ReadPair(c, o, 0)
        BY <1>1, PairRead
  <1>4. CASE inst.fmt = "SOP2"
        <2>1. IsSource(inst.src0) /\ IsSource(inst.src1)
              BY <1>4 DEF WellFormed, WellFormedScalar, WellFormedVector, WellFormedMemory
        <2>2. /\ E!Prepare(e, inst) = E!PrepareSOP2(e, inst)
              /\ T!Prepare(c, inst) = T!PrepareSOP2(c, inst)
              BY <1>4 DEF E!Prepare, T!Prepare
        <2>3. /\ E!ReadPair(e, inst.src0, 0) = T!ReadPair(c, inst.src0, 0)
              /\ E!ReadPair(e, inst.src1, 0) = T!ReadPair(c, inst.src1, 0)
              BY <1>3, <2>1
        <2>. QED BY <1>2, <2>2, <2>3, Pads DEF E!PrepareSOP2, T!PrepareSOP2
  <1>5. CASE inst.fmt = "SOPC"
        <2>1. IsSource(inst.src0) /\ IsSource(inst.src1)
              BY <1>5 DEF WellFormed, WellFormedScalar, WellFormedVector, WellFormedMemory
        <2>2. /\ E!Prepare(e, inst) = E!PrepareSOPC(e, inst)
              /\ T!Prepare(c, inst) = T!PrepareSOPC(c, inst)
              BY <1>5 DEF E!Prepare, T!Prepare
        <2>3. /\ E!ReadPair(e, inst.src0, 0) = T!ReadPair(c, inst.src0, 0)
              /\ E!ReadPair(e, inst.src1, 0) = T!ReadPair(c, inst.src1, 0)
              BY <1>3, <2>1
        <2>. QED BY <1>2, <2>2, <2>3, Pads DEF E!PrepareSOPC, T!PrepareSOPC
  <1>6. CASE inst.fmt = "SOPP"
        <2>1. IsSource(inst.imm)
              BY <1>6 DEF WellFormed, WellFormedScalar, WellFormedVector, WellFormedMemory
        <2>2. /\ E!Prepare(e, inst) = E!PrepareSOPP(e, inst)
              /\ T!Prepare(c, inst) = T!PrepareSOPP(c, inst)
              BY <1>6 DEF E!Prepare, T!Prepare
        <2>. QED BY <1>2, <1>3, <2>1, <2>2, Pads DEF E!PrepareSOPP, T!PrepareSOPP
  <1>. QED BY <1>4, <1>5, <1>6

LEMMA PrepareSOPKAlike ==
  ASSUME NEW e, NEW c, Agree(e, c), NEW inst, WellFormed(inst), inst.fmt = "SOPK"
  PROVE  E!Prepare(e, inst) = T!Prepare(c, inst)
  <1>1. 0 \in Lanes /\ e.scc = c.scc  BY LanesAssumption DEF Agree, Same
  <1>2. IsSource(inst.imm) /\ IsRegister(inst.dst)
        BY DEF WellFormed, WellFormedScalar, WellFormedVector, WellFormedMemory
  <1>3. IsSource(inst.dst)  BY <1>2 DEF IsSource
  <1>4. /\ E!ReadPair(e, inst.imm, 0) = T!ReadPair(c, inst.imm, 0)
        /\ E!ReadPair(e, inst.dst, 0) = T!ReadPair(c, inst.dst, 0)
        BY <1>1, <1>2, <1>3, PairRead
  <1>5. /\ E!Prepare(e, inst) = E!PrepareSOPK(e, inst)
        /\ T!Prepare(c, inst) = T!PrepareSOPK(c, inst)
        BY DEF E!Prepare, T!Prepare
  <1>. QED BY <1>1, <1>4, <1>5, Pads DEF E!PrepareSOPK, T!PrepareSOPK

LEMMA PrepareVector ==
  ASSUME NEW e, NEW c, Agree(e, c), NEW inst, WellFormed(inst),
         inst.fmt \in {"VOP1", "VOP2", "VOP3a", "VOP3b", "VOPC"}
  PROVE  E!Prepare(e, inst) = T!Prepare(c, inst)
  <1>1. e.exec = c.exec /\ e.vcc = c.vcc  BY DEF Agree, Same
  <1>2. \A o : IsSource(o) => E!ReadLanes(e, o) = T!ReadLanes(c, o)
        BY LanesRead
  <1>3. CASE inst.fmt = "VOP1"
        <2>1. IsSource(inst.src0)
              BY <1>3 DEF WellFormed, WellFormedScalar, WellFormedVector, WellFormedMemory
        <2>2. /\ E!Prepare(e, inst) = E!PrepareVOP1(e, inst)
              /\ T!Prepare(c, inst) = T!PrepareVOP1(c, inst)
              BY <1>3 DEF E!Prepare, T!Prepare
        <2>. QED BY <1>1, <1>2, <2>1, <2>2, Pads DEF E!PrepareVOP1, T!PrepareVOP1
  <1>4. CASE inst.fmt = "VOPC"
        <2>1. IsSource(inst.src0) /\ IsSource(inst.src1)
              BY <1>4 DEF WellFormed, WellFormedScalar, WellFormedVector, WellFormedMemory
        <2>2. /\ E!Prepare(e, inst) = E!PrepareVOPC(e, inst)
              /\ T!Prepare(c, inst) = T!PrepareVOPC(c, inst)
              BY <1>4 DEF E!Prepare, T!Prepare
        <2>3. /\ E!ReadLanes(e, inst.src0) = T!ReadLanes(c, inst.src0)
              /\ E!ReadLanes(e, inst.src1) = T!ReadLanes(c, inst.src1)
              BY <1>2, <2>1
        <2>. QED BY <1>1, <2>2, <2>3, Pads DEF E!PrepareVOPC, T!PrepareVOPC
  <1>5. CASE inst.fmt = "VOP2"
        <2>1. /\ IsSource(inst.src0) /\ IsSource(inst.src1) /\ IsOptional(inst.src2)
              /\ IsVector(inst.dst)
              BY <1>5 DEF WellFormed, WellFormedScalar, WellFormedVector, WellFormedMemory
        <2>2. /\ E!Prepare(e, inst) = E!PrepareVOP2(e, inst)
              /\ T!Prepare(c, inst) = T!PrepareVOP2(c, inst)
              BY <1>5 DEF E!Prepare, T!Prepare
        <2>3. IsSource(inst.dst)  BY <2>1, VectorIsSource
        <2>4. (IF E!Present(inst.src2) THEN E!ReadPair(e, inst.src2, 0) ELSE 0)
              = (IF T!Present(inst.src2) THEN T!ReadPair(c, inst.src2, 0) ELSE 0)
              <3>1. 0 \in Lanes  BY LanesAssumption
              <3>. QED BY <2>1, <3>1, Pads, PairRead DEF IsOptional
        <2>5. /\ E!ReadLanes(e, inst.src0) = T!ReadLanes(c, inst.src0)
              /\ E!ReadLanes(e, inst.src1) = T!ReadLanes(c, inst.src1)
              /\ E!ReadLanes(e, inst.dst) = T!ReadLanes(c, inst.dst)
              BY <1>2, <2>1, <2>3
        <2>. QED BY <1>1, <2>2, <2>4, <2>5, Pads DEF E!PrepareVOP2, T!PrepareVOP2
  <1>6. CASE inst.fmt \in {"VOP3a", "VOP3b"}
        <2>1. IsSource(inst.src0) /\ IsSource(inst.src1) /\ IsOptional(inst.src2)
              BY <1>6 DEF WellFormed, WellFormedScalar, WellFormedVector, WellFormedMemory
        <2>2. /\ E!Prepare(e, inst) = E!PrepareVOP3(e, inst)
              /\ T!Prepare(c, inst) = T!PrepareVOP3(c, inst)
              BY <1>6 DEF E!Prepare, T!Prepare
        <2>3. E!Present(inst.src2) => E!ReadLanes(e, inst.src2) = T!ReadLanes(c, inst.src2)
              BY <1>2, <2>1 DEF IsOptional
        <2>4. /\ E!ReadLanes(e, inst.src0) = T!ReadLanes(c, inst.src0)
              /\ E!ReadLanes(e, inst.src1) = T!ReadLanes(c, inst.src1)
              BY <1>2, <2>1
        <2>. QED BY <1>1, <2>2, <2>3, <2>4, Pads DEF E!PrepareVOP3, T!PrepareVOP3
  <1>. QED BY <1>3, <1>4, <1>5, <1>6

\* An instruction of memory or of the LDS finds the same addresses and the same data
\* in agreeing registers: the scratchpad the emulator runs it on is the one from which
\* the scalar unit and the coalescer of the timing model make their requests.
THEOREM PrepareMemory ==
  ASSUME NEW e, NEW c, Agree(e, c), NEW inst, WellFormed(inst),
         inst.fmt \in {"SMEM", "FLAT", "DS"}
  PROVE  E!Prepare(e, inst) = T!Prepare(c, inst)
  <1>1. 0 \in Lanes /\ e.exec = c.exec  BY LanesAssumption DEF Agree, Same
  <1>2. CASE inst.fmt = "SMEM"
        <2>1. IsSource(inst.base) /\ IsSource(inst.offset)
              BY <1>2 DEF WellFormed, WellFormedScalar, WellFormedVector, WellFormedMemory
        <2>2. /\ E!ReadPair(e, inst.base, 0) = T!ReadPair(c, inst.base, 0)
              /\ E!ReadPair(e, inst.offset, 0) = T!ReadPair(c, inst.offset, 0)
              BY <1>1, <2>1, PairRead
        <2>3. /\ E!Prepare(e, inst) = E!PrepareSMEM(e, inst)
              /\ T!Prepare(c, inst) = T!PrepareSMEM(c, inst)
              BY <1>2 DEF E!Prepare, T!Prepare
        <2>. QED BY <2>2, <2>3, Pads DEF E!PrepareSMEM, T!PrepareSMEM
  <1>3. CASE inst.fmt = "FLAT"
        <2>1. IsVector(inst.addr) /\ IsVector(inst.data)
              BY <1>3 DEF WellFormed, WellFormedScalar, WellFormedVector, WellFormedMemory
        <2>2. /\ E!ReadLanes(e, inst.addr) = T!ReadLanes(c, inst.addr)
              /\ E!ReadData(e, inst.data) = T!ReadData(c, inst.data)
              BY <2>1, VectorIsSource, LanesRead, DataRead
        <2>3. /\ E!Prepare(e, inst) = E!PrepareFlat(e, inst)
              /\ T!Prepare(c, inst) = T!PrepareFlat(c, inst)
              BY <1>3 DEF E!Prepare, T!Prepare
        <2>. QED BY <1>1, <2>2, <2>3, Pads DEF E!PrepareFlat, T!PrepareFlat
  <1>4. CASE inst.fmt = "DS"
        <2>1. IsVector(inst.addr) /\ IsOptional(inst.data) /\ IsOptional(inst.data1)
              BY <1>4 DEF WellFormed, WellFormedScalar, WellFormedVector, WellFormedMemory
        <2>2. /\ E!Present(inst.data) => E!ReadData(e, inst.data) = T!ReadData(c, inst.data)
              /\ E!Present(inst.data1) => E!ReadData(e, inst.data1) = T!ReadData(c, inst.data1)
              BY <2>1, DataRead DEF IsOptional
        <2>3. \A i \in Lanes : E!ReadOperand(e, inst.addr, i, 1) = T!ReadOperand(c, inst.addr, i, 1)
              BY <2>1, VectorIsSource, SourceRead
        <2>4. [i \in Lanes |-> E!ReadOperand(e, inst.addr, i, 1)[1]]
              = [i \in Lanes |-> T!ReadOperand(c, inst.addr, i, 1)[1]]
              BY <2>3
        <2>5. /\ E!Prepare(e, inst) = E!PrepareDS(e, inst)
              /\ T!Prepare(c, inst) = T!PrepareDS(c, inst)
              BY <1>4 DEF E!Prepare, T!Prepare
        <2>. QED BY <1>1, <2>2, <2>4, <2>5, Pads DEF E!PrepareDS, T!PrepareDS
  <1>. QED BY <1>2, <1>3, <1>4

-----------------------------------------------------------------------------
LEMMA WordsAlike == ASSUME NEW x PROVE E!WordsOf(x) = T!WordsOf(x)
  BY DEF E!WordsOf, T!WordsOf, E!Low, T!Low, E!High, T!High, E!U32, T!U32, E!Word, T!Word

LEMMA OperandWrite ==
  ASSUME NEW e, NEW c, Agree(e, c), NEW o, IsRegister(o), NEW x
  PROVE  /\ Agree(E!WriteOperand(e, o, 0, x), T!WriteOperand(c, o, 0, x))
         /\ Agree(E!WriteOperand(e, o, 0, E!WordsOf(x)), T!WriteOperand(c, o, 0, T!WordsOf(x)))
  <1>1. 0 \in Lanes  BY LanesAssumption
  <1>2. \A w : Agree(E!WriteReg(e, o, 0, w), T!WriteReg(c, o, 0, w))  BY <1>1, RegisterWrite
  <1>. QED BY <1>2, WordsAlike DEF E!WriteOperand, T!WriteOperand

\* Commit takes the results out of it alike.
LEMMA CommitScalar ==
  ASSUME NEW e, NEW c, Agree(e, c), NEW inst, WellFormed(inst), NEW s,
         inst.fmt \in {"SOP2", "SOPC", "SOPK", "SOPP"}
  PROVE  Agree(E!Commit(e, inst, s), T!Commit(c, inst, s))
  <1>1. CASE inst.fmt \in {"SOP2", "SOPK"}
        <2>1. IsRegister(inst.dst)
              BY <1>1 DEF WellFormed, WellFormedScalar, WellFormedVector, WellFormedMemory
        <2>. DEFINE x == E!WriteOperand(e, inst.dst, 0, E!WordsOf(s.dst))
                    y == T!WriteOperand(c, inst.dst, 0, T!WordsOf(s.dst))
        <2>2. Agree(x, y)  BY <2>1, OperandWrite
        <2>3. E!Commit(e, inst, s) = PutSCC(x, s.scc) /\ T!Commit(c, inst, s) = PutSCC(y, s.scc)
              BY <1>1 DEF E!Commit, T!Commit, E!CommitSOP2, T!CommitSOP2, E!CommitSOPK,
                          T!CommitSOPK, PutSCC
        <2>. HIDE DEF x, y
        <2>. QED BY <2>2, <2>3, SetSpecial
  <1>2. CASE inst.fmt = "SOPC"
        <2>1. E!Commit(e, inst, s) = PutSCC(e, s.scc) /\ T!Commit(c, inst, s) = PutSCC(c, s.scc)
              BY <1>2 DEF E!Commit, T!Commit, E!CommitSOPC, T!CommitSOPC, PutSCC
        <2>. QED BY <2>1, SetSpecial
  <1>3. CASE inst.fmt = "SOPP"
        <2>1. E!Commit(e, inst, s) = PutPC(e, s.pc) /\ T!Commit(c, inst, s) = PutPC(c, s.pc)
              BY <1>3 DEF E!Commit, T!Commit, E!CommitSOPP, T!CommitSOPP, PutPC
        <2>. QED BY <2>1, SetSpecial
  <1>. QED BY <1>1, <1>2, <1>3

LEMMA CommitVectorAlike ==
  ASSUME NEW e, NEW c, Agree(e, c), NEW inst, NEW s, IsLaneResult(inst.dst)
  PROVE  Agree(E!CommitVector(e, inst, s), T!CommitVector(c, inst, s))
  <1>. DEFINE words == [i \in Lanes |-> E!WordsOf(s.dst[i])]
  <1>1. Agree(PutVCC(e, s.vcc), PutVCC(c, s.vcc))  BY SetSpecial
  <1>2. E!CommitVector(e, inst, s) = E!WriteLanes(PutVCC(e, s.vcc), inst.dst, s.exec, words)
        BY DEF E!CommitVector, PutVCC
  <1>3. T!CommitVector(c, inst, s) = T!WriteLanes(PutVCC(c, s.vcc), inst.dst, s.exec, words)
        <2>1. words = [i \in Lanes |-> T!WordsOf(s.dst[i])]  BY WordsAlike
        <2>. QED BY <2>1 DEF T!CommitVector, PutVCC
  <1>. HIDE DEF words
  <1>. QED BY <1>1, <1>2, <1>3, LanesWrite

LEMMA CommitLanes ==
  ASSUME NEW e, NEW c, Agree(e, c), NEW inst, WellFormed(inst), NEW s,
         inst.fmt \in {"VOP1", "VOP2", "VOP3a", "VOP3b", "VOPC"}
  PROVE  Agree(E!Commit(e, inst, s), T!Commit(c, inst, s))
  <1>1. CASE inst.fmt = "VOPC"
        <2>1. /\ E!Commit(e, inst, s) = PutExec(PutVCC(e, s.vcc), s.exec)
              /\ T!Commit(c, inst, s) = PutExec(PutVCC(c, s.vcc), s.exec)
              BY <1>1 DEF E!Commit, T!Commit, E!CommitVOPC, T!CommitVOPC, PutExec, PutVCC
        <2>2. Agree(PutVCC(e, s.vcc), PutVCC(c, s.vcc))  BY SetSpecial
        <2>. QED BY <2>1, <2>2, SetSpecial
  <1>2. CASE inst.fmt = "VOP3a" /\ inst.op = "V_CMP"
        <2>1. IsRegister(inst.dst)
              BY <1>2 DEF WellFormed, WellFormedScalar, WellFormedVector, WellFormedMemory
        <2>2. /\ E!Commit(e, inst, s) = E!CommitVOP3aCmp(e, inst, s)
              /\ T!Commit(c, inst, s) = T!CommitVOP3aCmp(c, inst, s)
              BY <1>2 DEF E!Commit, T!Commit
        <2>. QED BY <2>1, <2>2, OperandWrite DEF E!CommitVOP3aCmp, T!CommitVOP3aCmp
  <1>3. CASE inst.fmt \in {"VOP1", "VOP2", "VOP3a"} /\ ~(inst.fmt = "VOP3a" /\ inst.op = "V_CMP")
        <2>1. IsLaneResult(inst.dst)
              BY <1>3 DEF WellFormed, WellFormedScalar, WellFormedVector, WellFormedMemory,
                          IsLaneResult
        <2>2. /\ E!Commit(e, inst, s) = E!CommitVector(e, inst, s)
              /\ T!Commit(c, inst, s) = T!CommitVector(c, inst, s)
              BY <1>3 DEF E!Commit, T!Commit
        <2>. QED BY <2>1, <2>2, CommitVectorAlike
  <1>4. CASE inst.fmt = "VOP3b"
        <2>1. IsLaneResult(inst.dst) /\ IsRegister(inst.sdst)
              BY <1>4 DEF WellFormed, WellFormedScalar, WellFormedVector, WellFormedMemory,
                          IsLaneResult
        <2>. DEFINE x == E!CommitVector(e, inst, s)
                    y == T!CommitVector(c, inst, s)
        <2>2. Agree(x, y)  BY <2>1, CommitVectorAlike
        <2>3. /\ E!Commit(e, inst, s) = E!WriteOperand(x, inst.sdst, 0, E!WordsOf(s.sdst))
              /\ T!Commit(c, inst, s) = T!WriteOperand(y, inst.sdst, 0, T!WordsOf(s.sdst))
              BY <1>4 DEF E!Commit, T!Commit, E!CommitVOP3b, T!CommitVOP3b
        <2>. HIDE DEF x, y
        <2>. QED BY <2>1, <2>2, <2>3, OperandWrite
  <1>. QED BY <1>1, <1>2, <1>3, <1>4

LEMMA CommitLDS ==
  ASSUME NEW e, NEW c, Agree(e, c), NEW inst, WellFormed(inst), NEW s, inst.fmt = "DS"
  PROVE  Agree(E!Commit(e, inst, s), T!Commit(c, inst, s))
  <1>1. E!Present(inst.dst) => IsLaneResult(inst.dst)
        BY DEF WellFormed, WellFormedScalar, WellFormedVector, WellFormedMemory, IsLaneResult
  <1>2. E!Present(inst.dst) => Agree(E!WriteLanes(e, inst.dst, s.exec, s.out),
                                     T!WriteLanes(c, inst.dst, s.exec, s.out))
        BY <1>1, LanesWrite
  <1>3. /\ E!Commit(e, inst, s) = E!CommitDS(e, inst, s)
        /\ T!Commit(c, inst, s) = T!CommitDS(c, inst, s)
        BY DEF E!Commit, T!Commit
  <1>. QED BY <1>2, <1>3, Pads DEF E!CommitDS, T!CommitDS

-----------------------------------------------------------------------------
\* The scratchpad of SOP1, with what the two preparers put there.
Pad1(src, scc, exec, pc) ==
    [src0 |-> src, src1 |-> 0, dst |-> 0, exec |-> exec, vcc |-> 0, scc |-> scc,
     pc |-> pc, imm |-> 0]

LEMMA PrepareSOP1Alike ==
  ASSUME NEW e, NEW c, Agree(e, c), NEW inst, WellFormed(inst), inst.fmt = "SOP1"
  PROVE  \E src : /\ E!Prepare(e, inst) = Pad1(src, e.scc, e.exec, e.pc)
                  /\ T!Prepare(c, inst) = Pad1(src, e.scc, e.exec, 0)
  <1>. DEFINE src == E!ReadPair(e, inst.src0, 0)
  <1>1. 0 \in Lanes /\ e.exec = c.exec /\ e.scc = c.scc  BY LanesAssumption DEF Agree, Same
  <1>2. IsSource(inst.src0)
        BY DEF WellFormed, WellFormedScalar, WellFormedVector, WellFormedMemory
  <1>3. T!ReadPair(c, inst.src0, 0) = src  BY <1>1, <1>2, PairRead
  <1>4. /\ E!Prepare(e, inst) = E!PrepareSOP1(e, inst)
        /\ T!Prepare(c, inst) = T!PrepareSOP1(c, inst)
        BY DEF E!Prepare, T!Prepare
  <1>. HIDE DEF src
  <1>5. E!PrepareSOP1(e, inst) = Pad1(src, e.scc, e.exec, e.pc)
        <2>1. PICK r : r = E!ScalarPad  OBVIOUS
        <2>2. PICK t : t = [r EXCEPT !.pc = e.pc, !.src0 = src, !.scc = e.scc, !.exec = e.exec]
              OBVIOUS
        <2>3. t = Pad1(src, e.scc, e.exec, e.pc)  BY <2>1, <2>2 DEF E!ScalarPad, Pad1
        <2>. QED BY <2>1, <2>2, <2>3 DEF E!PrepareSOP1, src
  <1>6. T!PrepareSOP1(c, inst) = Pad1(src, e.scc, e.exec, 0)
        <2>1. PICK r : r = T!ScalarPad  OBVIOUS
        <2>2. PICK t : t = [r EXCEPT !.src0 = src, !.scc = e.scc, !.exec = e.exec]
              OBVIOUS
        <2>3. t = Pad1(src, e.scc, e.exec, 0)  BY <2>1, <2>2 DEF T!ScalarPad, Pad1
        <2>. QED BY <1>1, <1>3, <2>1, <2>2, <2>3 DEF T!PrepareSOP1
  <1>. QED BY <1>4, <1>5, <1>6

\* What SOP1 computes does not depend on the program counter, but for S_GETPC_B64.
LEMMA SOP1IgnoresPC ==
  ASSUME NEW op, op # "S_GETPC_B64", NEW src, NEW scc, NEW exec, NEW p, NEW q
  PROVE  LET r == RunSOP1(op, Pad1(src, scc, exec, p))
             t == RunSOP1(op, Pad1(src, scc, exec, q))
         IN  /\ r.dst = t.dst /\ r.exec = t.exec /\ r.scc = t.scc
             /\ r.pc = p
  <1>. DEFINE a == Pad1(src, scc, exec, p)
              b == Pad1(src, scc, exec, q)
  <1>1. CASE op \in Moves
        <2>. DEFINE dst == Not64(src)
                    rev == Reversed32(src)
        <2>1. a.src0 = src /\ b.src0 = src /\ a.scc = scc /\ b.scc = scc  BY DEF Pad1
        <2>. HIDE DEF dst, rev
        <2>2. CASE op \in {"S_MOV_B32", "S_MOV_B64"}
              <3>1. /\ RunSOP1(op, a) = [a EXCEPT !.dst = src]
                    /\ RunSOP1(op, b) = [b EXCEPT !.dst = src]
                    BY <1>1, <2>1, <2>2 DEF RunSOP1, Move
              <3>. QED BY <3>1 DEF Pad1
        <2>3. CASE op = "S_NOT_U32"
              <3>. DEFINE new == IF dst # 0 THEN 1 ELSE scc
              <3>1. /\ RunSOP1(op, a) = [a EXCEPT !.dst = dst, !.scc = new]
                    /\ RunSOP1(op, b) = [b EXCEPT !.dst = dst, !.scc = new]
                    BY <1>1, <2>1, <2>3 DEF RunSOP1, Move, dst
              <3>. HIDE DEF new
              <3>. QED BY <3>1, ZenonT(60) DEF Pad1
        <2>4. CASE op = "S_BREV_B32"
              <3>1. /\ RunSOP1(op, a) = [a EXCEPT !.dst = rev]
                    /\ RunSOP1(op, b) = [b EXCEPT !.dst = rev]
                    BY <1>1, <2>1, <2>4 DEF RunSOP1, Move, rev
              <3>. QED BY <3>1 DEF Pad1
        <2>. QED BY <1>1, <2>2, <2>3, <2>4 DEF Moves
  <1>2. CASE op \notin Moves
        <2>1. /\ a.src0 = src /\ b.src0 = src /\ a.exec = exec /\ b.exec = exec
              BY DEF Pad1
        <2>2. \E x : /\ RunSOP1(op, a) = [a EXCEPT !.dst = exec, !.exec = x, !.scc = Truth(x # 0)]
                     /\ RunSOP1(op, b) = [b EXCEPT !.dst = exec, !.exec = x, !.scc = Truth(x # 0)]
              <3>. HIDE DEF a, b
              <3>. QED BY <1>2, <2>1 DEF RunSOP1, SaveExec
        <2>3. PICK x : /\ RunSOP1(op, a) = [a EXCEPT !.dst = exec, !.exec = x, !.scc = Truth(x # 0)]
                       /\ RunSOP1(op, b) = [b EXCEPT !.dst = exec, !.exec = x, !.scc = Truth(x # 0)]
              BY <2>2
        <2>. QED BY <2>3 DEF Pad1
  <1>. QED BY <1>1, <1>2

LEMMA KeepsPC ==
  ASSUME NEW e, EmuShape(e), NEW o, IsRegister(o), NEW words
  PROVE  E!WriteReg(e, o, 0, words).pc = e.pc
  <1>1. 0 \in Lanes  BY LanesAssumption
  <1>2. CASE IsVector(o)
        <2>1. \A x : PutVectors(e, x).pc = e.pc  BY DEF PutVectors, EmuShape
        <2>. DEFINE rows == [j \in Lanes |-> IF j = 0 THEN WrittenRow(e.vreg[0], o, words)
                                             ELSE e.vreg[j]]
        <2>2. E!WriteReg(e, o, 0, words) = PutVectors(e, rows)  BY <1>1, <1>2, EmuVectorWrite
        <2>. HIDE DEF rows
        <2>. QED BY <2>1, <2>2
  <1>3. CASE IsScalar(o)
        <2>. DEFINE new == [n \in DOMAIN e.sreg |->
                            IF n \in E!Span(o) THEN words[n - o.n + 1] ELSE e.sreg[n]]
        <2>1. E!WriteReg(e, o, 0, words) = [e EXCEPT !.sreg = new]
              BY <1>3 DEF E!WriteReg, IsScalar
        <2>. HIDE DEF new
        <2>. QED BY <2>1 DEF EmuShape
  <1>. DEFINE pair == E!PairOf(words)
              low  == E!BitOr(E!Low(e.vcc), words[1])
              high == E!BitOr(2^E!Word * E!High(e.vcc), 2^E!Word * words[1])
  <1>4. CASE ~IsVector(o) /\ ~IsScalar(o)
        <2>1. \/ E!WriteReg(e, o, 0, words) = PutSCC(e, words[1])
              \/ E!WriteReg(e, o, 0, words) = PutM0(e, words[1])
              \/ E!WriteReg(e, o, 0, words) = PutVCC(e, pair)
              \/ E!WriteReg(e, o, 0, words) = PutVCC(e, low)
              \/ E!WriteReg(e, o, 0, words) = PutVCC(e, high)
              \/ E!WriteReg(e, o, 0, words) = PutExec(e, pair)
              <3>1. CASE o.kind = "scc"  BY <3>1 DEF E!WriteReg, PutSCC
              <3>2. CASE o.kind = "m0"   BY <3>2 DEF E!WriteReg, PutM0
              <3>3. CASE o.kind = "vcc" \/ (o.kind = "vcclo" /\ o.count = 2)
                    BY <3>3 DEF E!WriteReg, PutVCC
              <3>4. CASE o.kind = "exec" \/ (o.kind = "execlo" /\ o.count = 2)
                    BY <3>4 DEF E!WriteReg, PutExec
              <3>5. CASE o.kind = "vcclo" /\ o.count = 1  BY <3>5 DEF E!WriteReg, PutVCC
              <3>6. CASE o.kind = "vcchi" /\ o.count = 1  BY <3>6 DEF E!WriteReg, PutVCC
              <3>. QED BY <1>4, <3>1, <3>2, <3>3, <3>4, <3>5, <3>6 DEF IsRegister
        <2>2. \A x : /\ PutSCC(e, x).pc = e.pc /\ PutM0(e, x).pc = e.pc
                     /\ PutVCC(e, x).pc = e.pc /\ PutExec(e, x).pc = e.pc
              BY DEF PutSCC, PutM0, PutVCC, PutExec, EmuShape
        <2>. HIDE DEF pair, low, high
        <2>. QED BY <2>1, <2>2
  <1>. QED BY <1>2, <1>3, <1>4

LEMMA CommitSOP1Alike ==
  ASSUME NEW e, NEW c, Agree(e, c), NEW inst, WellFormed(inst), inst.fmt = "SOP1",
         NEW r, NEW t, r.dst = t.dst, r.exec = t.exec, r.scc = t.scc, r.pc = e.pc
  PROVE  Agree(E!Commit(e, inst, r), T!Commit(c, inst, t))
  <1>. DEFINE x == E!WriteOperand(e, inst.dst, 0, E!WordsOf(r.dst))
              y == T!WriteOperand(c, inst.dst, 0, T!WordsOf(r.dst))
              x2 == PutSCC(PutExec(x, r.exec), r.scc)
              y2 == PutSCC(PutExec(y, r.exec), r.scc)
  <1>1. IsRegister(inst.dst)
        BY DEF WellFormed, WellFormedScalar, WellFormedVector, WellFormedMemory
  <1>2. Agree(x, y)  BY <1>1, OperandWrite
  <1>3. x.pc = e.pc  BY <1>1, KeepsPC DEF E!WriteOperand, Agree
  <1>. HIDE DEF x, y
  <1>4. Agree(PutExec(x, r.exec), PutExec(y, r.exec))  BY <1>2, SetSpecial
  <1>5. Agree(x2, y2)  BY <1>4, SetSpecial
  <1>6. x2.pc = e.pc
        <2>1. EmuShape(x)  BY <1>2 DEF Agree
        <2>. QED BY <1>3, <2>1 DEF PutSCC, PutExec, EmuShape
  <1>7. PutPC(x2, e.pc) = x2
        <2>1. EmuShape(x2)  BY <1>5 DEF Agree
        <2>. HIDE DEF x2
        <2>. QED BY <1>6, <2>1 DEF PutPC, EmuShape
  <1>8. E!Commit(e, inst, r) = PutPC(x2, e.pc)
        <2>1. E!Commit(e, inst, r) = E!CommitSOP1(e, inst, r)  BY DEF E!Commit
        <2>. QED BY <2>1 DEF E!CommitSOP1, PutPC, PutSCC, PutExec, x
  <1>9. T!Commit(c, inst, t) = y2
        <2>1. T!Commit(c, inst, t) = T!CommitSOP1(c, inst, t)  BY DEF T!Commit
        <2>. QED BY <2>1 DEF T!CommitSOP1, PutSCC, PutExec, y
  <1>. QED BY <1>5, <1>7, <1>8, <1>9

\* An instruction that computes (scalar, branch, vector and LDS formats) and runs on
\* agreeing registers leaves agreeing registers, the same memory and the same LDS:
\* Prepare, ALUImpl.Run (src/emu/alu.go:47) and Commit of the emulator
\* (src/emu/scratchpadpreparer.go) against those of the timing model, which its
\* scalar, branch, SIMD and LDS units call in that order
\* (src/timing/cu/scratchpadpreparer.go).
THEOREM OneInstruction ==
  ASSUME NEW e, NEW c, Agree(e, c), NEW inst, WellFormed(inst), ~Sent(inst), NEW mem, NEW lds
  PROVE  LET a == Run(inst, [s |-> E!Prepare(e, inst), mem |-> mem, lds |-> lds])
             b == Run(inst, [s |-> T!Prepare(c, inst), mem |-> mem, lds |-> lds])
         IN  /\ Agree(E!Commit(e, inst, a.s), T!Commit(c, inst, b.s))
             /\ a.mem = b.mem /\ a.lds = b.lds
  <1>. DEFINE a == Run(inst, [s |-> E!Prepare(e, inst), mem |-> mem, lds |-> lds])
              b == Run(inst, [s |-> T!Prepare(c, inst), mem |-> mem, lds |-> lds])
  <1>1. CASE inst.fmt = "SOP1"
        <2>1. PICK src : /\ E!Prepare(e, inst) = Pad1(src, e.scc, e.exec, e.pc)
                         /\ T!Prepare(c, inst) = Pad1(src, e.scc, e.exec, 0)
              BY <1>1, PrepareSOP1Alike
        <2>2. inst.op # "S_GETPC_B64"
              BY <1>1 DEF WellFormed, WellFormedScalar, WellFormedVector, WellFormedMemory
        <2>. DEFINE r == RunSOP1(inst.op, Pad1(src, e.scc, e.exec, e.pc))
                    t == RunSOP1(inst.op, Pad1(src, e.scc, e.exec, 0))
        <2>3. r.dst = t.dst /\ r.exec = t.exec /\ r.scc = t.scc /\ r.pc = e.pc
              BY <2>2, SOP1IgnoresPC
        <2>4. a.s = r /\ b.s = t /\ a.mem = mem /\ b.mem = mem /\ a.lds = lds /\ b.lds = lds
              <3>1. \A s : Run(inst, [s |-> s, mem |-> mem, lds |-> lds])
                           = [[s |-> s, mem |-> mem, lds |-> lds] EXCEPT !.s = RunSOP1(inst.op, s)]
                    BY <1>1 DEF Run
              <3>. QED BY <2>1, <3>1
        <2>. HIDE DEF r, t
        <2>5. Agree(E!Commit(e, inst, r), T!Commit(c, inst, t))
              BY <1>1, <2>3, CommitSOP1Alike
        <2>. HIDE DEF a, b
        <2>6. /\ Agree(E!Commit(e, inst, a.s), T!Commit(c, inst, b.s))
              /\ a.mem = b.mem /\ a.lds = b.lds
              BY <2>4, <2>5
        <2>. QED BY <2>6 DEF a, b
  <1>2. CASE inst.fmt # "SOP1"
        <2>1. inst.fmt \in Formats  BY FormatOf
        <2>2. E!Prepare(e, inst) = T!Prepare(c, inst)
              BY <1>2, <2>1, PrepareScalar, PrepareSOPKAlike, PrepareVector, PrepareMemory
              DEF Formats
        <2>3. a = b  BY <2>2
        <2>4. \A s : Agree(E!Commit(e, inst, s), T!Commit(c, inst, s))
              BY <1>2, <2>1, CommitScalar, CommitLanes, CommitLDS DEF Formats, Sent
        <2>. HIDE DEF a, b
        <2>5. /\ Agree(E!Commit(e, inst, a.s), T!Commit(c, inst, b.s))
              /\ a.mem = b.mem /\ a.lds = b.lds
              BY <2>3, <2>4
        <2>. QED BY <2>5 DEF a, b
  <1>. QED BY <1>1, <1>2

-----------------------------------------------------------------------------
\* Every lane starts with its own part of the file.
LEMMA PlaceBack ==
  ASSUME NEW i \in Lanes, NEW n \in VRegs
  PROVE  (i * Size + n) \div Size = i /\ (i * Size + n) % Size = n
  <1>1. i \in Nat /\ Size \in Nat /\ n \in Nat /\ n < Size /\ i * Size \in Nat
        BY LaneType, SizeType
  <1>. DEFINE p == i * Size + n
              q == p \div Size
              r == p % Size
  <1>2. p \in Nat /\ Size > 0  BY <1>1
  <1>. HIDE DEF p
  <1>3. p = Size * q + r /\ q \in Int /\ r \in 0 .. Size - 1  BY <1>1, <1>2
  <1>4. q >= 0  BY <1>1, <1>2
  <1>. HIDE DEF q, r
  <1>5. ~(i < q)
        <2>1. ASSUME i < q PROVE FALSE
              <3>1. i * Size + Size <= q * Size  BY <1>1, <1>3, <1>4, <2>1, Multiples
              <3>2. q * Size = Size * q /\ q * Size \in Int  BY <1>1, <1>3
              <3>. QED BY <1>1, <1>3, <3>1, <3>2 DEF p
        <2>. QED BY <2>1
  <1>6. ~(q < i)
        <2>1. ASSUME q < i PROVE FALSE
              <3>1. q * Size + Size <= i * Size  BY <1>1, <1>3, <1>4, <2>1, Multiples
              <3>2. q * Size = Size * q /\ q * Size \in Int  BY <1>1, <1>3
              <3>. QED BY <1>1, <1>3, <3>1, <3>2 DEF p
        <2>. QED BY <2>1
  <1>7. q = i  BY <1>1, <1>3, <1>5, <1>6
  <1>8. Size * i = i * Size  BY <1>1
  <1>9. r = n  BY <1>1, <1>3, <1>7, <1>8 DEF p
  <1>. QED BY <1>7, <1>9 DEF q, r, p

\* The inductive invariant: the registers agree and have the shape of their files.
IInv == program \in Programs /\ done \in Nat /\ Agree(emu, cu)

LEMMA InitAgree == Init => IInv
  <1>. SUFFICES ASSUME Init PROVE IInv
       OBVIOUS
  <1>. DEFINE sreg == [n \in SRegs |-> ScalarInput(n)]
              vreg == [i \in Lanes |-> [n \in VRegs |-> VectorInput(i, n)]]
              file == [n \in VFile |-> VectorInput(n \div Size, n % Size)]
  <1>1. emu = [pc |-> Special.pc, m0 |-> Special.m0, exec |-> Special.exec, vcc |-> Special.vcc,
               scc |-> Special.scc, sreg |-> sreg, vreg |-> vreg]
        BY DEF Init
  <1>2. cu = [pc |-> Special.pc, m0 |-> Special.m0, exec |-> Special.exec, vcc |-> Special.vcc,
              scc |-> Special.scc, sOffset |-> 0, vOffset |-> 0, s |-> sreg, v |-> file]
        BY DEF Init, VFile, Size
  <1>3. \A i \in Lanes, n \in VRegs : vreg[i][n] = file[i * Size + n]
        <2>1. ASSUME NEW i \in Lanes, NEW n \in VRegs, NEW p \in VFile, p = i * Size + n
              PROVE  vreg[i][n] = file[p]
              <3>1. p \div Size = i /\ p % Size = n  BY <2>1, PlaceBack
              <3>2. file[p] = VectorInput(p \div Size, p % Size)  OBVIOUS
              <3>3. vreg[i][n] = VectorInput(i, n)  OBVIOUS
              <3>. HIDE DEF vreg, file
              <3>. QED BY <3>1, <3>2, <3>3
        <2>. HIDE DEF vreg, file
        <2>. QED BY <2>1, PlaceInFile
  <1>4. /\ sreg = [n \in SRegs |-> sreg[n]]
        /\ vreg = [i \in Lanes |-> vreg[i]]
        /\ \A i \in Lanes : vreg[i] = [n \in VRegs |-> vreg[i][n]]
        /\ file = [n \in VFile |-> file[n]]
        OBVIOUS
  <1>. HIDE DEF sreg, vreg, file
  <1>5. EmuShape(emu)  BY <1>1, <1>4 DEF EmuShape
  <1>6. CUShape(cu)  BY <1>2, <1>4 DEF CUShape
  <1>7. Same(emu, cu)  BY <1>1, <1>2, <1>3 DEF Same
  <1>. QED BY <1>5, <1>6, <1>7 DEF Init, IInv, Agree

LEMMA StepAgree == IInv /\ [Next]_vars => IInv'
  <1>. SUFFICES ASSUME IInv, [Next]_vars PROVE IInv'
       OBVIOUS
  <1>1. CASE Execute
        <2>. DEFINE inst == program.code[done + 1]
        <2>1. program \in Programs /\ done \in Nat /\ done < Len(program.code) /\ Agree(emu, cu)
              BY <1>1 DEF IInv, Execute
        <2>2. WellFormed(inst) /\ ~Sent(inst)
              <3>1. Len(program.code) \in Nat
                    /\ \A k \in 1 .. Len(program.code) :
                          WellFormed(program.code[k]) /\ ~Sent(program.code[k])
                    BY <2>1, ProgramsAssumption
              <3>2. done + 1 \in 1 .. Len(program.code)  BY <2>1, <3>1
              <3>. QED BY <3>1, <3>2
        <2>3. /\ emu' = E!Commit(emu, inst, Computed(inst, E!Prepare(emu, inst)))
              /\ cu' = T!Commit(cu, inst, Computed(inst, T!Prepare(cu, inst)))
              /\ done' = done + 1 /\ program' = program
              BY <1>1 DEF Execute
        <2>. HIDE DEF inst
        <2>4. Agree(E!Commit(emu, inst, Computed(inst, E!Prepare(emu, inst))),
                    T!Commit(cu, inst, Computed(inst, T!Prepare(cu, inst))))
              BY <2>1, <2>2, OneInstruction DEF Computed
        <2>5. Agree(emu', cu')  BY <2>3, <2>4
        <2>. QED BY <2>1, <2>3, <2>5 DEF IInv
  <1>2. CASE UNCHANGED vars
        BY <1>2 DEF vars, IInv
  <1>. QED BY <1>1, <1>2 DEF Next

LEMMA AgreeImplies == IInv => PreparersAgree
  <1>. SUFFICES ASSUME IInv PROVE PreparersAgree
       OBVIOUS
  <1>1. EmuShape(emu) /\ CUShape(cu) /\ Same(emu, cu)  BY DEF IInv, Agree
  <1>2. ASSUME NEW i \in Lanes, NEW n \in VRegs
        PROVE  <<emu.vreg[i][n]>> = T!ReadReg(cu, VReg(n, 1), i)
        <2>. DEFINE o == VReg(n, 1)
        <2>1. o.kind = "v" /\ o.n = n /\ o.count = 1  BY DEF VReg
        <2>. HIDE DEF o
        <2>2. n \in Nat /\ VRegs = 0 .. Size - 1  BY SizeType
        <2>3. E!Span(o) \subseteq VRegs  BY <2>1, <2>2 DEF E!Span, E!Count
        <2>4. IsVector(o)  BY <2>1, <2>2, <2>3 DEF IsVector, InFile
        <2>5. E!ReadReg(emu, o, i) = T!ReadReg(cu, o, i)  BY <2>4, VectorRead DEF IInv
        <2>6. E!ReadReg(emu, o, i) = <<emu.vreg[i][n]>>
              <3>1. E!ReadReg(emu, o, i) = [k \in 1 .. 1 |-> emu.vreg[i][n + k - 1]]
                    BY <2>1 DEF E!ReadReg, E!Count
              <3>2. \A k \in 1 .. 1 : n + k - 1 = n  BY <2>2
              <3>3. [k \in 1 .. 1 |-> emu.vreg[i][n + k - 1]] = [k \in 1 .. 1 |-> emu.vreg[i][n]]
                    BY <3>2
              <3>. QED BY <3>1, <3>3
        <2>. QED BY <2>5, <2>6 DEF o
  <1>. QED BY <1>1, <1>2 DEF Same, PreparersAgree

\* The emulator and the timing model have the same registers after every
\* instruction of every program: the two preparers, written twice, are one.
THEOREM PreparersAgreement == Spec => []PreparersAgree
  <1>1. Spec => []IInv  BY InitAgree, StepAgree, PTL DEF Spec
  <1>. QED BY <1>1, AgreeImplies, PTL

-----------------------------------------------------------------------------
\* Part 2: basic blocks.  A wave that has met num instructions, the first at start: its last block
\* began after `before' of them, at pc, and branch says that it ended; blocks are
\* the ones before it.  The counters of the timing model, of the basic block
\* vectors and of the sampled emulator, in this state.

AsFeature(num, start, before, pc, branch, blocks) ==
    [currentIns |-> num, startIns |-> before + 1, pc |-> pc, startPC |-> start,
     branch |-> branch, blocks |-> blocks]

AsBbv(num, start, before, pc, branch, blocks) ==
    [inited |-> TRUE, startPC |-> start, lastPC |-> pc, inscount |-> num,
     lastinscount |-> before + 1, branch |-> branch, blocks |-> blocks]

AsSample(num, start, before, pc, branch, blocks) ==
    [startPC |-> start, lastPC |-> pc - start, lastIns |-> before, currentIns |-> num,
     branch |-> branch, blocks |-> blocks]

\* what the next instruction, at pc, makes of the block at hand
Begun(num, before, start, q, branch, blocks, pc, before2, q2, blocks2) ==
    IF branch THEN /\ before2 = num /\ q2 = pc
                   /\ blocks2 = Append(blocks, Block(q - start, num - before))
              ELSE before2 = before /\ q2 = q /\ blocks2 = blocks

LEMMA EndsApart == ASSUME NEW inst PROVE ~(EndsBlock(inst) /\ EndsWave(inst))
  BY DEF EndsBlock, EndsWave

LEMMA EndsBoolean == ASSUME NEW inst PROVE EndsBlock(inst) \in BOOLEAN /\ EndsWave(inst) \in BOOLEAN
  BY DEF EndsBlock, EndsWave

\* The compute unit (branchtracer.go) and the profiler beside it
\* (branch_feature.go) count alike, in every state of their counters, though they
\* take the flag down and look for the end of the wave in another order.
THEOREM FeatureIsProfile ==
  ASSUME NEW f, NEW inst, NEW pc,
         f = [currentIns |-> f.currentIns, startIns |-> f.startIns, pc |-> f.pc,
              startPC |-> f.startPC, branch |-> f.branch, blocks |-> f.blocks]
  PROVE  CollectFeature(f, inst, pc) = CollectProfile(f, inst, pc)
  <1>1. ~(EndsBlock(inst) /\ EndsWave(inst))  BY EndsApart
  <1>. DEFINE counted == IF f.currentIns = 0
                   THEN [f EXCEPT !.pc = pc, !.startPC = pc, !.currentIns = 1, !.startIns = 1]
                   ELSE [f EXCEPT !.currentIns = @ + 1]
              flushed == IF f.branch THEN [FlushFeature(counted, pc) EXCEPT !.branch = FALSE]
                         ELSE counted
              flushedP == IF f.branch THEN FlushProfile([counted EXCEPT !.branch = FALSE], pc)
                          ELSE counted
  <1>2. counted = [currentIns |-> counted.currentIns, startIns |-> counted.startIns,
                   pc |-> counted.pc, startPC |-> counted.startPC, branch |-> counted.branch,
                   blocks |-> counted.blocks]
        OBVIOUS
  <1>3. flushed = flushedP
        <2>. HIDE DEF counted
        <2>. QED BY <1>2 DEF FlushFeature, FlushProfile
  <1>4. \A r, p : FlushFeature(r, p) = FlushProfile(r, p)
        BY DEF FlushFeature, FlushProfile
  <1>. HIDE DEF counted
  <1>5. CollectFeature(f, inst, pc)
        = CASE EndsBlock(inst) -> [flushed EXCEPT !.branch = TRUE]
            [] EndsWave(inst)  -> FlushFeature([flushed EXCEPT !.currentIns = @ + 1], pc)
            [] OTHER           -> flushed
        BY DEF CollectFeature, counted
  <1>6. CollectProfile(f, inst, pc)
        = CASE EndsWave(inst)  -> FlushProfile([flushedP EXCEPT !.currentIns = @ + 1], pc)
            [] EndsBlock(inst) -> [flushedP EXCEPT !.branch = TRUE]
            [] OTHER           -> flushedP
        BY DEF CollectProfile, counted
  <1>. HIDE DEF flushed, flushedP
  <1>7. CASE EndsBlock(inst)
        BY <1>1, <1>3, <1>5, <1>6, <1>7
  <1>8. CASE EndsWave(inst)
        BY <1>1, <1>3, <1>4, <1>5, <1>6, <1>8
  <1>9. CASE ~EndsBlock(inst) /\ ~EndsWave(inst)
        BY <1>3, <1>5, <1>6, <1>9
  <1>. QED BY <1>7, <1>8, <1>9


\* FlushFeature ends the block at hand
LEMMA FlushIs ==
  ASSUME NEW num \in Int, NEW start \in Int, NEW before \in Int, NEW q \in Int, NEW br, NEW bs,
         NEW pc
  PROVE  FlushFeature(AsFeature(num, start, before, q, br, bs), pc)
         = AsFeature(num, start, num - 1, pc, br, Append(bs, Block(q - start, num - (before + 1))))
  <1>. DEFINE more == Append(bs, Block(q - start, num - (before + 1)))
  <1>1. PICK f : f = AsFeature(num, start, before, q, br, bs)  OBVIOUS
  <1>2. /\ f.currentIns = num /\ f.startIns = before + 1 /\ f.pc = q /\ f.startPC = start
        /\ f.blocks = bs
        BY <1>1 DEF AsFeature
  <1>3. PICK d : d = FlushFeature(f, pc)  OBVIOUS
  <1>4. Append(f.blocks, Block(f.pc - f.startPC, f.currentIns - f.startIns)) = more
        BY <1>2
  <1>. HIDE DEF more
  <1>5. d = [f EXCEPT !.blocks = more, !.startIns = num, !.pc = pc]
        BY <1>2, <1>3, <1>4 DEF FlushFeature
  <1>6. num - 1 + 1 = num  OBVIOUS
  <1>7. d = AsFeature(num, start, num - 1, pc, br, more)
        BY <1>1, <1>5, <1>6 DEF AsFeature
  <1>. QED BY <1>1, <1>3, <1>7 DEF more

\* what an instruction makes of a counter: next, or the end of the wave with the blocks
Goes(counter, next, blocks, inst) ==
    /\ ~EndsWave(inst) => counter = next
    /\ EndsWave(inst) => counter.blocks = blocks

\* what the compute unit's counter does, as a choice between records
LEMMA FeatureStep ==
  ASSUME NEW k \in Nat \ {0}, NEW a \in 0 .. k, NEW start \in Int, NEW q \in Int,
         NEW br \in BOOLEAN, NEW bs, NEW inst, NEW pc \in Int,
         NEW a2, NEW q2, NEW bs2,
         Begun(k, a, start, q, br, bs, pc, a2, q2, bs2)
  PROVE  Goes(CollectFeature(AsFeature(k, start, a, q, br, bs), inst, pc),
              AsFeature(k + 1, start, a2, q2, EndsBlock(inst), bs2),
              Append(bs2, Block(q2 - start, k + 1 - a2)), inst)
  <1>. DEFINE f == AsFeature(k, start, a, q, br, bs)
              counted == IF f.currentIns = 0
                   THEN [f EXCEPT !.pc = pc, !.startPC = pc, !.currentIns = 1, !.startIns = 1]
                   ELSE [f EXCEPT !.currentIns = @ + 1]
              flushed == IF f.branch THEN [FlushFeature(counted, pc) EXCEPT !.branch = FALSE]
                         ELSE counted
              ended == [flushed EXCEPT !.currentIns = @ + 1]
  <1>0. /\ br = TRUE => a2 = k /\ q2 = pc /\ bs2 = Append(bs, Block(q - start, k - a))
        /\ br = FALSE => a2 = a /\ q2 = q /\ bs2 = bs
        /\ a2 \in Int /\ q2 \in Int
        BY DEF Begun
  <1>1. ~(EndsBlock(inst) /\ EndsWave(inst)) /\ EndsBlock(inst) \in BOOLEAN
        BY EndsApart, EndsBoolean
  <1>2. counted = AsFeature(k + 1, start, a, q, br, bs)
        <2>1. f.currentIns = k /\ k # 0  BY DEF AsFeature
        <2>2. counted = [f EXCEPT !.currentIns = k + 1]  BY <2>1
        <2>. HIDE DEF counted
        <2>. QED BY <2>2 DEF AsFeature
  <1>3. f.branch = br  BY DEF AsFeature
  <1>4. CollectFeature(f, inst, pc)
        = CASE EndsBlock(inst) -> [flushed EXCEPT !.branch = TRUE]
            [] EndsWave(inst)  -> FlushFeature(ended, pc)
            [] OTHER           -> flushed
        <2>. HIDE DEF f
        <2>. QED BY DEF CollectFeature
  <1>. HIDE DEF f, counted
  <1>5. flushed = AsFeature(k + 1, start, a2, q2, FALSE, bs2)
        <2>1. CASE br = TRUE
              <3>1. k + 1 - (a + 1) = k - a  OBVIOUS
              <3>2. PICK d : d = FlushFeature(counted, pc)  OBVIOUS
              <3>3. d = AsFeature(k + 1, start, k, pc, TRUE, Append(bs, Block(q - start, k - a)))
                    <4>1. k + 1 \in Int /\ k + 1 - 1 = k /\ a \in Int  OBVIOUS
                    <4>2. d = AsFeature(k + 1, start, k + 1 - 1, pc, br,
                                        Append(bs, Block(q - start, k + 1 - (a + 1))))
                          BY <1>2, <3>2, <4>1, FlushIs
                    <4>. QED BY <1>0, <2>1, <3>1, <4>1, <4>2
              <3>4. flushed = [d EXCEPT !.branch = FALSE]  BY <1>3, <2>1, <3>2
              <3>. HIDE DEF flushed
              <3>5. flushed = AsFeature(k + 1, start, k, pc, FALSE,
                                        Append(bs, Block(q - start, k - a)))
                    BY <3>3, <3>4 DEF AsFeature
              <3>. QED BY <1>0, <2>1, <3>5
        <2>2. CASE br = FALSE
              BY <1>0, <1>2, <1>3, <2>2
        <2>. QED BY <2>1, <2>2
  <1>. HIDE DEF flushed
  <1>6. ASSUME ~EndsWave(inst)
        PROVE  CollectFeature(f, inst, pc) = AsFeature(k + 1, start, a2, q2, EndsBlock(inst), bs2)
        <2>1. CASE EndsBlock(inst) = TRUE
              <3>1. PICK d : d = [flushed EXCEPT !.branch = TRUE]  OBVIOUS
              <3>2. CollectFeature(f, inst, pc) = d  BY <1>1, <1>4, <2>1, <3>1
              <3>3. d = AsFeature(k + 1, start, a2, q2, TRUE, bs2)
                    BY <1>5, <3>1 DEF AsFeature
              <3>. QED BY <2>1, <3>2, <3>3
        <2>2. CASE EndsBlock(inst) = FALSE
              <3>1. CollectFeature(f, inst, pc) = flushed  BY <1>4, <1>6, <2>2
              <3>. QED BY <1>5, <2>2, <3>1
        <2>. QED BY <1>1, <2>1, <2>2
  <1>7. ASSUME EndsWave(inst)
        PROVE  CollectFeature(f, inst, pc).blocks = Append(bs2, Block(q2 - start, k + 1 - a2))
        <2>1. CollectFeature(f, inst, pc) = FlushFeature(ended, pc)  BY <1>1, <1>4, <1>7
        <2>2. ended = AsFeature(k + 1 + 1, start, a2, q2, FALSE, bs2)
              <3>1. flushed.currentIns = k + 1  BY <1>5 DEF AsFeature
              <3>2. ended = [flushed EXCEPT !.currentIns = k + 1 + 1]  BY <3>1
              <3>. HIDE DEF ended
              <3>. QED BY <1>5, <3>2 DEF AsFeature
        <2>3. a2 \in Int  BY <1>0
        <2>4. k + 1 + 1 - (a2 + 1) = k + 1 - a2  BY <2>3
        <2>. HIDE DEF ended
        <2>5. FlushFeature(ended, pc).blocks = Append(bs2, Block(q2 - start, k + 1 + 1 - (a2 + 1)))
              <3>1. PICK n2 \in Int : n2 = k + 1 + 1  OBVIOUS
              <3>2. PICK no \in BOOLEAN : no = FALSE  OBVIOUS
              <3>6. q2 \in Int  BY <1>0
              <3>4. FlushFeature(AsFeature(n2, start, a2, q2, no, bs2), pc)
                    = AsFeature(n2, start, n2 - 1, pc, no,
                                Append(bs2, Block(q2 - start, n2 - (a2 + 1))))
                    BY <2>3, <3>6, FlushIs
              <3>5. ended = AsFeature(n2, start, a2, q2, no, bs2)  BY <2>2, <3>1, <3>2
              <3>3. \A n, s, b, p, e, bl : AsFeature(n, s, b, p, e, bl).blocks = bl
                    BY DEF AsFeature
              <3>7. PICK g : g = FlushFeature(ended, pc)  OBVIOUS
              <3>8. PICK more : more = Append(bs2, Block(q2 - start, n2 - (a2 + 1)))  OBVIOUS
              <3>9. g = AsFeature(n2, start, n2 - 1, pc, no, more)  BY <3>4, <3>5, <3>7, <3>8
              <3>10. g.blocks = more  BY <3>3, <3>9
              <3>. QED BY <1>0, <3>1, <3>7, <3>8, <3>10
        <2>. QED BY <2>1, <2>4, <2>5
  <1>. QED BY <1>6, <1>7 DEF f, Goes

\* the same of the basic block vectors
LEMMA BbvStep ==
  ASSUME NEW k \in Nat \ {0}, NEW a \in 0 .. k, NEW start \in Int, NEW q \in Int,
         NEW br \in BOOLEAN, NEW bs, NEW inst, NEW pc \in Int,
         NEW a2, NEW q2, NEW bs2,
         Begun(k, a, start, q, br, bs, pc, a2, q2, bs2)
  PROVE  Goes(CountInst(AsBbv(k, start, a, q, br, bs), inst, pc),
              AsBbv(k + 1, start, a2, q2, EndsBlock(inst), bs2),
              Append(bs2, Block(q2 - start, k + 1 - a2)), inst)
  <1>. DEFINE b == AsBbv(k, start, a, q, br, bs)
              counted == IF ~b.inited
                   THEN [b EXCEPT !.startPC = pc, !.lastPC = pc, !.inited = TRUE,
                                  !.branch = FALSE, !.inscount = 1, !.lastinscount = 1]
                   ELSE [b EXCEPT !.inscount = @ + 1]
              flushed == IF counted.branch
                   THEN [counted EXCEPT !.branch = FALSE, !.blocks = CountBlock(counted),
                                        !.lastinscount = counted.inscount, !.lastPC = pc]
                   ELSE counted
              ended == [flushed EXCEPT !.inscount = @ + 1]
  <1>0. /\ br = TRUE => a2 = k /\ q2 = pc /\ bs2 = Append(bs, Block(q - start, k - a))
        /\ br = FALSE => a2 = a /\ q2 = q /\ bs2 = bs
        /\ a2 \in Int /\ q2 \in Int
        BY DEF Begun
  <1>1. ~(EndsBlock(inst) /\ EndsWave(inst)) /\ EndsBlock(inst) \in BOOLEAN
        BY EndsApart, EndsBoolean
  <1>2. counted = AsBbv(k + 1, start, a, q, br, bs)
        <2>1. b.inited = TRUE /\ b.inscount = k  BY DEF AsBbv
        <2>2. counted = [b EXCEPT !.inscount = k + 1]  BY <2>1
        <2>. HIDE DEF counted
        <2>. QED BY <2>2 DEF AsBbv
  <1>3. CountInst(b, inst, pc)
        = CASE EndsBlock(inst) -> [flushed EXCEPT !.branch = TRUE]
            [] EndsWave(inst)  -> [ended EXCEPT !.blocks = CountBlock(ended)]
            [] OTHER           -> flushed
        <2>. HIDE DEF b
        <2>. QED BY DEF CountInst
  <1>. HIDE DEF b, counted
  <1>4. /\ counted.branch = br /\ counted.blocks = bs /\ counted.lastPC = q
        /\ counted.startPC = start /\ counted.inscount = k + 1 /\ counted.lastinscount = a + 1
        BY <1>2 DEF AsBbv
  <1>5. flushed = AsBbv(k + 1, start, a2, q2, FALSE, bs2)
        <2>1. CASE br = TRUE
              <3>. DEFINE more == Append(bs, Block(q - start, k - a))
              <3>1. k + 1 - (a + 1) = k - a  OBVIOUS
              <3>2. CountBlock(counted) = more  BY <1>4, <3>1 DEF CountBlock
              <3>. HIDE DEF more
              <3>3. flushed = [counted EXCEPT !.branch = FALSE, !.blocks = more,
                                              !.lastinscount = k + 1, !.lastPC = pc]
                    BY <1>4, <2>1, <3>2
              <3>. HIDE DEF flushed
              <3>4. flushed = AsBbv(k + 1, start, k, pc, FALSE, more)
                    BY <1>2, <3>3 DEF AsBbv
              <3>. QED BY <1>0, <2>1, <3>4 DEF more
        <2>2. CASE br = FALSE
              BY <1>0, <1>2, <1>4, <2>2
        <2>. QED BY <2>1, <2>2
  <1>. HIDE DEF flushed
  <1>6. ASSUME ~EndsWave(inst)
        PROVE  CountInst(b, inst, pc) = AsBbv(k + 1, start, a2, q2, EndsBlock(inst), bs2)
        <2>1. CASE EndsBlock(inst) = TRUE
              <3>1. PICK d : d = [flushed EXCEPT !.branch = TRUE]  OBVIOUS
              <3>2. CountInst(b, inst, pc) = d  BY <1>1, <1>3, <2>1, <3>1
              <3>3. d = AsBbv(k + 1, start, a2, q2, TRUE, bs2)
                    BY <1>5, <3>1 DEF AsBbv
              <3>. QED BY <2>1, <3>2, <3>3
        <2>2. CASE EndsBlock(inst) = FALSE
              <3>1. CountInst(b, inst, pc) = flushed  BY <1>3, <1>6, <2>2
              <3>. QED BY <1>5, <2>2, <3>1
        <2>. QED BY <1>1, <2>1, <2>2
  <1>7. ASSUME EndsWave(inst)
        PROVE  CountInst(b, inst, pc).blocks = Append(bs2, Block(q2 - start, k + 1 - a2))
        <2>. DEFINE more == Append(bs2, Block(q2 - start, k + 1 - a2))
        <2>1. CountInst(b, inst, pc) = [ended EXCEPT !.blocks = CountBlock(ended)]
              BY <1>1, <1>3, <1>7
        <2>2. ended = AsBbv(k + 1 + 1, start, a2, q2, FALSE, bs2)
              <3>1. flushed.inscount = k + 1  BY <1>5 DEF AsBbv
              <3>2. ended = [flushed EXCEPT !.inscount = k + 1 + 1]  BY <3>1
              <3>. HIDE DEF ended
              <3>. QED BY <1>5, <3>2 DEF AsBbv
        <2>. HIDE DEF ended
        <2>3. a2 \in Int  BY <1>0
        <2>4. k + 1 + 1 - (a2 + 1) = k + 1 - a2  BY <2>3
        <2>5. CountBlock(ended) = more
              <3>1. /\ ended.blocks = bs2 /\ ended.lastPC = q2 /\ ended.startPC = start
                    /\ ended.inscount = k + 1 + 1 /\ ended.lastinscount = a2 + 1
                    BY <2>2 DEF AsBbv
              <3>. QED BY <1>0, <3>1, <2>4 DEF CountBlock
        <2>. HIDE DEF more
        <2>6. [ended EXCEPT !.blocks = more].blocks = more
              <3>1. "blocks" \in DOMAIN ended  BY <2>2 DEF AsBbv
              <3>. QED BY <3>1
        <2>7. CountInst(b, inst, pc).blocks = more  BY <2>1, <2>5, <2>6
        <2>. QED BY <2>7 DEF more
  <1>. QED BY <1>6, <1>7 DEF b, Goes

\* the same of the sampled emulator, which counts from 0
LEMMA SampleStep ==
  ASSUME NEW k \in Nat \ {0}, NEW a \in 0 .. k, NEW start \in Int, NEW q \in Int,
         NEW br \in BOOLEAN, NEW bs, NEW inst, NEW pc \in Int,
         NEW a2, NEW q2, NEW bs2,
         Begun(k, a, start, q, br, bs, pc, a2, q2, bs2)
  PROVE  Goes(SampleInst(AsSample(k, start, a, q, br, bs), inst, pc),
              AsSample(k + 1, start, a2, q2, EndsBlock(inst), bs2),
              Append(bs2, Block(q2 - start, k + 1 - a2)), inst)
  <1>. DEFINE p == AsSample(k, start, a, q, br, bs)
              flushed == IF p.branch
                   THEN [p EXCEPT !.blocks = SampleBlock(p), !.lastPC = pc - p.startPC,
                                  !.lastIns = p.currentIns, !.branch = FALSE]
                   ELSE p
              counted == [flushed EXCEPT !.currentIns = @ + 1]
  <1>0. /\ br = TRUE => a2 = k /\ q2 = pc /\ bs2 = Append(bs, Block(q - start, k - a))
        /\ br = FALSE => a2 = a /\ q2 = q /\ bs2 = bs
        /\ a2 \in Int /\ q2 \in Int
        BY DEF Begun
  <1>1. ~(EndsBlock(inst) /\ EndsWave(inst)) /\ EndsBlock(inst) \in BOOLEAN
        BY EndsApart, EndsBoolean
  <1>2. SampleInst(p, inst, pc)
        = CASE EndsBlock(inst) -> [counted EXCEPT !.branch = TRUE]
            [] EndsWave(inst)  -> [counted EXCEPT !.blocks = SampleBlock(counted)]
            [] OTHER           -> counted
        <2>. HIDE DEF p
        <2>. QED BY DEF SampleInst
  <1>3. /\ p.branch = br /\ p.blocks = bs /\ p.lastPC = q - start
        /\ p.startPC = start /\ p.currentIns = k /\ p.lastIns = a
        BY DEF AsSample
  <1>4. p = AsSample(k, start, a, q, br, bs)  OBVIOUS
  <1>. HIDE DEF p
  <1>5. flushed = AsSample(k, start, a2, q2, FALSE, bs2)
        <2>1. CASE br = TRUE
              <3>. DEFINE more == Append(bs, Block(q - start, k - a))
              <3>1. SampleBlock(p) = more  BY <1>3 DEF SampleBlock
              <3>. HIDE DEF more
              <3>2. flushed = [p EXCEPT !.blocks = more, !.lastPC = pc - start, !.lastIns = k,
                                        !.branch = FALSE]
                    BY <1>3, <2>1, <3>1
              <3>. HIDE DEF flushed
              <3>3. flushed = AsSample(k, start, k, pc, FALSE, more)
                    BY <1>4, <3>2 DEF AsSample
              <3>. QED BY <1>0, <2>1, <3>3 DEF more
        <2>2. CASE br = FALSE
              BY <1>0, <1>3, <1>4, <2>2
        <2>. QED BY <2>1, <2>2
  <1>. HIDE DEF flushed
  <1>6. counted = AsSample(k + 1, start, a2, q2, FALSE, bs2)
        <2>1. flushed.currentIns = k  BY <1>5 DEF AsSample
        <2>2. counted = [flushed EXCEPT !.currentIns = k + 1]  BY <2>1
        <2>. HIDE DEF counted
        <2>. QED BY <1>5, <2>2 DEF AsSample
  <1>. HIDE DEF counted
  <1>7. ASSUME ~EndsWave(inst)
        PROVE  SampleInst(p, inst, pc) = AsSample(k + 1, start, a2, q2, EndsBlock(inst), bs2)
        <2>1. CASE EndsBlock(inst) = TRUE
              <3>1. PICK d : d = [counted EXCEPT !.branch = TRUE]  OBVIOUS
              <3>2. SampleInst(p, inst, pc) = d  BY <1>1, <1>2, <2>1, <3>1
              <3>3. d = AsSample(k + 1, start, a2, q2, TRUE, bs2)
                    BY <1>6, <3>1 DEF AsSample
              <3>. QED BY <2>1, <3>2, <3>3
        <2>2. CASE EndsBlock(inst) = FALSE
              <3>1. SampleInst(p, inst, pc) = counted  BY <1>2, <1>7, <2>2
              <3>. QED BY <1>6, <2>2, <3>1
        <2>. QED BY <1>1, <2>1, <2>2
  <1>8. ASSUME EndsWave(inst)
        PROVE  SampleInst(p, inst, pc).blocks = Append(bs2, Block(q2 - start, k + 1 - a2))
        <2>. DEFINE more == Append(bs2, Block(q2 - start, k + 1 - a2))
        <2>1. SampleInst(p, inst, pc) = [counted EXCEPT !.blocks = SampleBlock(counted)]
              BY <1>1, <1>2, <1>8
        <2>2. SampleBlock(counted) = more
              <3>1. /\ counted.blocks = bs2 /\ counted.lastPC = q2 - start
                    /\ counted.currentIns = k + 1 /\ counted.lastIns = a2
                    BY <1>6 DEF AsSample
              <3>. QED BY <1>0, <3>1 DEF SampleBlock
        <2>. HIDE DEF more
        <2>3. [counted EXCEPT !.blocks = more].blocks = more
              <3>1. "blocks" \in DOMAIN counted  BY <1>6 DEF AsSample
              <3>. QED BY <3>1
        <2>4. SampleInst(p, inst, pc).blocks = more  BY <2>1, <2>2, <2>3
        <2>. QED BY <2>4 DEF more
  <1>. QED BY <1>7, <1>8 DEF p, Goes

\* the first instruction, met by a counter that was just made
LEMMA FeatureFirst ==
  ASSUME NEW inst, NEW pc \in Int
  PROVE  /\ ~EndsWave(inst) => CollectFeature(FreshFeature, inst, pc)
                = AsFeature(1, pc, 0, pc, EndsBlock(inst), <<>>)
         /\ EndsWave(inst) => CollectFeature(FreshFeature, inst, pc).blocks
                = Append(<<>>, Block(pc - pc, 1 - 0))
  <1>. DEFINE f == FreshFeature
              counted == IF f.currentIns = 0
                   THEN [f EXCEPT !.pc = pc, !.startPC = pc, !.currentIns = 1, !.startIns = 1]
                   ELSE [f EXCEPT !.currentIns = @ + 1]
              flushed == IF f.branch THEN [FlushFeature(counted, pc) EXCEPT !.branch = FALSE]
                         ELSE counted
              ended == [flushed EXCEPT !.currentIns = @ + 1]
  <1>1. ~(EndsBlock(inst) /\ EndsWave(inst)) /\ EndsBlock(inst) \in BOOLEAN
        BY EndsApart, EndsBoolean
  <1>2. counted = AsFeature(1, pc, 0, pc, FALSE, <<>>)
        <2>1. PICK g : g = FreshFeature  OBVIOUS
        <2>2. g.currentIns = 0  BY <2>1 DEF FreshFeature
        <2>3. counted = [g EXCEPT !.pc = pc, !.startPC = pc, !.currentIns = 1, !.startIns = 1]
              BY <2>1, <2>2
        <2>4. 0 + 1 = 1  OBVIOUS
        <2>. HIDE DEF counted
        <2>. QED BY <2>1, <2>3, <2>4 DEF AsFeature, FreshFeature
  <1>3. f.branch = FALSE  BY DEF FreshFeature
  <1>4. CollectFeature(f, inst, pc)
        = CASE EndsBlock(inst) -> [flushed EXCEPT !.branch = TRUE]
            [] EndsWave(inst)  -> FlushFeature(ended, pc)
            [] OTHER           -> flushed
        <2>. HIDE DEF f
        <2>. QED BY DEF CollectFeature
  <1>. HIDE DEF f, counted
  <1>5. flushed = AsFeature(1, pc, 0, pc, FALSE, <<>>)  BY <1>2, <1>3
  <1>. HIDE DEF flushed
  <1>6. ASSUME ~EndsWave(inst)
        PROVE  CollectFeature(f, inst, pc) = AsFeature(1, pc, 0, pc, EndsBlock(inst), <<>>)
        <2>1. CASE EndsBlock(inst) = TRUE
              <3>1. PICK d : d = [flushed EXCEPT !.branch = TRUE]  OBVIOUS
              <3>2. CollectFeature(f, inst, pc) = d  BY <1>1, <1>4, <2>1, <3>1
              <3>3. d = AsFeature(1, pc, 0, pc, TRUE, <<>>)  BY <1>5, <3>1 DEF AsFeature
              <3>. QED BY <2>1, <3>2, <3>3
        <2>2. CASE EndsBlock(inst) = FALSE
              <3>1. CollectFeature(f, inst, pc) = flushed  BY <1>4, <1>6, <2>2
              <3>. QED BY <1>5, <2>2, <3>1
        <2>. QED BY <1>1, <2>1, <2>2
  <1>7. ASSUME EndsWave(inst)
        PROVE  CollectFeature(f, inst, pc).blocks = Append(<<>>, Block(pc - pc, 1 - 0))
        <2>1. CollectFeature(f, inst, pc) = FlushFeature(ended, pc)  BY <1>1, <1>4, <1>7
        <2>2. ended = AsFeature(2, pc, 0, pc, FALSE, <<>>)
              <3>1. flushed.currentIns = 1 /\ 1 + 1 = 2  BY <1>5 DEF AsFeature
              <3>2. ended = [flushed EXCEPT !.currentIns = 2]  BY <3>1
              <3>. HIDE DEF ended
              <3>. QED BY <1>5, <3>2 DEF AsFeature
        <2>. HIDE DEF ended
        <2>3. PICK no \in BOOLEAN : no = FALSE  OBVIOUS
        <2>4. PICK bs : bs = <<>>  OBVIOUS
        <2>5. PICK more : more = Append(bs, Block(pc - pc, 2 - (0 + 1)))  OBVIOUS
        <2>6. FlushFeature(AsFeature(2, pc, 0, pc, no, bs), pc)
              = AsFeature(2, pc, 2 - 1, pc, no, Append(bs, Block(pc - pc, 2 - (0 + 1))))
              BY FlushIs
        <2>7. PICK g : g = FlushFeature(ended, pc)  OBVIOUS
        <2>8. g = AsFeature(2, pc, 2 - 1, pc, no, more)  BY <2>2, <2>3, <2>4, <2>5, <2>6, <2>7
        <2>9. g.blocks = more
              <3>1. \A x1, x2, x3, x4, x5, x6 : AsFeature(x1, x2, x3, x4, x5, x6).blocks = x6
                    BY DEF AsFeature
              <3>. QED BY <2>8, <3>1
        <2>10. 2 - (0 + 1) = 1 - 0  OBVIOUS
        <2>. QED BY <2>1, <2>4, <2>5, <2>7, <2>9, <2>10
  <1>. QED BY <1>6, <1>7 DEF f

LEMMA BbvFirst ==
  ASSUME NEW inst, NEW pc \in Int
  PROVE  /\ ~EndsWave(inst) => CountInst(FreshBbv, inst, pc)
                = AsBbv(1, pc, 0, pc, EndsBlock(inst), <<>>)
         /\ EndsWave(inst) => CountInst(FreshBbv, inst, pc).blocks
                = Append(<<>>, Block(pc - pc, 1 - 0))
  <1>. DEFINE b == FreshBbv
              counted == IF ~b.inited
                   THEN [b EXCEPT !.startPC = pc, !.lastPC = pc, !.inited = TRUE,
                                  !.branch = FALSE, !.inscount = 1, !.lastinscount = 1]
                   ELSE [b EXCEPT !.inscount = @ + 1]
              flushed == IF counted.branch
                   THEN [counted EXCEPT !.branch = FALSE, !.blocks = CountBlock(counted),
                                        !.lastinscount = counted.inscount, !.lastPC = pc]
                   ELSE counted
              ended == [flushed EXCEPT !.inscount = @ + 1]
  <1>1. ~(EndsBlock(inst) /\ EndsWave(inst)) /\ EndsBlock(inst) \in BOOLEAN
        BY EndsApart, EndsBoolean
  <1>2. counted = AsBbv(1, pc, 0, pc, FALSE, <<>>)
        <2>1. PICK g : g = FreshBbv  OBVIOUS
        <2>2. g.inited = FALSE  BY <2>1 DEF FreshBbv
        <2>3. counted = [g EXCEPT !.startPC = pc, !.lastPC = pc, !.inited = TRUE,
                                  !.branch = FALSE, !.inscount = 1, !.lastinscount = 1]
              BY <2>1, <2>2
        <2>4. 0 + 1 = 1  OBVIOUS
        <2>. HIDE DEF counted
        <2>. QED BY <2>1, <2>3, <2>4 DEF AsBbv, FreshBbv
  <1>3. CountInst(b, inst, pc)
        = CASE EndsBlock(inst) -> [flushed EXCEPT !.branch = TRUE]
            [] EndsWave(inst)  -> [ended EXCEPT !.blocks = CountBlock(ended)]
            [] OTHER           -> flushed
        <2>. HIDE DEF b
        <2>. QED BY DEF CountInst
  <1>. HIDE DEF b, counted
  <1>4. counted.branch = FALSE  BY <1>2 DEF AsBbv
  <1>5. flushed = AsBbv(1, pc, 0, pc, FALSE, <<>>)  BY <1>2, <1>4
  <1>. HIDE DEF flushed
  <1>6. ASSUME ~EndsWave(inst)
        PROVE  CountInst(b, inst, pc) = AsBbv(1, pc, 0, pc, EndsBlock(inst), <<>>)
        <2>1. CASE EndsBlock(inst) = TRUE
              <3>1. PICK d : d = [flushed EXCEPT !.branch = TRUE]  OBVIOUS
              <3>2. CountInst(b, inst, pc) = d  BY <1>1, <1>3, <2>1, <3>1
              <3>3. d = AsBbv(1, pc, 0, pc, TRUE, <<>>)  BY <1>5, <3>1 DEF AsBbv
              <3>. QED BY <2>1, <3>2, <3>3
        <2>2. CASE EndsBlock(inst) = FALSE
              <3>1. CountInst(b, inst, pc) = flushed  BY <1>3, <1>6, <2>2
              <3>. QED BY <1>5, <2>2, <3>1
        <2>. QED BY <1>1, <2>1, <2>2
  <1>7. ASSUME EndsWave(inst)
        PROVE  CountInst(b, inst, pc).blocks = Append(<<>>, Block(pc - pc, 1 - 0))
        <2>. DEFINE more == Append(<<>>, Block(pc - pc, 1 - 0))
        <2>1. CountInst(b, inst, pc) = [ended EXCEPT !.blocks = CountBlock(ended)]
              BY <1>1, <1>3, <1>7
        <2>2. ended = AsBbv(2, pc, 0, pc, FALSE, <<>>)
              <3>1. flushed.inscount = 1 /\ 1 + 1 = 2  BY <1>5 DEF AsBbv
              <3>2. ended = [flushed EXCEPT !.inscount = 2]  BY <3>1
              <3>. HIDE DEF ended
              <3>. QED BY <1>5, <3>2 DEF AsBbv
        <2>. HIDE DEF ended
        <2>3. CountBlock(ended) = more
              <3>1. /\ ended.blocks = <<>> /\ ended.lastPC = pc /\ ended.startPC = pc
                    /\ ended.inscount = 2 /\ ended.lastinscount = 0 + 1
                    BY <2>2 DEF AsBbv
              <3>2. 2 - (0 + 1) = 1 - 0  OBVIOUS
              <3>. QED BY <3>1, <3>2 DEF CountBlock
        <2>. HIDE DEF more
        <2>4. [ended EXCEPT !.blocks = more].blocks = more
              <3>1. "blocks" \in DOMAIN ended  BY <2>2 DEF AsBbv
              <3>. QED BY <3>1
        <2>5. CountInst(b, inst, pc).blocks = more  BY <2>1, <2>3, <2>4
        <2>. QED BY <2>5 DEF more
  <1>. QED BY <1>6, <1>7 DEF b

LEMMA SampleFirst ==
  ASSUME NEW inst, NEW pc \in Int
  PROVE  /\ ~EndsWave(inst) => SampleInst(FreshSample(pc), inst, pc)
                = AsSample(1, pc, 0, pc, EndsBlock(inst), <<>>)
         /\ EndsWave(inst) => SampleInst(FreshSample(pc), inst, pc).blocks
                = Append(<<>>, Block(pc - pc, 1 - 0))
  <1>. DEFINE p == FreshSample(pc)
              flushed == IF p.branch
                   THEN [p EXCEPT !.blocks = SampleBlock(p), !.lastPC = pc - p.startPC,
                                  !.lastIns = p.currentIns, !.branch = FALSE]
                   ELSE p
              counted == [flushed EXCEPT !.currentIns = @ + 1]
  <1>1. ~(EndsBlock(inst) /\ EndsWave(inst)) /\ EndsBlock(inst) \in BOOLEAN
        BY EndsApart, EndsBoolean
  <1>2. SampleInst(p, inst, pc)
        = CASE EndsBlock(inst) -> [counted EXCEPT !.branch = TRUE]
            [] EndsWave(inst)  -> [counted EXCEPT !.blocks = SampleBlock(counted)]
            [] OTHER           -> counted
        <2>. HIDE DEF p
        <2>. QED BY DEF SampleInst
  <1>3. p.branch = FALSE  BY DEF FreshSample
  <1>4. p = AsSample(0, pc, 0, pc, FALSE, <<>>)
        <2>1. pc - pc = 0  OBVIOUS
        <2>. QED BY <2>1 DEF AsSample, FreshSample
  <1>. HIDE DEF p
  <1>5. flushed = p  BY <1>3
  <1>. HIDE DEF flushed
  <1>6. counted = AsSample(1, pc, 0, pc, FALSE, <<>>)
        <2>1. flushed.currentIns = 0 /\ 0 + 1 = 1  BY <1>4, <1>5 DEF AsSample
        <2>2. counted = [flushed EXCEPT !.currentIns = 1]  BY <2>1
        <2>. HIDE DEF counted
        <2>. QED BY <1>4, <1>5, <2>2 DEF AsSample
  <1>. HIDE DEF counted
  <1>7. ASSUME ~EndsWave(inst)
        PROVE  SampleInst(p, inst, pc) = AsSample(1, pc, 0, pc, EndsBlock(inst), <<>>)
        <2>1. CASE EndsBlock(inst) = TRUE
              <3>1. PICK d : d = [counted EXCEPT !.branch = TRUE]  OBVIOUS
              <3>2. SampleInst(p, inst, pc) = d  BY <1>1, <1>2, <2>1, <3>1
              <3>3. d = AsSample(1, pc, 0, pc, TRUE, <<>>)  BY <1>6, <3>1 DEF AsSample
              <3>. QED BY <2>1, <3>2, <3>3
        <2>2. CASE EndsBlock(inst) = FALSE
              <3>1. SampleInst(p, inst, pc) = counted  BY <1>2, <1>7, <2>2
              <3>. QED BY <1>6, <2>2, <3>1
        <2>. QED BY <1>1, <2>1, <2>2
  <1>8. ASSUME EndsWave(inst)
        PROVE  SampleInst(p, inst, pc).blocks = Append(<<>>, Block(pc - pc, 1 - 0))
        <2>. DEFINE more == Append(<<>>, Block(pc - pc, 1 - 0))
        <2>1. SampleInst(p, inst, pc) = [counted EXCEPT !.blocks = SampleBlock(counted)]
              BY <1>1, <1>2, <1>8
        <2>2. SampleBlock(counted) = more
              <3>1. /\ counted.blocks = <<>> /\ counted.lastPC = pc - pc
                    /\ counted.currentIns = 1 /\ counted.lastIns = 0
                    BY <1>6 DEF AsSample
              <3>. QED BY <3>1 DEF SampleBlock
        <2>. HIDE DEF more
        <2>3. [counted EXCEPT !.blocks = more].blocks = more
              <3>1. "blocks" \in DOMAIN counted  BY <1>6 DEF AsSample
              <3>. QED BY <3>1
        <2>4. SampleInst(p, inst, pc).blocks = more  BY <2>1, <2>2, <2>3
        <2>. QED BY <2>4 DEF more
  <1>. QED BY <1>7, <1>8 DEF p

-----------------------------------------------------------------------------
\* A trace: the instructions that a wave met, the i-th one trace[i].inst at
\* trace[i].pc, of which only the n-th may be its last.

IsTrace(trace, n) ==
    /\ \A k \in 1 .. n : trace[k].pc \in Int
    /\ \A k \in 1 .. n - 1 : ~EndsWave(trace[k].inst)

\* b is the block of the trace that runs from its i-th to its m-th instruction
IsCut(trace, n, b, i, m) ==
    /\ i \in 1 .. n /\ m \in i .. n
    /\ b = Block(trace[i].pc - trace[1].pc, m - (i - 1))
    /\ i = 1 \/ EndsBlock(trace[i - 1].inst)
    /\ \A j \in i .. m - 1 : ~EndsBlock(trace[j].inst)
    /\ EndsBlock(trace[m].inst) \/ EndsWave(trace[m].inst)

Cuts(trace, n) == {b \in [pc : Int, num : Nat] : \E i, m \in Nat : IsCut(trace, n, b, i, m)}

\* The three counters after k instructions, none of which ended the wave: the
\* block at hand began with instruction a + 1.
Alike(trace, n, k, f, b, s) ==
    \E a \in 0 .. k - 1 : \E bs \in Seq(Cuts(trace, n)) :
        /\ f = AsFeature(k, trace[1].pc, a, trace[a + 1].pc, EndsBlock(trace[k].inst), bs)
        /\ b = AsBbv(k, trace[1].pc, a, trace[a + 1].pc, EndsBlock(trace[k].inst), bs)
        /\ s = AsSample(k, trace[1].pc, a, trace[a + 1].pc, EndsBlock(trace[k].inst), bs)
        /\ a = 0 \/ EndsBlock(trace[a].inst)
        /\ \A j \in a + 1 .. k - 1 : ~EndsBlock(trace[j].inst)

SameBlocks(trace, n, f, b, s) ==
    f.blocks \in Seq(Cuts(trace, n)) /\ b.blocks = f.blocks /\ s.blocks = f.blocks

\* The blocks of a trace are its cuts.
LEMMA CutIn ==
  ASSUME NEW trace, NEW n \in Nat, IsTrace(trace, n), NEW i \in 1 .. n, NEW m \in i .. n,
         i = 1 \/ EndsBlock(trace[i - 1].inst), \A j \in i .. m - 1 : ~EndsBlock(trace[j].inst),
         EndsBlock(trace[m].inst) \/ EndsWave(trace[m].inst)
  PROVE  Block(trace[i].pc - trace[1].pc, m - (i - 1)) \in Cuts(trace, n)
  <1>1. PICK b : b = Block(trace[i].pc - trace[1].pc, m - (i - 1))  OBVIOUS
  <1>2. IsCut(trace, n, b, i, m)  BY <1>1 DEF IsCut
  <1>3. trace[i].pc - trace[1].pc \in Int /\ m - (i - 1) \in Nat
        BY DEF IsTrace
  <1>4. b \in [pc : Int, num : Nat]  BY <1>1, <1>3 DEF Block
  <1>5. i \in Nat /\ m \in Nat  OBVIOUS
  <1>. QED BY <1>1, <1>2, <1>4, <1>5 DEF Cuts

LEMMA FirstAlike ==
  ASSUME NEW trace, NEW n \in Nat \ {0}, IsTrace(trace, n),
         NEW f, f = CollectFeature(FreshFeature, trace[1].inst, trace[1].pc),
         NEW b, b = CountInst(FreshBbv, trace[1].inst, trace[1].pc),
         NEW s, s = SampleInst(FreshSample(trace[1].pc), trace[1].inst, trace[1].pc)
  PROVE  /\ ~EndsWave(trace[1].inst) => Alike(trace, n, 1, f, b, s)
         /\ EndsWave(trace[1].inst) => SameBlocks(trace, n, f, b, s)
  <1>1. PICK pc \in Int : pc = trace[1].pc  BY DEF IsTrace
  <1>2. PICK inst : inst = trace[1].inst  OBVIOUS
  <1>3. PICK none : none = <<>>  OBVIOUS
  <1>4. none \in Seq(Cuts(trace, n))  BY <1>3
  <1>5. ASSUME ~EndsWave(inst) PROVE Alike(trace, n, 1, f, b, s)
        <2>1. /\ f = AsFeature(1, pc, 0, pc, EndsBlock(inst), none)
              /\ b = AsBbv(1, pc, 0, pc, EndsBlock(inst), none)
              /\ s = AsSample(1, pc, 0, pc, EndsBlock(inst), none)
              BY <1>1, <1>2, <1>3, <1>5, FeatureFirst, BbvFirst, SampleFirst
        <2>2. 0 \in 0 .. 1 - 1 /\ 0 + 1 = 1 /\ \A j \in 0 + 1 .. 1 - 1 : FALSE  OBVIOUS
        <2>3. \A j \in 0 + 1 .. 1 - 1 : ~EndsBlock(trace[j].inst)  BY <2>2
        <2>. QED BY <1>1, <1>2, <1>4, <2>1, <2>2, <2>3 DEF Alike
  <1>6. ASSUME EndsWave(inst) PROVE SameBlocks(trace, n, f, b, s)
        <2>1. PICK c : c = Block(pc - pc, 1 - 0)  OBVIOUS
        <2>2. /\ f.blocks = Append(none, c)
              /\ b.blocks = Append(none, c)
              /\ s.blocks = Append(none, c)
              BY <1>1, <1>2, <1>3, <1>6, <2>1, FeatureFirst, BbvFirst, SampleFirst
        <2>3. c \in Cuts(trace, n)
              <3>1. 1 \in 1 .. n /\ 1 - 1 = 0 /\ \A j \in 1 .. 1 - 1 : FALSE  OBVIOUS
              <3>2. \A j \in 1 .. 1 - 1 : ~EndsBlock(trace[j].inst)  BY <3>1
              <3>3. Block(trace[1].pc - trace[1].pc, 1 - (1 - 1)) \in Cuts(trace, n)
                    BY <1>2, <1>6, <3>1, <3>2, CutIn
              <3>. QED BY <1>1, <2>1, <3>1, <3>3
        <2>4. Append(none, c) \in Seq(Cuts(trace, n))  BY <1>4, <2>3
        <2>. QED BY <2>2, <2>4 DEF SameBlocks
  <1>. QED BY <1>2, <1>5, <1>6

LEMMA NextAlike ==
  ASSUME NEW trace, NEW n \in Nat, IsTrace(trace, n), NEW k \in 1 .. n - 1,
         NEW f, NEW b, NEW s, Alike(trace, n, k, f, b, s),
         NEW f2, f2 = CollectFeature(f, trace[k + 1].inst, trace[k + 1].pc),
         NEW b2, b2 = CountInst(b, trace[k + 1].inst, trace[k + 1].pc),
         NEW s2, s2 = SampleInst(s, trace[k + 1].inst, trace[k + 1].pc)
  PROVE  /\ ~EndsWave(trace[k + 1].inst) => Alike(trace, n, k + 1, f2, b2, s2)
         /\ EndsWave(trace[k + 1].inst) => SameBlocks(trace, n, f2, b2, s2)
  <1>1. PICK a \in 0 .. k - 1, bs \in Seq(Cuts(trace, n)) :
            /\ f = AsFeature(k, trace[1].pc, a, trace[a + 1].pc, EndsBlock(trace[k].inst), bs)
            /\ b = AsBbv(k, trace[1].pc, a, trace[a + 1].pc, EndsBlock(trace[k].inst), bs)
            /\ s = AsSample(k, trace[1].pc, a, trace[a + 1].pc, EndsBlock(trace[k].inst), bs)
            /\ a = 0 \/ EndsBlock(trace[a].inst)
            /\ \A j \in a + 1 .. k - 1 : ~EndsBlock(trace[j].inst)
        BY DEF Alike
  <1>2. PICK inst : inst = trace[k + 1].inst  OBVIOUS
  <1>3. PICK pc \in Int : pc = trace[k + 1].pc  BY DEF IsTrace
  <1>4. PICK start \in Int : start = trace[1].pc  BY DEF IsTrace
  <1>5. PICK q \in Int : q = trace[a + 1].pc  BY DEF IsTrace
  <1>6. PICK br \in BOOLEAN : br = EndsBlock(trace[k].inst)  BY EndsBoolean
  <1>7. PICK a2 : a2 = (IF br THEN k ELSE a)  OBVIOUS
  <1>8. PICK q2 : q2 = (IF br THEN pc ELSE q)  OBVIOUS
  <1>9. PICK bs2 : bs2 = (IF br THEN Append(bs, Block(q - start, k - a)) ELSE bs)  OBVIOUS
  <1>10. k \in Nat \ {0} /\ a \in 0 .. k  OBVIOUS
  <1>11. /\ f = AsFeature(k, start, a, q, br, bs)
         /\ b = AsBbv(k, start, a, q, br, bs)
         /\ s = AsSample(k, start, a, q, br, bs)
         BY <1>1, <1>4, <1>5, <1>6
  <1>12. a2 \in 0 .. k /\ q2 = trace[a2 + 1].pc
         BY <1>3, <1>5, <1>7, <1>8
  <1>13. bs2 \in Seq(Cuts(trace, n))
         <2>1. CASE br = FALSE  BY <1>9, <2>1
         <2>2. CASE br = TRUE
               <3>1. PICK c : c = Block(q - start, k - a)  OBVIOUS
               <3>2. PICK i \in 1 .. n : i = a + 1  OBVIOUS
               <3>3. i - 1 = a /\ k \in i .. n  BY <3>2
               <3>4. Block(trace[i].pc - trace[1].pc, k - (i - 1)) \in Cuts(trace, n)
                     <4>1. i = 1 \/ EndsBlock(trace[i - 1].inst)  BY <1>1, <3>2, <3>3
                     <4>2. \A j \in i .. k - 1 : ~EndsBlock(trace[j].inst)  BY <1>1, <3>2
                     <4>3. EndsBlock(trace[k].inst)  BY <1>6, <2>2
                     <4>. QED BY <3>3, <4>1, <4>2, <4>3, CutIn
               <3>5. c \in Cuts(trace, n)  BY <1>4, <1>5, <3>1, <3>2, <3>3, <3>4
               <3>6. bs2 = Append(bs, c)  BY <1>9, <2>2, <3>1
               <3>. QED BY <3>5, <3>6
         <2>. QED BY <2>1, <2>2
  <1>14. a2 = 0 \/ EndsBlock(trace[a2].inst)  BY <1>1, <1>6, <1>7
  <1>15. \A j \in a2 + 1 .. k : ~EndsBlock(trace[j].inst)
         <2>1. CASE br = TRUE  BY <1>7, <2>1
         <2>2. CASE br = FALSE
               <3>1. \A j \in a + 1 .. k : j \in a + 1 .. k - 1 \/ j = k  OBVIOUS
               <3>2. ~EndsBlock(trace[k].inst)  BY <1>6, <2>2
               <3>. QED BY <1>1, <1>7, <2>2, <3>1, <3>2
         <2>. QED BY <2>1, <2>2
  <1>16. Begun(k, a, start, q, br, bs, pc, a2, q2, bs2)
         BY <1>7, <1>8, <1>9 DEF Begun
  <1>17. PICK x, y : x = k + 1 /\ y = Block(q2 - start, k + 1 - a2)  OBVIOUS
  <1>18. Goes(f2, AsFeature(x, start, a2, q2, EndsBlock(inst), bs2), Append(bs2, y), inst)
         <2>1. Goes(CollectFeature(AsFeature(k, start, a, q, br, bs), inst, pc),
                    AsFeature(k + 1, start, a2, q2, EndsBlock(inst), bs2),
                    Append(bs2, Block(q2 - start, k + 1 - a2)), inst)
               BY <1>10, <1>16, FeatureStep, Zenon
         <2>2. f2 = CollectFeature(AsFeature(k, start, a, q, br, bs), inst, pc)
               BY <1>2, <1>3, <1>11
         <2>. QED BY <1>17, <2>1, <2>2
  <1>19. Goes(b2, AsBbv(x, start, a2, q2, EndsBlock(inst), bs2), Append(bs2, y), inst)
         <2>1. Goes(CountInst(AsBbv(k, start, a, q, br, bs), inst, pc),
                    AsBbv(k + 1, start, a2, q2, EndsBlock(inst), bs2),
                    Append(bs2, Block(q2 - start, k + 1 - a2)), inst)
               BY <1>10, <1>16, BbvStep, Zenon
         <2>2. b2 = CountInst(AsBbv(k, start, a, q, br, bs), inst, pc)
               BY <1>2, <1>3, <1>11
         <2>. QED BY <1>17, <2>1, <2>2
  <1>20. Goes(s2, AsSample(x, start, a2, q2, EndsBlock(inst), bs2), Append(bs2, y), inst)
         <2>1. Goes(SampleInst(AsSample(k, start, a, q, br, bs), inst, pc),
                    AsSample(k + 1, start, a2, q2, EndsBlock(inst), bs2),
                    Append(bs2, Block(q2 - start, k + 1 - a2)), inst)
               BY <1>10, <1>16, SampleStep, Zenon
         <2>2. s2 = SampleInst(AsSample(k, start, a, q, br, bs), inst, pc)
               BY <1>2, <1>3, <1>11
         <2>. QED BY <1>17, <2>1, <2>2
  <1>21. ASSUME ~EndsWave(inst) PROVE Alike(trace, n, k + 1, f2, b2, s2)
         <2>1. f2 = AsFeature(k + 1, start, a2, q2, EndsBlock(inst), bs2)  BY <1>17, <1>18, <1>21 DEF Goes
         <2>2. b2 = AsBbv(k + 1, start, a2, q2, EndsBlock(inst), bs2)  BY <1>17, <1>19, <1>21 DEF Goes
         <2>3. s2 = AsSample(k + 1, start, a2, q2, EndsBlock(inst), bs2)  BY <1>17, <1>20, <1>21 DEF Goes
         <2>4. k + 1 - 1 = k  OBVIOUS
         <2>. QED BY <1>2, <1>4, <1>12, <1>13, <1>14, <1>15, <2>1, <2>2, <2>3, <2>4 DEF Alike
  <1>22. ASSUME EndsWave(inst) PROVE SameBlocks(trace, n, f2, b2, s2)
         <2>. DEFINE last == Block(q2 - start, k + 1 - a2)
         <2>1. f2.blocks = Append(bs2, last)  BY <1>17, <1>18, <1>22 DEF Goes
         <2>2. b2.blocks = Append(bs2, last)  BY <1>17, <1>19, <1>22 DEF Goes
         <2>3. s2.blocks = Append(bs2, last)  BY <1>17, <1>20, <1>22 DEF Goes
         <2>4. last \in Cuts(trace, n)
               <3>1. PICK i \in 1 .. n : i = a2 + 1  BY <1>12
               <3>2. PICK m \in i .. n : m = k + 1  BY <1>12, <3>1
               <3>3. i - 1 = a2 /\ m - 1 = k  BY <1>12, <3>1, <3>2
               <3>4. Block(trace[i].pc - trace[1].pc, m - (i - 1)) \in Cuts(trace, n)
                     <4>1. i = 1 \/ EndsBlock(trace[i - 1].inst)  BY <1>14, <3>1, <3>3
                     <4>2. \A j \in i .. m - 1 : ~EndsBlock(trace[j].inst)
                           BY <1>15, <3>1, <3>3
                     <4>3. EndsWave(trace[m].inst)  BY <1>2, <1>22, <3>2
                     <4>. QED BY <4>1, <4>2, <4>3, CutIn
               <3>. QED BY <1>4, <1>12, <3>1, <3>2, <3>3, <3>4
         <2>. HIDE DEF last
         <2>5. Append(bs2, last) \in Seq(Cuts(trace, n))  BY <1>13, <2>4
         <2>. QED BY <2>1, <2>2, <2>3, <2>5 DEF SameBlocks
  <1>. QED BY <1>2, <1>21, <1>22

LEMMA AlikeSame ==
  ASSUME NEW trace, NEW n, NEW k, NEW f, NEW b, NEW s, Alike(trace, n, k, f, b, s)
  PROVE  SameBlocks(trace, n, f, b, s)
  BY DEF Alike, SameBlocks, AsFeature, AsBbv, AsSample

\* the counters along a trace: F, B and S after each of its instructions
IsCounted(trace, n, F, B, S) ==
    /\ F[0] = FreshFeature /\ B[0] = FreshBbv /\ S[0] = FreshSample(trace[1].pc)
    /\ \A k \in 1 .. n : /\ F[k] = CollectFeature(F[k - 1], trace[k].inst, trace[k].pc)
                         /\ B[k] = CountInst(B[k - 1], trace[k].inst, trace[k].pc)
                         /\ S[k] = SampleInst(S[k - 1], trace[k].inst, trace[k].pc)

\* After every instruction of every trace, the timing compute unit
\* (branchtracer.go), the basic block vectors (wf_feature.go) and the sampled
\* emulator (sampledcomputeunit.go) have found the same blocks, and each is a
\* stretch of the trace from the first instruction, or the one after a branch, to
\* the next branch or the end of the wave.
THEOREM BlocksAlike ==
  ASSUME NEW trace, NEW n \in Nat, IsTrace(trace, n),
         NEW F, NEW B, NEW S, IsCounted(trace, n, F, B, S)
  PROVE  \A k \in 0 .. n : SameBlocks(trace, n, F[k], B[k], S[k])
  <1>. DEFINE X == {m \in Nat : m + 1 <= n =>
                      IF EndsWave(trace[m + 1].inst)
                      THEN SameBlocks(trace, n, F[m + 1], B[m + 1], S[m + 1])
                      ELSE Alike(trace, n, m + 1, F[m + 1], B[m + 1], S[m + 1])}
  <1>1. 0 \in X
        <2>1. CASE n = 0  BY <2>1
        <2>2. CASE n # 0
              <3>1. 1 \in 1 .. n /\ 1 - 1 = 0 /\ 0 + 1 = 1 /\ n \in Nat \ {0}  BY <2>2
              <3>2. /\ F[1] = CollectFeature(FreshFeature, trace[1].inst, trace[1].pc)
                    /\ B[1] = CountInst(FreshBbv, trace[1].inst, trace[1].pc)
                    /\ S[1] = SampleInst(FreshSample(trace[1].pc), trace[1].inst, trace[1].pc)
                    BY <3>1 DEF IsCounted
              <3>. QED BY <3>1, <3>2, FirstAlike
        <2>. QED BY <2>1, <2>2
  <1>2. ASSUME NEW m \in Nat, m \in X PROVE m + 1 \in X
        <2>. SUFFICES ASSUME m + 2 <= n
             PROVE IF EndsWave(trace[m + 1 + 1].inst)
                   THEN SameBlocks(trace, n, F[m + 1 + 1], B[m + 1 + 1], S[m + 1 + 1])
                   ELSE Alike(trace, n, m + 1 + 1, F[m + 1 + 1], B[m + 1 + 1], S[m + 1 + 1])
             OBVIOUS
        <2>1. PICK k \in 1 .. n - 1 : k = m + 1  OBVIOUS
        <2>2. Alike(trace, n, k, F[k], B[k], S[k])
              <3>1. ~EndsWave(trace[k].inst)  BY DEF IsTrace
              <3>. QED BY <1>2, <2>1, <3>1
        <2>3. k + 1 \in 1 .. n /\ k + 1 - 1 = k  OBVIOUS
        <2>4. /\ F[k + 1] = CollectFeature(F[k], trace[k + 1].inst, trace[k + 1].pc)
              /\ B[k + 1] = CountInst(B[k], trace[k + 1].inst, trace[k + 1].pc)
              /\ S[k + 1] = SampleInst(S[k], trace[k + 1].inst, trace[k + 1].pc)
              BY <2>3 DEF IsCounted
        <2>. QED BY <2>1, <2>2, <2>4, NextAlike
  <1>3. Nat \subseteq X
        <2>. HIDE DEF X
        <2>. QED BY <1>1, <1>2, Induction
  <1>4. SameBlocks(trace, n, F[0], B[0], S[0])
        <2>1. FreshFeature.blocks = <<>> /\ FreshBbv.blocks = <<>>
              BY DEF FreshFeature, FreshBbv
        <2>2. FreshSample(trace[1].pc).blocks = <<>>  BY DEF FreshSample
        <2>3. <<>> \in Seq(Cuts(trace, n))  OBVIOUS
        <2>. QED BY <2>1, <2>2, <2>3 DEF SameBlocks, IsCounted
  <1>5. ASSUME NEW k \in 1 .. n PROVE SameBlocks(trace, n, F[k], B[k], S[k])
        <2>1. PICK m \in Nat : m + 1 = k  BY k - 1 \in Nat
        <2>2. m \in X  BY <1>3
        <2>. QED BY <2>1, <2>2, AlikeSame
  <1>. QED BY <1>4, <1>5

-----------------------------------------------------------------------------
\* A wave's way through the code: at[i] is the position of its i-th instruction.
\* A branch, and S_BARRIER, which the analysis takes for one, may go on with the
\* next instruction or at its target.

IsPath(code, trace, n, at) ==
    /\ at \in [1 .. n -> Int]
    /\ n > 0 => at[1] = 1
    /\ \A k \in 1 .. n : /\ trace[k].inst = code[at[k]] /\ trace[k].pc = 4 * (at[k] - 1)
    /\ \A k \in 1 .. n - 1 : \/ at[k + 1] = at[k] + 1
                             \/ EndsBlock(code[at[k]]) /\ at[k + 1] = Target(code, at[k])

\* the code ends, and its branches stay in front of the first S_ENDPGM
IsKernel(code) ==
    /\ Len(code) \in Nat /\ code = [i \in 1 .. Len(code) |-> code[i]]
    /\ \E e \in 1 .. Len(code) : EndsWave(code[e])
    /\ \A k \in DOMAIN Walked(code) : EndsBlock(code[k]) => Target(code, k) \in DOMAIN Walked(code)

\* Min of the community modules is the least number of a set.
LEMMA MinIs ==
  ASSUME NEW I \in SUBSET Nat, NEW m \in I, \A x \in I : m <= x
  PROVE  Min(I) = m
  <1>1. \E x \in I : \A y \in I : x <= y  OBVIOUS
  <1>2. Min(I) \in I /\ \A y \in I : Min(I) <= y  BY <1>1 DEF Min
  <1>3. Min(I) \in Nat /\ m \in Nat /\ Min(I) <= m /\ m <= Min(I)  BY <1>2
  <1>. QED BY <1>3

\* the code up to its first S_ENDPGM, at position e
LEMMA WalkedIs ==
  ASSUME NEW code, IsKernel(code)
  PROVE  \E e \in 1 .. Len(code) :
           /\ EndsWave(code[e])
           /\ \A k \in 1 .. e - 1 : ~EndsWave(code[k])
           /\ Walked(code) = [k \in 1 .. e |-> code[k]]
           /\ Len(Walked(code)) = e /\ DOMAIN Walked(code) = 1 .. e
  <1>. DEFINE I == {i \in 1 .. Len(code) : EndsWave(code[i])}
  <1>1. Len(code) \in Nat /\ I # {} /\ I \in SUBSET Nat  BY DEF IsKernel
  <1>2. PICK e \in I : \A x \in I : e <= x
        <2>. HIDE DEF I
        <2>. QED BY <1>1, SmallestNat
  <1>3. Min(I) = e
        <2>. HIDE DEF I
        <2>. QED BY <1>1, <1>2, MinIs
  <1>4. SelectInSeq(code, EndsWave) = IF I # {} THEN Min(I) ELSE 0  BY DEF SelectInSeq
  <1>5. SelectInSeq(code, EndsWave) = e  BY <1>1, <1>3, <1>4
  <1>6. e \in 1 .. Len(code) /\ EndsWave(code[e])  BY <1>2
  <1>7. \A k \in 1 .. e - 1 : ~EndsWave(code[k])
        <2>1. \A k \in 1 .. e - 1 : k \in 1 .. Len(code) /\ ~(e <= k)  BY <1>1, <1>6
        <2>. QED BY <1>2, <2>1
  <1>8. Walked(code) = [k \in 1 .. e |-> code[k]]
        <2>1. Walked(code) = SubSeq(code, 1, e)  BY <1>5 DEF Walked
        <2>2. SubSeq(code, 1, e) = [k \in 1 .. (e - 1) + 1 |-> code[1 + k - 1]]
              BY <1>6
        <2>3. (e - 1) + 1 = e /\ \A k \in 1 .. e : 1 + k - 1 = k  BY <1>1, <1>6
        <2>. QED BY <2>1, <2>2, <2>3
  <1>9. e \in Nat  BY <1>1, <1>6
  <1>10. Len(Walked(code)) = e /\ DOMAIN Walked(code) = 1 .. e
         <2>1. PICK w : w = Walked(code)  OBVIOUS
         <2>2. DOMAIN w = 1 .. e  BY <1>8, <2>1
         <2>. QED BY <1>9, <2>1, <2>2
  <1>. QED BY <1>6, <1>7, <1>8, <1>10

\* the block that starts at position p and meets its first branch or end at r
LEMMA ToEndIs ==
  ASSUME NEW code, IsKernel(code), NEW p \in DOMAIN Walked(code), NEW r \in DOMAIN Walked(code),
         p <= r, EndsBlock(code[r]) \/ EndsWave(code[r]),
         \A j \in p .. r - 1 : ~EndsBlock(code[j]) /\ ~EndsWave(code[j])
  PROVE  ToEnd(code, p) = r - (p - 1)
  <1>1. PICK e \in 1 .. Len(code) : /\ Walked(code) = [k \in 1 .. e |-> code[k]]
                                    /\ Len(Walked(code)) = e /\ DOMAIN Walked(code) = 1 .. e
        BY WalkedIs
  <1>2. Len(code) \in Nat /\ e \in Nat /\ p \in 1 .. e /\ r \in p .. e
        BY <1>1 DEF IsKernel
  <1>3. PICK w : w = SubSeq(Walked(code), p, e)  OBVIOUS
  <1>4. Len(w) = e - (p - 1) /\ \A k \in 1 .. e - (p - 1) : w[k] = code[p + k - 1]
        <2>1. PICK v : v = Walked(code)  OBVIOUS
        <2>2. w = [k \in 1 .. (e - p) + 1 |-> v[p + k - 1]]
              BY <1>2, <1>3, <2>1
        <2>3. (e - p) + 1 = e - (p - 1) /\ e - (p - 1) \in Nat  BY <1>2
        <2>4. \A k \in 1 .. e - (p - 1) : p + k - 1 \in 1 .. e  BY <1>2
        <2>5. \A k \in 1 .. e - (p - 1) : w[k] = code[p + k - 1]
              BY <1>1, <2>1, <2>2, <2>3, <2>4
        <2>6. DOMAIN w = 1 .. e - (p - 1)  BY <2>2, <2>3
        <2>7. Len(w) = e - (p - 1)  BY <2>2, <2>3, <2>6
        <2>. QED BY <2>5, <2>7
  <1>. DEFINE I == {i \in 1 .. Len(w) : EndsBlock(w[i]) \/ EndsWave(w[i])}
              m == r - (p - 1)
  <1>5. m \in 1 .. Len(w) /\ p + m - 1 = r  BY <1>2, <1>4
  <1>6. m \in I
        <2>1. w[m] = code[r]  BY <1>4, <1>5
        <2>. HIDE DEF m
        <2>. QED BY <1>5, <2>1
  <1>7. \A x \in I : m <= x
        <2>. SUFFICES ASSUME NEW x \in I, ~(m <= x) PROVE FALSE  OBVIOUS
        <2>1. x \in 1 .. Len(w) /\ (EndsBlock(w[x]) \/ EndsWave(w[x]))  OBVIOUS
        <2>2. x \in 1 .. e - (p - 1) /\ x < m  BY <1>4, <1>2, <2>1
        <2>3. p + x - 1 \in p .. r - 1  BY <1>2, <2>2
        <2>4. w[x] = code[p + x - 1]  BY <1>4, <2>2
        <2>. QED BY <2>1, <2>3, <2>4
  <1>8. I \in SUBSET Nat /\ I # {}  BY <1>6
  <1>9. Min(I) = m
        <2>. HIDE DEF I, m
        <2>. QED BY <1>6, <1>7, <1>8, MinIs
  <1>10. ToEnd(code, p) = IF I # {} THEN Min(I) ELSE 0
         BY <1>1, <1>3 DEF ToEnd, SelectInSeq
  <1>. QED BY <1>8, <1>9, <1>10

\* a wave stays in the code that the analysis walked
LEMMA PathInside ==
  ASSUME NEW code, IsKernel(code), NEW trace, NEW n \in Nat, IsTrace(trace, n),
         NEW at, IsPath(code, trace, n, at)
  PROVE  \A k \in 1 .. n : at[k] \in DOMAIN Walked(code)
  <1>1. PICK e \in 1 .. Len(code) : /\ EndsWave(code[e])
                                    /\ DOMAIN Walked(code) = 1 .. e
        BY WalkedIs
  <1>2. e \in Nat \ {0}  BY DEF IsKernel
  <1>. DEFINE X == {k \in Nat : k + 1 <= n => at[k + 1] \in 1 .. e}
  <1>3. 0 \in X  BY <1>2 DEF IsPath
  <1>4. ASSUME NEW j \in Nat, j \in X PROVE j + 1 \in X
        <2>. SUFFICES ASSUME j + 2 <= n PROVE at[j + 1 + 1] \in 1 .. e
             OBVIOUS
        <2>1. PICK k \in 1 .. n - 1 : k = j + 1  OBVIOUS
        <2>2. at[k] \in 1 .. e  BY <1>4, <2>1
        <2>3. ~EndsWave(code[at[k]])
              <3>1. ~EndsWave(trace[k].inst)  BY DEF IsTrace
              <3>2. trace[k].inst = code[at[k]]  BY k \in 1 .. n DEF IsPath
              <3>. QED BY <3>1, <3>2
        <2>4. CASE at[k + 1] = at[k] + 1
              <3>1. at[k] # e  BY <1>1, <2>3
              <3>2. at[k] + 1 \in 1 .. e  BY <1>2, <2>2, <3>1
              <3>. QED BY <2>1, <2>4, <3>2
        <2>5. CASE EndsBlock(code[at[k]]) /\ at[k + 1] = Target(code, at[k])
              <3>1. Target(code, at[k]) \in 1 .. e  BY <1>1, <2>2, <2>5 DEF IsKernel
              <3>. QED BY <2>1, <2>5, <3>1
        <2>. QED BY <2>4, <2>5 DEF IsPath
  <1>5. Nat \subseteq X
        <2>. HIDE DEF X
        <2>. QED BY <1>3, <1>4, Induction
  <1>6. ASSUME NEW k \in 1 .. n PROVE at[k] \in 1 .. e
        <2>1. PICK j \in Nat : j + 1 = k  BY k - 1 \in Nat
        <2>. QED BY <1>5, <2>1
  <1>. QED BY <1>1, <1>6

NoEnd(trace, i, m) == \A j \in i .. m - 1 : ~EndsBlock(trace[j].inst)

GoesOn(at, i, m) == \A d \in 0 .. m - i : at[i + d] = at[i] + d

\* within a block the wave goes straight on
LEMMA StraightOn ==
  ASSUME NEW code, NEW trace, NEW n \in Nat,
         NEW at, IsPath(code, trace, n, at),
         NEW i \in 1 .. n, NEW m \in i .. n, NoEnd(trace, i, m)
  PROVE  GoesOn(at, i, m)
  <1>. DEFINE X == {d \in Nat : d <= m - i => at[i + d] = at[i] + d}
  <1>0. at[i] \in Int  BY DEF IsPath
  <1>1. 0 \in X
        <2>1. i + 0 = i /\ at[i] + 0 = at[i]  BY <1>0
        <2>. QED BY <2>1
  <1>2. ASSUME NEW d \in Nat, d \in X PROVE d + 1 \in X
        <2>. SUFFICES ASSUME d + 1 <= m - i PROVE at[i + (d + 1)] = at[i] + (d + 1)
             OBVIOUS
        <2>1. PICK k \in 1 .. n - 1 : k = i + d  OBVIOUS
        <2>2. k \in i .. m - 1  BY <2>1
        <2>3. at[k] = at[i] + d  BY <1>2, <2>1
        <2>4. ~EndsBlock(code[at[k]])
              <3>1. trace[k].inst = code[at[k]]  BY k \in 1 .. n DEF IsPath
              <3>. QED BY <2>2, <3>1 DEF NoEnd
        <2>5. at[k + 1] = at[k] + 1  BY <2>4 DEF IsPath
        <2>6. k + 1 = i + (d + 1) /\ at[i] + d + 1 = at[i] + (d + 1)  BY <1>0, <2>1
        <2>. QED BY <2>3, <2>5, <2>6
  <1>3. Nat \subseteq X
        <2>. HIDE DEF X
        <2>. QED BY <1>1, <1>2, Induction
  <1>. QED BY <1>3 DEF GoesOn

\* The code that the static analysis finds for a block is the code that the wave
\* ran in it, from its i-th to its m-th instruction.
IsFound(code, trace, b, i, m) ==
    /\ b \in StaticBlocks(code)
    /\ Len(GetBBLInsts(code, b)) = m - (i - 1)
    /\ \A d \in 0 .. m - i : GetBBLInsts(code, b)[d + 1] = trace[i + d].inst

LEMMA CutFound ==
  ASSUME NEW code, IsKernel(code), NEW trace, NEW n \in Nat, IsTrace(trace, n),
         NEW at, IsPath(code, trace, n, at), NEW b, NEW i \in 1 .. n, NEW m \in i .. n,
         IsCut(trace, n, b, i, m)
  PROVE  IsFound(code, trace, b, i, m)
  <1>1. /\ i \in 1 .. n /\ m \in i .. n
        /\ b = Block(trace[i].pc - trace[1].pc, m - (i - 1))
        /\ i = 1 \/ EndsBlock(trace[i - 1].inst)
        /\ \A j \in i .. m - 1 : ~EndsBlock(trace[j].inst)
        /\ EndsBlock(trace[m].inst) \/ EndsWave(trace[m].inst)
        BY DEF IsCut
  <1>2. PICK e \in 1 .. Len(code) : DOMAIN Walked(code) = 1 .. e
        BY WalkedIs
  <1>3. Len(code) \in Nat /\ e \in Nat /\ e <= Len(code)  BY DEF IsKernel
  <1>4. PICK p \in 1 .. e : p = at[i]  BY <1>1, <1>2, PathInside
  <1>5. PICK r \in 1 .. e : r = at[m]  BY <1>1, <1>2, PathInside
  <1>6. \A d \in 0 .. m - i : at[i + d] = p + d
        <2>1. GoesOn(at, i, m)
              <3>1. NoEnd(trace, i, m)  BY <1>1 DEF NoEnd
              <3>. QED BY <3>1, StraightOn
        <2>. QED BY <1>4, <2>1 DEF GoesOn
  <1>7. r = p + (m - i)
        <2>1. m - i \in 0 .. m - i /\ i + (m - i) = m  BY <1>1
        <2>. QED BY <1>5, <1>6, <2>1
  <1>8. \A k \in 1 .. n : trace[k].inst = code[at[k]] /\ trace[k].pc = 4 * (at[k] - 1)
        BY DEF IsPath
  <1>9. EndsBlock(code[r]) \/ EndsWave(code[r])  BY <1>1, <1>5, <1>8
  <1>10. \A j \in p .. r - 1 : ~EndsBlock(code[j]) /\ ~EndsWave(code[j])
         <2>. SUFFICES ASSUME NEW j \in p .. r - 1
              PROVE  ~EndsBlock(code[j]) /\ ~EndsWave(code[j])
              OBVIOUS
         <2>1. PICK d \in 0 .. m - i : d = j - p /\ d < m - i  BY <1>1, <1>7
         <2>2. PICK k \in i .. m - 1 : k = i + d  BY <1>1, <2>1
         <2>3. k \in 1 .. n - 1 /\ k \in 1 .. n  BY <1>1
         <2>4. at[k] = j
               <3>1. at[i + d] = p + d  BY <1>6
               <3>2. p + d = j  BY <2>1
               <3>. QED BY <2>2, <3>1, <3>2
         <2>5. ~EndsBlock(trace[k].inst) /\ ~EndsWave(trace[k].inst)
               BY <1>1, <2>3 DEF IsTrace
         <2>. QED BY <1>8, <2>3, <2>4, <2>5
  <1>11. ToEnd(code, p) = m - (i - 1)
         <2>1. p <= r  BY <1>1, <1>7
         <2>2. ToEnd(code, p) = r - (p - 1)  BY <1>2, <1>9, <1>10, <2>1, ToEndIs
         <2>3. r - (p - 1) = m - (i - 1)  BY <1>1, <1>7
         <2>. QED BY <2>2, <2>3
  <1>12. trace[i].pc - trace[1].pc = 4 * (p - 1)
         <2>1. at[1] = 1  BY <1>1 DEF IsPath
         <2>2. trace[1].pc = 4 * (1 - 1) /\ trace[i].pc = 4 * (p - 1)
               <3>1. 1 \in 1 .. n  BY <1>1
               <3>. QED BY <1>1, <1>4, <1>8, <2>1, <3>1
         <2>. QED BY <2>2
  <1>13. b = Block(4 * (p - 1), ToEnd(code, p))  BY <1>1, <1>11, <1>12
  <1>14. b \in StaticBlocks(code)
         <2>1. CASE i = 1
               <3>1. p = 1  BY <1>1, <1>4, <2>1 DEF IsPath
               <3>2. p \in BlockStarts(code)  BY <3>1 DEF BlockStarts
               <3>. QED BY <1>13, <3>2 DEF StaticBlocks
         <2>2. CASE i # 1
               <3>1. PICK k \in 1 .. n - 1 : k + 1 = i /\ k = i - 1
                     BY <1>1, <2>2, i - 1 \in 1 .. n - 1
               <3>2. k \in 1 .. n /\ at[k] \in DOMAIN Walked(code)
                     BY <1>1, PathInside
               <3>3. EndsBlock(code[at[k]])  BY <1>1, <1>8, <2>2, <3>1, <3>2
               <3>4. CASE at[k + 1] = at[k] + 1
                     <4>1. p \in BlockStarts(code)
                           BY <1>4, <3>1, <3>2, <3>3, <3>4 DEF BlockStarts
                     <4>. QED BY <1>13, <4>1 DEF StaticBlocks
               <3>5. CASE at[k + 1] = Target(code, at[k])
                     <4>1. p = Target(code, at[k])  BY <1>4, <3>1, <3>5
                     <4>2. p \in DOMAIN Walked(code)  BY <1>2
                     <4>. QED BY <1>13, <3>2, <3>3, <4>1, <4>2 DEF StaticBlocks
               <3>. QED BY <3>4, <3>5 DEF IsPath
         <2>. QED BY <2>1, <2>2
  <1>15. b.pc = 4 * (p - 1) /\ b.num = m - (i - 1)  BY <1>11, <1>13 DEF Block
  <1>16. b.pc \div 4 = p - 1
         <2>1. p - 1 \in Nat  BY <1>3
         <2>2. PICK z \in Nat : z = p - 1  BY <2>1
         <2>3. (4 * z) \div 4 = z  OBVIOUS
         <2>. QED BY <1>15, <2>2, <2>3
  <1>17. PICK g : g = GetBBLInsts(code, b)  OBVIOUS
  <1>18. g = SubSeq(code, p, r)
         <2>1. g = SubSeq(code, b.pc \div 4 + 1, b.pc \div 4 + b.num)
               BY <1>14, <1>17 DEF GetBBLInsts
         <2>2. PICK u : u = b.pc \div 4  OBVIOUS
         <2>3. p - 1 + 1 = p /\ p - 1 + (m - (i - 1)) = r  BY <1>1, <1>3, <1>7
         <2>4. u + 1 = p /\ u + b.num = r  BY <1>15, <1>16, <2>2, <2>3
         <2>. QED BY <2>1, <2>2, <2>4
  <1>19. g = [k \in 1 .. m - (i - 1) |-> code[p + k - 1]]
         <2>1. SubSeq(code, p, r) = [k \in 1 .. r - p + 1 |-> code[p + k - 1]]
               BY <1>3
         <2>2. r - p + 1 = m - (i - 1)  BY <1>1, <1>7
         <2>. QED BY <1>18, <2>1, <2>2
  <1>20. Len(g) = m - (i - 1)
         <2>1. DOMAIN g = 1 .. m - (i - 1)  BY <1>19
         <2>2. m - (i - 1) \in Nat  BY <1>1
         <2>. QED BY <1>19, <2>1, <2>2
  <1>21. ASSUME NEW d \in 0 .. m - i PROVE g[d + 1] = trace[i + d].inst
         <2>1. d + 1 \in 1 .. m - (i - 1) /\ p + (d + 1) - 1 = p + d /\ i + d \in 1 .. n
               BY <1>1
         <2>2. g[d + 1] = code[p + d]  BY <1>19, <2>1
         <2>3. trace[i + d].inst = code[p + d]  BY <1>6, <1>8, <2>1
         <2>. QED BY <2>2, <2>3
  <1>. QED BY <1>14, <1>17, <1>20, <1>21 DEF IsFound

\* Every block a wave is found to run, at any time, is one that the static
\* analysis of the code found, so that GetBBLInsts (static_feature.go:117) does not
\* panic of it, and the instructions it returns are those that the wave ran in the
\* block.  The code must end and its branches stay before the end.
THEOREM BlocksKnown ==
  ASSUME NEW code, IsKernel(code), NEW trace, NEW n \in Nat, IsTrace(trace, n),
         NEW at, IsPath(code, trace, n, at),
         NEW F, NEW B, NEW S, IsCounted(trace, n, F, B, S), NEW k \in 0 .. n,
         NEW x \in DOMAIN S[k].blocks
  PROVE  \E i, m \in 1 .. n : /\ IsCut(trace, n, S[k].blocks[x], i, m)
                              /\ IsFound(code, trace, S[k].blocks[x], i, m)
  <1>1. S[k].blocks \in Seq(Cuts(trace, n))
        <2>1. SameBlocks(trace, n, F[k], B[k], S[k])  BY BlocksAlike
        <2>. QED BY <2>1 DEF SameBlocks
  <1>2. PICK bs : bs = S[k].blocks  OBVIOUS
  <1>3. PICK b : b = bs[x]  OBVIOUS
  <1>4. b \in Cuts(trace, n)  BY <1>1, <1>2, <1>3
  <1>5. \E i, m \in Nat : IsCut(trace, n, b, i, m)  BY <1>4 DEF Cuts
  <1>6. PICK i \in 1 .. n : \E m \in i .. n : IsCut(trace, n, b, i, m)  BY <1>5 DEF IsCut
  <1>7. PICK m \in i .. n : IsCut(trace, n, b, i, m)  BY <1>6
  <1>8. IsFound(code, trace, b, i, m)  BY <1>7, CutFound
  <1>9. m \in 1 .. n  OBVIOUS
  <1>. QED BY <1>2, <1>3, <1>8, <1>9, <1>7

-----------------------------------------------------------------------------
\* Part 3: numbers of two words.  Two instructions, one after the other, add or
\* subtract them: TwoWords is the arithmetic, the rest is that each of the two
\* leaves its sum in the registers and its carry where the other one reads it.

\* Powers of two, by what is known of the subsets of a set

LEMMA PowSubsets ==
  ASSUME NEW n \in Nat
  PROVE  /\ 2^n = Cardinality(SUBSET (1 .. n)) /\ IsFiniteSet(SUBSET (1 .. n))
         /\ 2^n \in Nat
  <1>1. IsFiniteSet(1 .. n) /\ Cardinality(1 .. n) = n
        <2>1. IsFiniteSet(1 .. n) /\ Cardinality(1 .. n) = IF 1 > n THEN 0 ELSE n - 1 + 1
              BY FS_Interval
        <2>. QED BY <2>1
  <1>2. IsFiniteSet(SUBSET (1 .. n)) /\ Cardinality(SUBSET (1 .. n)) = 2^n
        BY <1>1, FS_SUBSET
  <1>3. Cardinality(SUBSET (1 .. n)) \in Nat  BY <1>2, FS_CardinalityType
  <1>. QED BY <1>2, <1>3

LEMMA PowNext ==
  ASSUME NEW n \in Nat
  PROVE  2^(n + 1) = 2^n + 2^n
  <1>. DEFINE A == SUBSET (1 .. n)
              B == {Q \in SUBSET (1 .. n + 1) : n + 1 \in Q}
              f == [Q \in A |-> Q \cup {n + 1}]
  <1>1. n + 1 \in Nat /\ n + 1 \notin 1 .. n /\ 1 .. n + 1 = (1 .. n) \cup {n + 1}
        OBVIOUS
  <1>2. SUBSET (1 .. n + 1) = A \cup B  BY <1>1
  <1>3. A \cap B = {}  BY <1>1
  <1>4. f \in Bijection(A, B)
        <2>1. f \in [A -> B]  BY <1>1
        <2>2. \A S, Q \in A : f[S] = f[Q] => S = Q  BY <1>1
        <2>3. \A Q \in B : \E S \in A : f[S] = Q
              <3>1. ASSUME NEW Q \in B PROVE Q \ {n + 1} \in A /\ (Q \ {n + 1}) \cup {n + 1} = Q
                    BY <1>1
              <3>. QED BY <3>1
        <2>. QED BY <2>1, <2>2, <2>3 DEF Bijection, Injection, Surjection, IsInjective
  <1>5. IsFiniteSet(A) /\ Cardinality(A) = 2^n /\ 2^n \in Nat  BY PowSubsets
  <1>6. 2^(n + 1) = Cardinality(SUBSET (1 .. n + 1))  BY <1>1, PowSubsets
  <1>7. IsFiniteSet(B) /\ Cardinality(B) = 2^n
        <2>. HIDE DEF A, B, f
        <2>1. ExistsBijection(A, B)  BY <1>4 DEF ExistsBijection
        <2>. QED BY <2>1, <1>5, FS_Bijection
  <1>. HIDE DEF A, B, f
  <1>8. Cardinality(A \cup B) = 2^n + 2^n - Cardinality({})  BY <1>3, <1>5, <1>7, FS_Union
  <1>9. Cardinality({}) = 0  BY FS_EmptySet
  <1>10. 2^(n + 1) = Cardinality(A \cup B)  BY <1>2, <1>6, Zenon
  <1>11. Cardinality(A \cup B) = 2^n + 2^n  BY <1>5, <1>8, <1>9
  <1>. QED BY <1>10, <1>11, Zenon

LEMMA PowZero == 2^0 = 1
  <1>1. 1 .. 0 = {} /\ SUBSET {} = {{}}  OBVIOUS
  <1>2. Cardinality({{}}) = 1  BY FS_Singleton
  <1>3. 0 \in Nat  OBVIOUS
  <1>4. 2^0 = Cardinality(SUBSET (1 .. 0))  BY <1>3, PowSubsets, Zenon
  <1>. QED BY <1>1, <1>2, <1>4, Zenon

LEMMA PowType ==
  ASSUME NEW n \in Nat
  PROVE  2^n \in Nat /\ 2^n > n
  <1>. DEFINE X == {k \in Nat : 2^k > k}
  <1>1. 0 \in X  BY PowZero
  <1>2. \A k \in Nat : k \in X => k + 1 \in X  BY PowNext, PowSubsets
  <1>3. Nat \subseteq X
        <2>. HIDE DEF X
        <2>. QED BY <1>1, <1>2, Induction
  <1>. QED BY <1>3, PowSubsets

LEMMA PowSum ==
  ASSUME NEW m \in Nat, NEW n \in Nat
  PROVE  2^(m + n) = 2^m * 2^n
  <1>. DEFINE X == {k \in Nat : 2^(m + k) = 2^m * 2^k}
  <1>1. 0 \in X
        <2>1. 2^m \in Nat  BY PowType
        <2>2. 2^(m + 0) = 2^m /\ 2^m * 2^0 = 2^m  BY <2>1, PowZero
        <2>. QED BY <2>2
  <1>2. ASSUME NEW k \in Nat, k \in X PROVE k + 1 \in X
        <2>1. 2^m \in Nat /\ 2^k \in Nat  BY PowType
        <2>2. 2^(k + 1) = 2^k + 2^k  BY PowNext
        <2>3. 2^((m + k) + 1) = 2^(m + k) + 2^(m + k)  BY PowNext
        <2>4. 2^m * (2^k + 2^k) = 2^m * 2^k + 2^m * 2^k  BY <2>1
        <2>5. m + (k + 1) = (m + k) + 1 /\ k + 1 \in Nat  OBVIOUS
        <2>6. 2^(m + k) = 2^m * 2^k  BY <1>2
        <2>7. 2^(m + (k + 1)) = 2^m * 2^(k + 1)  BY <2>2, <2>3, <2>4, <2>5, <2>6
        <2>. QED BY <2>7, <2>5
  <1>3. Nat \subseteq X
        <2>. HIDE DEF X
        <2>. QED BY <1>1, <1>2, Induction
  <1>. QED BY <1>3

-----------------------------------------------------------------------------
\* Quotients and remainders

LEMMA DivMod ==
  ASSUME NEW x \in Int, NEW d \in Nat \ {0}
  PROVE  /\ x \div d \in Int /\ x % d \in 0 .. d - 1
         /\ x = d * (x \div d) + (x % d)
  <1>1. x \div d \in Int  OBVIOUS
  <1>2. x % d \in 0 .. d - 1  OBVIOUS
  <1>3. x = d * (x \div d) + (x % d)  OBVIOUS
  <1>. QED BY <1>1, <1>2, <1>3

LEMMA DivModIs ==
  ASSUME NEW d \in Nat \ {0}, NEW q \in Int, NEW r \in 0 .. d - 1, NEW x, x = d * q + r
  PROVE  x \div d = q /\ x % d = r
  <1>1. x \in Int  OBVIOUS
  <1>. DEFINE p == x \div d
              s == x % d
  <1>2. p \in Int /\ s \in 0 .. d - 1 /\ x = d * p + s  BY <1>1, DivMod
  <1>. HIDE DEF p, s
  <1>3. d * p - d * q = r - s  BY <1>2
  <1>4. p - q \in Int /\ d * (p - q) = d * p - d * q  BY <1>2
  <1>5. CASE p - q >= 1
        <2>1. d * (p - q) >= d  BY <1>4, <1>5
        <2>. QED BY <1>2, <1>3, <1>4, <2>1
  <1>6. CASE p - q <= -1
        <2>1. d * (p - q) <= -d  BY <1>4, <1>6
        <2>. QED BY <1>2, <1>3, <1>4, <2>1
  <1>7. CASE p = q  BY <1>2, <1>3, <1>7 DEF p, s
  <1>. QED BY <1>2, <1>5, <1>6, <1>7

-----------------------------------------------------------------------------
\* The numbers of sets of bits: Mask is a fold, which takes the bits in an order
\* of its own.

PickBit(S) == CHOOSE x \in S : TRUE
IsBits(F, S) ==
    F = [s \in SUBSET S |-> IF s = {} THEN 0 ELSE 2^PickBit(s) + F[s \ {PickBit(s)}]]

LEMMA MaskIs == ASSUME NEW S PROVE Mask(S) = (CHOOSE F : IsBits(F, S))[S]
  BY Zenon DEF Mask, MapThenSumSet, MapThenFoldSet, IsBits, PickBit

LEMMA PickBitIs == ASSUME NEW S, S # {} PROVE PickBit(S) \in S
  BY DEF PickBit

IsBitSet(S) == IsFiniteSet(S) /\ S \subseteq Nat

LEMMA BitSubset == ASSUME NEW S, IsBitSet(S), NEW R, R \subseteq S PROVE IsBitSet(R)
  BY FS_Subset DEF IsBitSet

\* the sets of up to n bits
Small(S, n) == {A \in SUBSET S : Cardinality(A) <= n}

LEMMA SmallSets ==
  ASSUME NEW S, IsBitSet(S)
  PROVE  /\ \A A \in SUBSET S : IsFiniteSet(A) /\ Cardinality(A) \in Nat
         /\ \A A \in SUBSET S : \A x \in A :
                /\ A \ {x} \in SUBSET S /\ Cardinality(A \ {x}) = Cardinality(A) - 1
                /\ x \in Nat /\ 2^x \in Nat
  <1>1. \A A \in SUBSET S : IsFiniteSet(A) /\ Cardinality(A) \in Nat
        BY FS_Subset, FS_CardinalityType DEF IsBitSet
  <1>2. \A A \in SUBSET S : \A x \in A : A \ {x} \in SUBSET S /\ Cardinality(A \ {x}) = Cardinality(A) - 1
        BY <1>1, FS_RemoveElement
  <1>3. \A A \in SUBSET S : \A x \in A : x \in Nat /\ 2^x \in Nat
        BY PowType DEF IsBitSet
  <1>. QED BY <1>1, <1>2, <1>3

\* induction over the sets of bits of a finite set
LEMMA SetInduction ==
  ASSUME NEW S, IsBitSet(S), NEW X,
         \A A \in SUBSET S : (\A x \in A : A \ {x} \in X) => A \in X
  PROVE  SUBSET S \subseteq X
  <1>. DEFINE N == {n \in Nat : \A A \in SUBSET S : Cardinality(A) <= n => A \in X}
  <1>0. /\ \A A \in SUBSET S : IsFiniteSet(A) /\ Cardinality(A) \in Nat
        /\ \A A \in SUBSET S : \A x \in A :
                /\ A \ {x} \in SUBSET S /\ Cardinality(A \ {x}) = Cardinality(A) - 1
                /\ x \in Nat /\ 2^x \in Nat
        BY SmallSets
  <1>1. 0 \in N
        <2>. SUFFICES ASSUME NEW A \in SUBSET S, Cardinality(A) <= 0 PROVE A \in X
             OBVIOUS
        <2>1. A = {}  BY <1>0, FS_EmptySet
        <2>. QED BY <2>1
  <1>2. ASSUME NEW n \in Nat, n \in N PROVE n + 1 \in N
        <2>. SUFFICES ASSUME NEW A \in SUBSET S, Cardinality(A) <= n + 1 PROVE A \in X
             OBVIOUS
        <2>1. ASSUME NEW x \in A PROVE A \ {x} \in X
              <3>1. A \ {x} \in SUBSET S /\ Cardinality(A \ {x}) <= n  BY <1>0
              <3>. QED BY <3>1, <1>2
        <2>. QED BY <2>1
  <1>3. Nat \subseteq N
        <2>. HIDE DEF N
        <2>. QED BY <1>1, <1>2, Induction
  <1>4. ASSUME NEW A \in SUBSET S PROVE A \in X
        <2>1. Cardinality(A) \in N /\ Cardinality(A) <= Cardinality(A)
              BY <1>3, <1>0
        <2>. QED BY <2>1
  <1>. QED BY <1>4

\* there is such a function
LEMMA BitsExist ==
  ASSUME NEW S, IsBitSet(S)
  PROVE  \E F \in [SUBSET S -> Nat] : IsBits(F, S)
  <1>. DEFINE IsPart(F, n) == \A A \in Small(S, n) :
                  F[A] = IF A = {} THEN 0 ELSE 2^PickBit(A) + F[A \ {PickBit(A)}]
              N == {n \in Nat : \E F \in [Small(S, n) -> Nat] : IsPart(F, n)}
  <1>0. /\ \A A \in SUBSET S : IsFiniteSet(A) /\ Cardinality(A) \in Nat
        /\ \A A \in SUBSET S : \A x \in A :
                /\ A \ {x} \in SUBSET S /\ Cardinality(A \ {x}) = Cardinality(A) - 1
                /\ x \in Nat /\ 2^x \in Nat
        BY SmallSets
  <1>1. \A A \in SUBSET S : A # {} => /\ A \ {PickBit(A)} \in SUBSET S /\ 2^PickBit(A) \in Nat
                                      /\ Cardinality(A \ {PickBit(A)}) = Cardinality(A) - 1
        BY <1>0, PickBitIs
  <1>2. 0 \in N
        <2>1. \A A \in Small(S, 0) : A = {}  BY <1>0, FS_EmptySet DEF Small
        <2>2. /\ IsPart([A \in Small(S, 0) |-> 0], 0)
              /\ [A \in Small(S, 0) |-> 0] \in [Small(S, 0) -> Nat]
              BY <2>1
        <2>. QED BY <2>2
  <1>3. ASSUME NEW n \in Nat, n \in N PROVE n + 1 \in N
        <2>1. PICK F \in [Small(S, n) -> Nat] : IsPart(F, n)  BY <1>3
        <2>. DEFINE G == [A \in Small(S, n + 1) |->
                             IF A = {} THEN 0 ELSE 2^PickBit(A) + F[A \ {PickBit(A)}]]
        <2>2. \A A \in Small(S, n + 1) : A # {} =>
                 /\ A \ {PickBit(A)} \in Small(S, n) /\ F[A \ {PickBit(A)}] \in Nat
                 /\ 2^PickBit(A) \in Nat
              BY <1>1, <1>0 DEF Small
        <2>3. G \in [Small(S, n + 1) -> Nat]  BY <2>2
        <2>4. \A A \in Small(S, n) : A \in Small(S, n + 1) /\ G[A] = F[A]
              <3>1. \A A \in Small(S, n) : A \in Small(S, n + 1)  BY <1>0 DEF Small
              <3>. QED BY <3>1, <2>1
        <2>5. IsPart(G, n + 1)
              <3>. SUFFICES ASSUME NEW A \in Small(S, n + 1)
                            PROVE  G[A] = IF A = {} THEN 0 ELSE 2^PickBit(A) + G[A \ {PickBit(A)}]
                   OBVIOUS
              <3>. QED BY <2>2, <2>4
        <2>. HIDE DEF G, IsPart
        <2>6. \E H \in [Small(S, n + 1) -> Nat] : IsPart(H, n + 1)  BY <2>3, <2>5
        <2>. QED BY <2>6
  <1>4. Nat \subseteq N
        <2>. HIDE DEF N
        <2>. QED BY <1>2, <1>3, Induction
  <1>5. Cardinality(S) \in N  BY <1>4, FS_CardinalityType DEF IsBitSet
  <1>6. PICK F \in [Small(S, Cardinality(S)) -> Nat] : IsPart(F, Cardinality(S))
        BY <1>5
  <1>7. Small(S, Cardinality(S)) = SUBSET S
        BY <1>0, FS_Subset DEF Small
  <1>8. F \in [SUBSET S -> Nat]  BY <1>6, <1>7
  <1>9. \A A \in SUBSET S : F[A] = IF A = {} THEN 0 ELSE 2^PickBit(A) + F[A \ {PickBit(A)}]
        BY <1>6, <1>7
  <1>10. IsBits(F, S)  BY <1>8, <1>9 DEF IsBits
  <1>. QED BY <1>8, <1>10

\* and only one
LEMMA BitsUnique ==
  ASSUME NEW S, IsBitSet(S), NEW F, NEW G, NEW R, R \subseteq S,
         IsBits(F, S), IsBits(G, R)
  PROVE  F[R] = G[R]
  <1>. DEFINE X == {A \in SUBSET R : F[A] = G[A]}
  <1>1. IsBitSet(R)  BY BitSubset
  <1>2. ASSUME NEW A \in SUBSET R, \A x \in A : A \ {x} \in X PROVE A \in X
        <2>1. /\ F[A] = IF A = {} THEN 0 ELSE 2^PickBit(A) + F[A \ {PickBit(A)}]
              /\ G[A] = IF A = {} THEN 0 ELSE 2^PickBit(A) + G[A \ {PickBit(A)}]
              BY DEF IsBits
        <2>2. A # {} => A \ {PickBit(A)} \in X  BY <1>2, PickBitIs
        <2>. QED BY <2>1, <2>2
  <1>3. SUBSET R \subseteq X
        <2>. HIDE DEF X
        <2>. QED BY <1>1, <1>2, SetInduction
  <1>. QED BY <1>3

LEMMA MaskPick ==
  ASSUME NEW S, IsBitSet(S)
  PROVE  /\ Mask(S) \in Nat
         /\ S = {} => Mask(S) = 0
         /\ S # {} => Mask(S) = 2^PickBit(S) + Mask(S \ {PickBit(S)})
  <1>1. PICK F \in [SUBSET S -> Nat] : IsBits(F, S)  BY BitsExist
  <1>2. ASSUME NEW R \in SUBSET S PROVE Mask(R) = F[R]
        <2>1. IsBitSet(R)  BY BitSubset
        <2>. DEFINE G == CHOOSE G : IsBits(G, R)
        <2>2. IsBits(G, R)  BY <2>1, BitsExist
        <2>3. Mask(R) = G[R]  BY MaskIs
        <2>. HIDE DEF G
        <2>5. F[R] = G[R]  BY <1>1, <2>2, BitsUnique
        <2>. QED BY <2>3, <2>5
  <1>3. F[S] = IF S = {} THEN 0 ELSE 2^PickBit(S) + F[S \ {PickBit(S)}]
        BY <1>1 DEF IsBits
  <1>. QED BY <1>1, <1>2, <1>3

\* any bit may be taken first
LEMMA MaskTakes ==
  ASSUME NEW S, IsBitSet(S)
  PROVE  \A x \in S : Mask(S) = 2^x + Mask(S \ {x})
  <1>. DEFINE X == {A \in SUBSET S : \A x \in A : Mask(A) = 2^x + Mask(A \ {x})}
  <1>1. ASSUME NEW A \in SUBSET S, \A x \in A : A \ {x} \in X PROVE A \in X
        <2>. SUFFICES ASSUME NEW x \in A PROVE Mask(A) = 2^x + Mask(A \ {x})
             OBVIOUS
        <2>. DEFINE p == PickBit(A)
        <2>1. p \in A  BY PickBitIs
        <2>2. IsBitSet(A)  BY BitSubset
        <2>3. Mask(A) = 2^p + Mask(A \ {p})  BY <2>1, <2>2, MaskPick
        <2>. HIDE DEF p
        <2>4. CASE x = p  BY <2>3, <2>4
        <2>5. CASE x # p
              <3>1. A \ {p} \in X /\ A \ {x} \in X  BY <1>1, <2>1
              <3>2. Mask(A \ {p}) = 2^x + Mask((A \ {p}) \ {x})  BY <3>1, <2>5
              <3>3. Mask(A \ {x}) = 2^p + Mask((A \ {x}) \ {p})  BY <3>1, <2>1, <2>5
              <3>4. (A \ {p}) \ {x} = (A \ {x}) \ {p}  OBVIOUS
              <3>5. IsBitSet((A \ {x}) \ {p})  BY <2>2, BitSubset
              <3>6. Mask((A \ {x}) \ {p}) \in Nat  BY <3>5, MaskPick
              <3>7. 2^x \in Nat /\ 2^p \in Nat  BY <2>1, <2>2, PowType DEF IsBitSet
              <3>8. PICK u \in Nat, v \in Nat, w \in Nat : u = 2^x /\ v = 2^p /\ w = Mask((A \ {x}) \ {p})
                    BY <3>6, <3>7
              <3>9. Mask(A) = v + (u + w)  BY <2>3, <3>2, <3>4, <3>8
              <3>10. 2^x + Mask(A \ {x}) = u + (v + w)  BY <3>3, <3>8
              <3>. QED BY <3>9, <3>10
        <2>. QED BY <2>4, <2>5
  <1>2. SUBSET S \subseteq X
        <2>. HIDE DEF X
        <2>. QED BY <1>1, SetInduction
  <1>. QED BY <1>2

\* The number of a set of bits below k is below 2^k, and its bits are the set.
HasBits(S, k) == /\ Mask(S) \in 0 .. 2^k - 1
                 /\ \A i \in Nat : (Bit(Mask(S), i) = 1) <=> i \in S

LEMMA MaskBits ==
  ASSUME NEW k \in Nat, NEW S \in SUBSET (0 .. k - 1)
  PROVE  HasBits(S, k)
  <1>. DEFINE X == {n \in Nat : \A A \in SUBSET (0 .. n - 1) : HasBits(A, n)}
  <1>1. 0 \in X
        <2>. SUFFICES ASSUME NEW A \in SUBSET (0 .. 0 - 1) PROVE HasBits(A, 0)
             OBVIOUS
        <2>1. A = {}  OBVIOUS
        <2>2. Mask(A) = 0  BY <2>1, FS_EmptySet, MaskPick DEF IsBitSet
        <2>3. ASSUME NEW i \in Nat PROVE Bit(0, i) = 0
              <3>1. PICK p \in Nat \ {0} : p = 2^i  BY PowType
              <3>2. 0 \div p = 0 /\ 0 % 2 = 0  BY <3>1
              <3>. QED BY <3>1, <3>2 DEF Bit
        <2>. QED BY <2>1, <2>2, <2>3, PowZero DEF HasBits
  <1>2. ASSUME NEW n \in Nat, n \in X PROVE n + 1 \in X
        <2>. SUFFICES ASSUME NEW A \in SUBSET (0 .. n + 1 - 1) PROVE HasBits(A, n + 1)
             OBVIOUS
        <2>. DEFINE B == A \ {n}
                    m == Mask(B)
        <2>1. B \in SUBSET (0 .. n - 1) /\ n \notin B  OBVIOUS
        <2>2. HasBits(B, n)  BY <1>2, <2>1
        <2>4. 2^(n + 1) = 2^n + 2^n /\ 2^n \in Nat /\ 2^n > 0  BY PowNext, PowType
        <2>3. m \in Nat /\ m < 2^n /\ \A i \in Nat : (Bit(m, i) = 1) <=> i \in B
              <3>1. m \in 0 .. 2^n - 1 /\ \A i \in Nat : (Bit(m, i) = 1) <=> i \in B
                    BY <2>2 DEF HasBits
              <3>. HIDE DEF m, B
              <3>. QED BY <3>1, <2>4
        <2>5. CASE n \notin A
              <3>1. A = B /\ Mask(A) = m  BY <2>5
              <3>. HIDE DEF m
              <3>2. Mask(A) \in 0 .. 2^(n + 1) - 1  BY <3>1, <2>3, <2>4
              <3>. QED BY <3>1, <3>2, <2>3 DEF HasBits
        <2>6. CASE n \in A
              <3>1. IsBitSet(A)
                    <4>1. IsFiniteSet(0 .. n + 1 - 1)  BY FS_Interval
                    <4>2. A \subseteq 0 .. n + 1 - 1  OBVIOUS
                    <4>3. IsFiniteSet(A)  BY <4>1, <4>2, FS_Subset
                    <4>. QED BY <4>3, <4>2 DEF IsBitSet
              <3>2. Mask(A) = 2^n + m  BY <2>6, <3>1, MaskTakes
              <3>. HIDE DEF m, B
              <3>3. Mask(A) \in 0 .. 2^(n + 1) - 1  BY <3>2, <2>3, <2>4
              <3>4. ASSUME NEW i \in Nat PROVE (Bit(2^n + m, i) = 1) <=> i \in A
                    <4>1. CASE i < n
                          <5>1. n - i - 1 \in Nat /\ n = (i + 1) + (n - i - 1) /\ i + 1 \in Nat
                                BY <4>1
                          <5>2. PICK d \in Nat \ {0} : d = 2^i  BY PowType
                          <5>3. PICK c \in Nat : c = 2^(n - i - 1)  BY <5>1, PowType
                          <5>4. 2^n = (d + d) * c
                                <6>1. 2^((i + 1) + (n - i - 1)) = 2^(i + 1) * 2^(n - i - 1)
                                      BY <5>1, PowSum
                                <6>2. 2^(i + 1) = 2^i + 2^i  BY PowNext
                                <6>3. 2^n = 2^((i + 1) + (n - i - 1))  BY <5>1, Zenon
                                <6>. QED BY <6>1, <6>2, <6>3, <5>2, <5>3, Zenon
                          <5>5. PICK q \in Int : q = m \div d  BY <2>3, <5>2, DivMod
                          <5>6. PICK r \in 0 .. d - 1 : r = m % d  BY <2>3, <5>2, DivMod
                          <5>7. m = d * q + r  BY <2>3, <5>5, <5>6, DivMod
                          <5>8. 2^n + m = d * (c + c + q) + r
                                <6>1. (d + d) * c = d * (c + c)  OBVIOUS
                                <6>2. d * (c + c) + d * q = d * (c + c + q)  OBVIOUS
                                <6>3. d * (c + c) \in Int /\ d * q \in Int /\ d * (c + c + q) \in Int
                                      OBVIOUS
                                <6>. QED BY <5>4, <5>7, <6>1, <6>2, <6>3
                          <5>9. (2^n + m) \div d = c + c + q
                                <6>1. c + c + q \in Int  OBVIOUS
                                <6>. QED BY <5>8, <6>1, DivModIs, ZenonT(60)
                          <5>10. (c + c + q) % 2 = q % 2  OBVIOUS
                          <5>11. Bit(2^n + m, i) = Bit(m, i)
                                BY <5>2, <5>5, <5>9, <5>10 DEF Bit
                          <5>12. i \in A <=> i \in B  BY <4>1 DEF B
                          <5>. QED BY <5>11, <5>12, <2>3
                    <4>2. CASE i = n
                          <5>1. PICK d \in Nat \ {0} : d = 2^n  BY <2>4
                          <5>2. d + m = d * 1 + m /\ m \in 0 .. d - 1  BY <2>3, <5>1
                          <5>3. (d + m) \div d = 1  BY <5>2, DivModIs
                          <5>4. 1 % 2 = 1  OBVIOUS
                          <5>5. Bit(2^n + m, n) = 1  BY <5>1, <5>3, <5>4 DEF Bit
                          <5>. QED BY <5>5, <4>2, <2>6
                    <4>3. CASE i > n
                          <5>1. i - (n + 1) \in Nat /\ i = (n + 1) + (i - (n + 1)) /\ n + 1 \in Nat
                                BY <4>3
                          <5>2. PICK c \in Nat \ {0} : c = 2^(i - (n + 1))  BY <5>1, PowType
                          <5>3. PICK e \in Nat \ {0} : e = 2^(n + 1)  BY <5>1, PowType
                          <5>4. 2^i = e * c  BY <5>1, <5>2, <5>3, PowSum
                          <5>5. e * c >= e /\ e * c \in Nat \ {0}  OBVIOUS
                          <5>6. 2^n + m \in 0 .. e * c - 1
                                BY <2>3, <2>4, <5>3, <5>5
                          <5>7. PICK d \in Nat \ {0} : d = 2^i  BY PowType
                          <5>8. 2^n + m = d * 0 + (2^n + m) /\ 2^n + m \in 0 .. d - 1
                                BY <5>4, <5>6, <5>7
                          <5>9. (2^n + m) \div d = 0  BY <5>8, DivModIs
                          <5>10. Bit(2^n + m, i) = 0
                                <6>1. 0 % 2 = 0  OBVIOUS
                                <6>. QED BY <5>7, <5>9, <6>1 DEF Bit
                          <5>11. i \notin A  BY <4>3
                          <5>. QED BY <5>10, <5>11
                    <4>. QED BY <4>1, <4>2, <4>3
              <3>. QED BY <3>2, <3>3, <3>4 DEF HasBits
        <2>. QED BY <2>5, <2>6
  <1>3. Nat \subseteq X
        <2>. HIDE DEF X
        <2>. QED BY <1>1, <1>2, Induction
  <1>. QED BY <1>3

-----------------------------------------------------------------------------
\* Numbers of two words

LEMMA BaseIs ==
  /\ Word \in Nat /\ Pair \in Nat /\ 2^Word \in Nat /\ 2^Word > 4
  /\ Max32 = 2^Word - 1 /\ 2^Pair = 2^Word * 2^Word
  <1>1. ByteBits \in Nat \ {0}  BY WidthAssumption
  <1>2. Word \in Nat /\ Word >= 4 /\ Pair = Word + Word  BY <1>1 DEF Word, Pair
  <1>. HIDE DEF Word, Pair
  <1>3. 2^Word \in Nat /\ 2^Word > Word  BY <1>2, PowType
  <1>4. 2^(Word + Word) = 2^Word * 2^Word  BY <1>2, PowSum
  <1>. QED BY <1>2, <1>3, <1>4 DEF Max32

LEMMA ModOfMod ==
  ASSUME NEW w \in Nat \ {0}, NEW x \in Int
  PROVE  (x % (w * w)) % w = x % w
  <1>1. PICK v \in Nat \ {0} : v = w * w
        <2>1. w * w \in Nat \ {0}  OBVIOUS
        <2>. QED BY <2>1
  <1>2. PICK q \in Int, r \in 0 .. v - 1 : q = x \div v /\ r = x % v /\ x = v * q + r
        BY DivMod, Zenon
  <1>6. r \in Int  OBVIOUS
  <1>3. PICK p \in Int, s \in 0 .. w - 1 : p = r \div w /\ s = r % w /\ r = w * p + s
        BY <1>6, DivMod, Zenon
  <1>4. x = w * (w * q + p) + s
        <2>1. (w * w) * q = w * (w * q)  OBVIOUS
        <2>2. w * (w * q) + w * p = w * (w * q + p)  OBVIOUS
        <2>. QED BY <1>1, <1>2, <1>3, <2>1, <2>2
  <1>5. x % w = s
        <2>1. w * q + p \in Int  OBVIOUS
        <2>. QED BY <1>4, <2>1, DivModIs
  <1>. QED BY <1>1, <1>2, <1>3, <1>5

LEMMA LowOf ==
  ASSUME NEW x \in Int
  PROVE  Low(U64(x)) = x % 2^Word /\ Low(U32(x)) = x % 2^Word
  <1>1. PICK w \in Nat \ {0} : w = 2^Word  BY BaseIs
  <1>2. Low(U64(x)) = (x % (w * w)) % w  BY <1>1, BaseIs DEF Low, U32, U64
  <1>3. Low(U32(x)) = (x % w) % w  BY <1>1 DEF Low, U32
  <1>4. (x % w) % w = x % w  OBVIOUS
  <1>. QED BY <1>1, <1>2, <1>3, <1>4, ModOfMod

\* a remainder of the width is the number, when it fits
LEMMA Fits ==
  ASSUME NEW x \in Int
  PROVE  /\ 0 <= x /\ x < 2^Word => U32(x) = x /\ U64(x) = x /\ Low(x) = x
         /\ 0 <= x /\ x < 2^Word + 2^Word => U64(x) = x
         /\ x < 0 /\ x > -(2^Word + 2^Word) => U64(x) = x + 2^Word * 2^Word
  <1>1. PICK w \in Nat \ {0} : w = 2^Word /\ w > 4  BY BaseIs
  <1>2. PICK v \in Nat \ {0} : v = w * w /\ v >= 4 * w
        <2>1. w * w \in Nat \ {0} /\ w * w >= 4 * w  BY <1>1
        <2>. QED BY <2>1
  <1>3. U32(x) = x % w /\ U64(x) = x % v /\ Low(x) = x % w
        BY <1>1, <1>2, BaseIs DEF U32, U64, Low
  <1>4. 0 <= x /\ x < w => x % w = x  OBVIOUS
  <1>5. 0 <= x /\ x < v => x % v = x  OBVIOUS
  <1>6. x < 0 /\ x > -(w + w) => x % v = x + v
        <2>. SUFFICES ASSUME x < 0, x > -(w + w) PROVE x % v = x + v
             OBVIOUS
        <2>1. PICK q \in Int, r \in 0 .. v - 1 : q = 0 - 1 /\ r = x + v /\ x = v * q + r
              BY <1>2
        <2>3. x = v * q + r  BY <2>1
        <2>2. x % v = r  BY <2>3, DivModIs
        <2>. QED BY <2>1, <2>2
  <1>. QED BY <1>1, <1>2, <1>3, <1>4, <1>5, <1>6

\* the sum or difference of two words, the carry it leaves, and what a carry adds
Total(op, a, b) == IF op = "add" THEN a + b ELSE Difference(op, a, b)
Leaves(op, x) == IF op = "add" THEN x > Max32 ELSE x < 0
Carried(op, c) == IF op = "add" THEN c ELSE 0 - c

WideOp == {"add", "sub", "rsub"}

LEMMA CarriedType ==
  ASSUME NEW op \in WideOp, NEW c \in {0, 1}
  PROVE  /\ Carried(op, c) \in -1 .. 1 /\ Carried(op, 0) = 0
         /\ op = "add" => Carried(op, c) = c
         /\ op # "add" => Carried(op, c) = 0 - c
  <1>1. CASE op = "add"  BY <1>1 DEF Carried
  <1>2. CASE op # "add"  BY <1>2 DEF Carried
  <1>. QED BY <1>1, <1>2

\* the carry is what the remainder leaves out
LEMMA CarryIs ==
  ASSUME NEW op \in WideOp, NEW a \in 0 .. Max32, NEW b \in 0 .. Max32, NEW c \in {0, 1}
  PROVE  LET x == Total(op, a, b) + Carried(op, c)
         IN  /\ x \in Int
             /\ x % 2^Word \in 0 .. Max32
             /\ x = 2^Word * Carried(op, Truth(Leaves(op, x))) + (x % 2^Word)
  <1>1. PICK w \in Nat \ {0} : w = 2^Word /\ Max32 = w - 1  BY BaseIs
  <1>. DEFINE x == Total(op, a, b) + Carried(op, c)
              k == Carried(op, Truth(Leaves(op, x)))
  <1>2. /\ x \in Int /\ k \in -1 .. 1
        /\ x - w * k \in 0 .. w - 1
        <2>1. CASE op = "add"
              <3>1. x = a + b + c  BY <2>1 DEF Total, Carried
              <3>2. k = IF x > Max32 THEN 1 ELSE 0  BY <2>1 DEF Carried, Leaves, Truth
              <3>. HIDE DEF x, k
              <3>3. CASE x > Max32  BY <1>1, <3>1, <3>2, <3>3
              <3>4. CASE ~ (x > Max32)  BY <1>1, <3>1, <3>2, <3>4
              <3>. QED BY <3>3, <3>4
        <2>2. CASE op \in {"sub", "rsub"}
              <3>1. x = Difference(op, a, b) - c
                    <4>1. Total(op, a, b) = Difference(op, a, b) /\ Carried(op, c) = 0 - c
                          BY <2>2 DEF Total, Carried
                    <4>2. Difference(op, a, b) \in Int  BY <1>1 DEF Difference
                    <4>. QED BY <4>1, <4>2
              <3>2. Difference(op, a, b) \in 0 - Max32 .. Max32  BY <1>1 DEF Difference
              <3>3. k = 0 - Truth(x < 0)  BY <2>2 DEF Carried, Leaves
              <3>. HIDE DEF x, k
              <3>4. CASE x < 0
                    <4>1. k = 0 - 1  BY <3>3, <3>4 DEF Truth
                    <4>. QED BY <1>1, <3>1, <3>2, <3>4, <4>1
              <3>5. CASE ~ (x < 0)
                    <4>1. k = 0 - 0  BY <3>3, <3>5 DEF Truth
                    <4>. QED BY <1>1, <3>1, <3>2, <3>5, <4>1
              <3>. QED BY <3>4, <3>5
        <2>. QED BY <2>1, <2>2 DEF WideOp
  <1>. HIDE DEF x, k
  <1>3. w * k \in Int  BY <1>2
  <1>4. x = w * k + (x - w * k)  BY <1>2, <1>3
  <1>5. x % w = x - w * k
        <2>1. PICK r \in 0 .. w - 1 : r = x - w * k  BY <1>2
        <2>2. x = w * k + r /\ k \in Int  BY <1>2, <1>4, <2>1
        <2>3. x % w = r  BY <2>2, DivModIs, Zenon
        <2>. QED BY <2>1, <2>3
  <1>6. x = w * k + (x % w)  BY <1>4, <1>5
  <1>7. x % w \in 0 .. w - 1  BY <1>2, <1>5
  <1>. QED BY <1>1, <1>2, <1>6, <1>7 DEF x, k

\* a sum is a word and a carry
HasCarry(op, x) ==
    /\ x \in Int
    /\ x % 2^Word \in 0 .. Max32
    /\ x = 2^Word * Carried(op, Truth(Leaves(op, x))) + (x % 2^Word)

LEMMA CarryOf ==
  ASSUME NEW op \in WideOp, NEW a \in 0 .. Max32, NEW b \in 0 .. Max32, NEW c \in {0, 1}
  PROVE  HasCarry(op, Total(op, a, b) + Carried(op, c))
  BY CarryIs, Zenon DEF HasCarry

\* two digits of base w, with the carry k of the first and l of the second
LEMMA TwoDigits ==
  ASSUME NEW w \in Nat \ {0}, NEW k \in Int, NEW l \in Int,
         NEW lo \in 0 .. w - 1, NEW hi \in 0 .. w - 1,
         NEW x \in Int, NEW y \in Int, NEW d \in Int,
         x = w * k + lo, y = w * l + hi, d = x + w * (y - k)
  PROVE  /\ w * w \in Nat \ {0} /\ lo + w * hi \in 0 .. w * w - 1
         /\ d = (w * w) * l + (lo + w * hi)
  <1>1. w * (y - k) = w * y - w * k /\ w * y \in Int /\ w * k \in Int  OBVIOUS
  <1>2. w * (w * l + hi) = w * (w * l) + w * hi  OBVIOUS
  <1>3. w * (w * l) = (w * w) * l /\ (w * w) * l \in Int /\ w * hi \in Int  OBVIOUS
  <1>4. w * hi >= 0 /\ w * hi <= w * (w - 1) /\ w * (w - 1) = w * w - w /\ w * w \in Nat \ {0}
        OBVIOUS
  <1>5. w * y = (w * w) * l + w * hi  BY <1>2, <1>3
  <1>6. d = (w * w) * l + (lo + w * hi)  BY <1>1, <1>3, <1>5
  <1>. QED BY <1>3, <1>4, <1>6

LEMMA ThreeRanges ==
  ASSUME NEW v \in Nat \ {0}, NEW l \in -1 .. 1, NEW r \in 0 .. v - 1, NEW d, d = v * l + r
  PROVE  d \in Int /\ (d >= v <=> l = 1) /\ (d < 0 <=> l = -1) /\ d % v = r
  <1>1. d \in Int /\ l \in Int  OBVIOUS
  <1>2. d % v = r  BY <1>1, DivModIs, Zenon
  <1>3. CASE l = 0
        <2>1. d = r  BY <1>3
        <2>. QED BY <1>2, <1>3, <2>1
  <1>4. CASE l = 1
        <2>1. d = v + r  BY <1>4
        <2>. QED BY <1>2, <1>4, <2>1
  <1>5. CASE l = -1
        <2>1. d = r - v  BY <1>5
        <2>. QED BY <1>2, <1>5, <2>1
  <1>. QED BY <1>3, <1>4, <1>5

\* The two words of a sum or difference, done one after the other, are those of
\* the wide one, and the last carry is its overflow.
LEMMA TwoWords ==
  ASSUME NEW op \in WideOp, NEW a0 \in 0 .. Max32, NEW a1 \in 0 .. Max32,
         NEW b0 \in 0 .. Max32, NEW b1 \in 0 .. Max32
  PROVE  LET x == Total(op, a0, b0)
             y == Total(op, a1, b1) + Carried(op, Truth(Leaves(op, x)))
             A == PairOf(<<a0, a1>>)
             B == PairOf(<<b0, b1>>)
         IN  /\ PairOf(<<x % 2^Word, y % 2^Word>>) = WideResult(op, A, B)
             /\ Leaves(op, y) <=> Overflows(op, A, B)
  <1>1. PICK w \in Nat \ {0} : w = 2^Word /\ Max32 = w - 1 /\ 2^Pair = w * w  BY BaseIs
  <1>. DEFINE x == Total(op, a0, b0)
              k == Carried(op, Truth(Leaves(op, x)))
              y == Total(op, a1, b1) + k
              l == Carried(op, Truth(Leaves(op, y)))
              lo == x % w
              hi == y % w
              A == PairOf(<<a0, a1>>)
              B == PairOf(<<b0, b1>>)
              d == Total(op, A, B)
  <1>2. x \in Int /\ lo \in 0 .. w - 1 /\ x = w * k + lo
        <2>1. Carried(op, 0) = 0  BY CarriedType
        <2>2. Total(op, a0, b0) \in Int  BY <1>1 DEF Total, Difference
        <2>3. 0 \in {0, 1}  OBVIOUS
        <2>4. HasCarry(op, Total(op, a0, b0) + Carried(op, 0))  BY <2>3, CarryOf, Zenon
        <2>5. Total(op, a0, b0) + Carried(op, 0) = x  BY <2>1, <2>2
        <2>6. HasCarry(op, x)  BY <2>4, <2>5
        <2>. HIDE DEF x
        <2>. QED BY <1>1, <2>6 DEF HasCarry
  <1>3. y \in Int /\ hi \in 0 .. w - 1 /\ y = w * l + hi
        <2>1. PICK c \in {0, 1} : c = Truth(Leaves(op, x))  BY DEF Truth
        <2>2. HasCarry(op, Total(op, a1, b1) + Carried(op, c))  BY CarryOf, Zenon
        <2>3. HasCarry(op, y)  BY <2>1, <2>2
        <2>. HIDE DEF y
        <2>. QED BY <1>1, <2>3 DEF HasCarry
  <1>4. A = a0 + w * a1 /\ B = b0 + w * b1  BY <1>1 DEF PairOf
  <1>5. k \in -1 .. 1 /\ l \in -1 .. 1
        <2>1. Truth(Leaves(op, x)) \in {0, 1} /\ Truth(Leaves(op, y)) \in {0, 1}  BY DEF Truth
        <2>. QED BY <2>1, CarriedType
  <1>6. y = Total(op, a1, b1) + k /\ x = Total(op, a0, b0)  OBVIOUS
  <1>7. d = x + w * (y - k) /\ d \in Int
        <2>1. CASE op = "add"
              <3>1. x = a0 + b0 /\ y - k = a1 + b1  BY <1>1, <1>5, <1>6, <2>1 DEF Total
              <3>2. d = A + B  BY <2>1 DEF Total
              <3>3. w * (a1 + b1) = w * a1 + w * b1 /\ w * a1 \in Int /\ w * b1 \in Int  BY <1>1
              <3>. HIDE DEF x, y, k, d, A, B
              <3>. QED BY <1>1, <1>4, <3>1, <3>2, <3>3
        <2>2. CASE op = "sub"
              <3>1. x = a0 - b0 /\ y - k = a1 - b1  BY <1>1, <1>5, <1>6, <2>2 DEF Total, Difference
              <3>2. d = A - B  BY <2>2 DEF Total, Difference
              <3>3. w * (a1 - b1) = w * a1 - w * b1 /\ w * a1 \in Int /\ w * b1 \in Int  BY <1>1
              <3>. HIDE DEF x, y, k, d, A, B
              <3>. QED BY <1>1, <1>4, <3>1, <3>2, <3>3
        <2>3. CASE op = "rsub"
              <3>1. x = b0 - a0 /\ y - k = b1 - a1  BY <1>1, <1>5, <1>6, <2>3 DEF Total, Difference
              <3>2. d = B - A  BY <2>3 DEF Total, Difference
              <3>3. w * (b1 - a1) = w * b1 - w * a1 /\ w * a1 \in Int /\ w * b1 \in Int  BY <1>1
              <3>. HIDE DEF x, y, k, d, A, B
              <3>. QED BY <1>1, <1>4, <3>1, <3>2, <3>3
        <2>. QED BY <2>1, <2>2, <2>3 DEF WideOp
  <1>8. /\ Leaves(op, y) <=> IF op = "add" THEN l = 1 ELSE l = -1
        /\ op = "add" => l >= 0
        /\ op # "add" => l <= 0
        BY DEF Carried, Truth
  <1>9. /\ Overflows(op, A, B) <=> IF op = "add" THEN d >= w * w ELSE d < 0
        /\ WideResult(op, A, B) = d % (w * w)
        /\ PairOf(<<x % 2^Word, y % 2^Word>>) = lo + w * hi
        BY <1>1 DEF Overflows, WideResult, Total, U64, PairOf
  <1>. HIDE DEF x, y, k, l, lo, hi, A, B, d
  <1>10. PICK v \in Nat \ {0} : \E r \in 0 .. v - 1 : v = w * w /\ r = lo + w * hi /\ d = v * l + r
         <2>1. k \in Int /\ l \in Int  BY <1>5
         <2>. QED BY <1>2, <1>3, <1>7, <2>1, TwoDigits
  <1>11. PICK r \in 0 .. v - 1 : v = w * w /\ r = lo + w * hi /\ d = v * l + r  BY <1>10
  <1>12. (d >= v <=> l = 1) /\ (d < 0 <=> l = -1) /\ d % v = r
         <2>1. l \in -1 .. 1 /\ d = v * l + r  BY <1>5, <1>11
         <2>. QED BY <2>1, ThreeRanges, Zenon
  <1>13. Overflows(op, A, B) <=> Leaves(op, y)
         <2>1. CASE op = "add"
               <3>1. Overflows(op, A, B) <=> d >= v  BY <1>9, <1>11, <2>1
               <3>2. Leaves(op, y) <=> l = 1  BY <1>8, <2>1
               <3>. QED BY <1>12, <3>1, <3>2
         <2>2. CASE op # "add"
               <3>1. Overflows(op, A, B) <=> d < 0  BY <1>9, <2>2
               <3>2. Leaves(op, y) <=> l = -1  BY <1>8, <2>2
               <3>. QED BY <1>12, <3>1, <3>2
         <2>. QED BY <2>1, <2>2
  <1>14. PairOf(<<x % 2^Word, y % 2^Word>>) = WideResult(op, A, B)
         BY <1>9, <1>11, <1>12
  <1>. QED BY <1>13, <1>14 DEF x, y, k, A, B

-----------------------------------------------------------------------------
\* What the instructions of the chains do to the registers of an emulated wave

Words32 == 0 .. Max32

LEMMA LaneBits ==
  ASSUME NEW S \in SUBSET Lanes
  PROVE  /\ Mask(S) \in 0 .. 2^Pair - 1
         /\ \A i \in Lanes : Masked(Mask(S), i) <=> i \in S
         /\ \A i \in Lanes : Bit(Mask(S), i) = Truth(i \in S)
  <1>1. Lanes \subseteq 0 .. Pair - 1  BY LanesAssumption DEF Pair
  <1>2. S \in SUBSET (0 .. Pair - 1)  BY <1>1
  <1>3. HasBits(S, Pair)  BY <1>2, BaseIs, MaskBits
  <1>4. \A i \in Lanes : (Bit(Mask(S), i) = 1) <=> i \in S
        BY <1>1, <1>3 DEF HasBits
  <1>5. Mask(S) \in 0 .. 2^Pair - 1  BY <1>3 DEF HasBits
  <1>6. \A i \in Lanes : Bit(Mask(S), i) \in {0, 1}
        <2>. SUFFICES ASSUME NEW i \in Lanes PROVE Bit(Mask(S), i) \in {0, 1}
             OBVIOUS
        <2>1. PICK m \in Int : m = Mask(S)  BY <1>5
        <2>2. i \in Nat  BY <1>1
        <2>3. PICK d \in Nat \ {0} : d = 2^i  BY <2>2, PowType
        <2>4. PICK q \in Int : q = m \div d  BY DivMod
        <2>5. q % 2 \in {0, 1}  OBVIOUS
        <2>. QED BY <2>1, <2>3, <2>4, <2>5 DEF Bit
  <1>. QED BY <1>4, <1>5, <1>6 DEF Masked, Truth

LEMMA ReadWord ==
  ASSUME NEW e, NEW n \in Nat, NEW i, e.vreg[i][n] \in Int
  PROVE  E!ReadPair(e, VReg(n, 1), i) = e.vreg[i][n]
  <1>. DEFINE o == VReg(n, 1)
  <1>1. o.kind = "v" /\ o.n = n /\ o.count = 1  BY DEF VReg
  <1>2. E!Count(o) = 1  BY <1>1 DEF E!Count
  <1>3. E!ReadReg(e, o, i) = [k \in 1 .. 1 |-> e.vreg[i][n + k - 1]]
        BY <1>1, <1>2 DEF E!ReadReg
  <1>. DEFINE w == [k \in 1 .. 1 |-> e.vreg[i][n + k - 1]]
  <1>4. Len(w) = 1 /\ w[1] = e.vreg[i][n]
        <2>1. n + 1 - 1 = n  OBVIOUS
        <2>2. w[1] = e.vreg[i][n + 1 - 1] /\ w = <<w[1]>>  OBVIOUS
        <2>. QED BY <2>1, <2>2
  <1>5. E!ReadOperand(e, o, i, 2) = E!Slot(w, 2)
        BY <1>1, <1>3 DEF E!ReadOperand
  <1>6. E!Slot(w, 2) = [k \in 1 .. 2 |-> IF k <= Len(w) THEN w[k] ELSE 0]
        BY DEF E!Slot
  <1>. HIDE DEF w, o
  <1>7. E!Slot(w, 2) = <<e.vreg[i][n], 0>>
        <2>1. [k \in 1 .. 2 |-> IF k <= Len(w) THEN w[k] ELSE 0] = <<w[1], 0>>
              BY <1>4
        <2>. QED BY <2>1, <1>4, <1>6
  <1>8. 2^Word * 0 = 0 /\ e.vreg[i][n] + 0 = e.vreg[i][n]  BY BaseIs
  <1>9. E!PairOf(<<e.vreg[i][n], 0>>) = e.vreg[i][n] + 2^Word * 0
        BY DEF E!PairOf, E!Word, Word
  <1>. QED BY <1>5, <1>7, <1>8, <1>9 DEF E!ReadPair, o

LEMMA ReadScalar ==
  ASSUME NEW e, NEW n \in Nat, NEW i, e.sreg[n] \in Int
  PROVE  E!ReadPair(e, SReg(n, 1), i) = e.sreg[n]
  <1>. DEFINE o == SReg(n, 1)
  <1>1. o.kind = "s" /\ o.n = n /\ o.count = 1  BY DEF SReg
  <1>2. E!Count(o) = 1  BY <1>1 DEF E!Count
  <1>3. E!ReadReg(e, o, i) = [k \in 1 .. 1 |-> e.sreg[n + k - 1]]
        BY <1>1, <1>2 DEF E!ReadReg
  <1>. DEFINE w == [k \in 1 .. 1 |-> e.sreg[n + k - 1]]
  <1>4. Len(w) = 1 /\ w[1] = e.sreg[n]
        <2>1. n + 1 - 1 = n  OBVIOUS
        <2>2. w[1] = e.sreg[n + 1 - 1] /\ w = <<w[1]>>  OBVIOUS
        <2>. QED BY <2>1, <2>2
  <1>5. E!ReadOperand(e, o, i, 2) = E!Slot(w, 2)
        BY <1>1, <1>3 DEF E!ReadOperand
  <1>6. E!Slot(w, 2) = [k \in 1 .. 2 |-> IF k <= Len(w) THEN w[k] ELSE 0]
        BY DEF E!Slot
  <1>. HIDE DEF w, o
  <1>7. E!Slot(w, 2) = <<e.sreg[n], 0>>
        <2>1. [k \in 1 .. 2 |-> IF k <= Len(w) THEN w[k] ELSE 0] = <<w[1], 0>>
              BY <1>4
        <2>. QED BY <2>1, <1>4, <1>6
  <1>8. 2^Word * 0 = 0 /\ e.sreg[n] + 0 = e.sreg[n]  BY BaseIs
  <1>9. E!PairOf(<<e.sreg[n], 0>>) = e.sreg[n] + 2^Word * 0
        BY DEF E!PairOf, E!Word, Word
  <1>. QED BY <1>5, <1>7, <1>8, <1>9 DEF E!ReadPair, o

\* two registers that hold the words of a mask give the mask back
LEMMA ReadScalars ==
  ASSUME NEW e, NEW n \in Nat, NEW i
  PROVE  E!ReadPair(e, SReg(n, 2), i) = e.sreg[n] + 2^Word * e.sreg[n + 1]
  <1>. DEFINE o == SReg(n, 2)
  <1>1. o.kind = "s" /\ o.n = n /\ o.count = 2  BY DEF SReg
  <1>2. E!Count(o) = 2  BY <1>1 DEF E!Count
  <1>3. E!ReadReg(e, o, i) = [k \in 1 .. 2 |-> e.sreg[n + k - 1]]
        BY <1>1, <1>2 DEF E!ReadReg
  <1>. DEFINE w == [k \in 1 .. 2 |-> e.sreg[n + k - 1]]
  <1>4. Len(w) = 2 /\ w[1] = e.sreg[n] /\ w[2] = e.sreg[n + 1]
        <2>1. n + 1 - 1 = n /\ n + 2 - 1 = n + 1  OBVIOUS
        <2>2. w[1] = e.sreg[n + 1 - 1] /\ w[2] = e.sreg[n + 2 - 1] /\ w = <<w[1], w[2]>>  OBVIOUS
        <2>. QED BY <2>1, <2>2
  <1>5. E!ReadOperand(e, o, i, 2) = E!Slot(w, 2)
        BY <1>1, <1>3 DEF E!ReadOperand
  <1>6. E!Slot(w, 2) = [k \in 1 .. 2 |-> IF k <= Len(w) THEN w[k] ELSE 0]
        BY DEF E!Slot
  <1>. HIDE DEF w, o
  <1>7. E!Slot(w, 2) = <<e.sreg[n], e.sreg[n + 1]>>
        <2>1. [k \in 1 .. 2 |-> IF k <= Len(w) THEN w[k] ELSE 0] = <<w[1], w[2]>>
              BY <1>4
        <2>. QED BY <2>1, <1>4, <1>6
  <1>9. E!PairOf(<<e.sreg[n], e.sreg[n + 1]>>) = e.sreg[n] + 2^Word * e.sreg[n + 1]
        BY DEF E!PairOf, E!Word, Word
  <1>. QED BY <1>5, <1>7, <1>9 DEF E!ReadPair, o

\* the low words of a result in a vector register of the active lanes
LEMMA PutLanes ==
  ASSUME NEW e, EmuShape(e), NEW d \in VRegs, NEW exec, NEW words
  PROVE  LET f == E!WriteLanes(e, VReg(d, 1), exec, words)
         IN  /\ EmuShape(f)
             /\ f.exec = e.exec /\ f.vcc = e.vcc /\ f.scc = e.scc /\ f.sreg = e.sreg
             /\ \A i \in Lanes, n \in VRegs :
                  f.vreg[i][n] = IF Masked(exec, i) /\ n = d THEN words[i][1] ELSE e.vreg[i][n]
  <1>. DEFINE o == VReg(d, 1)
              file(i) == [n \in VRegs |-> IF n = d THEN words[i][1] ELSE e.vreg[i][n]]
              v == [i \in Lanes |-> IF Masked(exec, i) THEN file(i) ELSE e.vreg[i]]
  <1>1. o.kind = "v" /\ o.n = d /\ o.count = 1 /\ d \in Nat  BY SizeType DEF VReg
  <1>2. E!Span(o) = {d}  BY <1>1 DEF E!Span, E!Count
  <1>3. \A i \in Lanes : E!WriteReg(e, o, i, words[i]).vreg[i] = file(i)
        <2>. SUFFICES ASSUME NEW i \in Lanes PROVE E!WriteReg(e, o, i, words[i]).vreg[i] = file(i)
             OBVIOUS
        <2>1. E!WriteReg(e, o, i, words[i]) = [e EXCEPT !.vreg[i] =
                [n \in DOMAIN @ |-> IF n \in E!Span(o) THEN words[i][n - o.n + 1] ELSE @[n]]]
              BY <1>1 DEF E!WriteReg
        <2>2. DOMAIN e.vreg[i] = VRegs  BY DEF EmuShape
        <2>3. d - d + 1 = 1  BY <1>1
        <2>4. E!WriteReg(e, o, i, words[i]).vreg[i] =
                [n \in VRegs |-> IF n = d THEN words[i][n - d + 1] ELSE e.vreg[i][n]]
              BY <2>1, <2>2, <1>1, <1>2 DEF EmuShape
        <2>. QED BY <2>3, <2>4
  <1>4. E!WriteLanes(e, o, exec, words) = [e EXCEPT !.vreg = v]
        <2>1. E!WriteLanes(e, o, exec, words) = [e EXCEPT !.vreg = [i \in Lanes |->
                IF Masked(exec, i) THEN E!WriteReg(e, o, i, words[i]).vreg[i] ELSE @[i]]]
              BY <1>1 DEF E!WriteLanes, E!Masked, Masked, E!Bit, Bit
        <2>. QED BY <2>1, <1>3
  <1>5. [e EXCEPT !.vreg = v] = [pc |-> e.pc, m0 |-> e.m0, exec |-> e.exec, vcc |-> e.vcc,
                                 scc |-> e.scc, sreg |-> e.sreg, vreg |-> v]
        <2>. HIDE DEF v
        <2>1. e = [pc |-> e.pc, m0 |-> e.m0, exec |-> e.exec, vcc |-> e.vcc, scc |-> e.scc,
                   sreg |-> e.sreg, vreg |-> e.vreg]
              BY DEF EmuShape
        <2>. QED BY <2>1
  <1>6. \A i \in Lanes : v[i] = [n \in VRegs |-> v[i][n]]
        BY DEF EmuShape
  <1>7. \A i \in Lanes, n \in VRegs :
            v[i][n] = IF Masked(exec, i) /\ n = d THEN words[i][1] ELSE e.vreg[i][n]
        OBVIOUS
  <1>8. v = [i \in Lanes |-> v[i]]  OBVIOUS
  <1>. HIDE DEF v
  <1>. DEFINE f == [pc |-> e.pc, m0 |-> e.m0, exec |-> e.exec, vcc |-> e.vcc,
                    scc |-> e.scc, sreg |-> e.sreg, vreg |-> v]
  <1>9. EmuShape(f)
        <2>1. e.sreg = [n \in SRegs |-> e.sreg[n]]  BY DEF EmuShape
        <2>. QED BY <2>1, <1>6, <1>8 DEF EmuShape
  <1>. QED BY <1>4, <1>5, <1>7, <1>9

\* words in scalar registers
LEMMA PutScalars ==
  ASSUME NEW e, EmuShape(e), NEW n \in Nat, NEW count \in {1, 2}, NEW words
  PROVE  LET f == E!WriteOperand(e, SReg(n, count), 0, words)
         IN  /\ EmuShape(f)
             /\ f.exec = e.exec /\ f.vcc = e.vcc /\ f.scc = e.scc /\ f.vreg = e.vreg
             /\ \A m \in SRegs : f.sreg[m] = IF m \in n .. n + count - 1 THEN words[m - n + 1]
                                             ELSE e.sreg[m]
  <1>. DEFINE o == SReg(n, count)
              g == [m \in SRegs |-> IF m \in n .. n + count - 1 THEN words[m - n + 1] ELSE e.sreg[m]]
  <1>1. o.kind = "s" /\ o.n = n /\ o.count = count  BY DEF SReg
  <1>2. E!Span(o) = n .. n + count - 1  BY <1>1 DEF E!Span, E!Count
  <1>3. E!WriteOperand(e, o, 0, words) = [e EXCEPT !.sreg = g]
        <2>1. E!WriteOperand(e, o, 0, words) = [e EXCEPT !.sreg = [m \in DOMAIN @ |->
                 IF m \in E!Span(o) THEN words[m - o.n + 1] ELSE @[m]]]
              BY <1>1 DEF E!WriteOperand, E!WriteReg
        <2>2. DOMAIN e.sreg = SRegs  BY DEF EmuShape
        <2>. QED BY <2>1, <2>2, <1>1, <1>2
  <1>4. [e EXCEPT !.sreg = g] = [pc |-> e.pc, m0 |-> e.m0, exec |-> e.exec, vcc |-> e.vcc,
                                 scc |-> e.scc, sreg |-> g, vreg |-> e.vreg]
        <2>. HIDE DEF g
        <2>1. e = [pc |-> e.pc, m0 |-> e.m0, exec |-> e.exec, vcc |-> e.vcc, scc |-> e.scc,
                   sreg |-> e.sreg, vreg |-> e.vreg]
              BY DEF EmuShape
        <2>. QED BY <2>1
  <1>5. g = [m \in SRegs |-> g[m]]  OBVIOUS
  <1>6. \A m \in SRegs : g[m] = IF m \in n .. n + count - 1 THEN words[m - n + 1] ELSE e.sreg[m]
        OBVIOUS
  <1>. HIDE DEF g
  <1>7. EmuShape([pc |-> e.pc, m0 |-> e.m0, exec |-> e.exec, vcc |-> e.vcc,
                  scc |-> e.scc, sreg |-> g, vreg |-> e.vreg])
        <2>1. e.vreg = [i \in Lanes |-> e.vreg[i]] /\ \A i \in Lanes : e.vreg[i] = [k \in VRegs |-> e.vreg[i][k]]
              BY DEF EmuShape
        <2>. QED BY <2>1, <1>5 DEF EmuShape
  <1>. QED BY <1>3, <1>4, <1>6, <1>7

-----------------------------------------------------------------------------
\* the sums of the code, from words and a carry

LEMMA TotalRange ==
  ASSUME NEW op \in WideOp, NEW a \in Words32, NEW b \in Words32, NEW c \in {0, 1}
  PROVE  LET y == Total(op, a, b) + Carried(op, c)
         IN  /\ y \in Int /\ y > -(2^Word + 2^Word) /\ y < 2^Word + 2^Word
             /\ op = "add" => y = a + b + c /\ y >= 0
             /\ op = "sub" => y = a - b - c /\ y <= Max32
             /\ op = "rsub" => y = b - a - c /\ y <= Max32
  <1>1. PICK w \in Nat \ {0} : w = 2^Word /\ Max32 = w - 1 /\ w > 4  BY BaseIs
  <1>2. CASE op = "add"  BY <1>1, <1>2 DEF Total, Carried, Words32
  <1>3. CASE op = "sub"  BY <1>1, <1>3 DEF Total, Carried, Difference, Words32
  <1>4. CASE op = "rsub"  BY <1>1, <1>4 DEF Total, Carried, Difference, Words32
  <1>. QED BY <1>2, <1>3, <1>4 DEF WideOp

\* the carry is told from the bits above the low word
LEMMA LongCarry ==
  ASSUME NEW op \in WideOp, NEW a \in Words32, NEW b \in Words32, NEW c \in {0, 1}
  PROVE  LET y == Total(op, a, b) + Carried(op, c)
         IN  /\ U64(y) > Max32 <=> Leaves(op, y)
             /\ U64(y) \in Int
             /\ Low(U64(y)) = y % 2^Word /\ Low(U32(U64(y))) = y % 2^Word
  <1>. DEFINE y == Total(op, a, b) + Carried(op, c)
  <1>1. /\ y \in Int /\ y > -(2^Word + 2^Word) /\ y < 2^Word + 2^Word
        /\ op = "add" => y >= 0
        /\ op # "add" => y <= Max32
        BY TotalRange DEF WideOp
  <1>. HIDE DEF y
  <1>2. PICK w \in Nat \ {0} : w = 2^Word /\ Max32 = w - 1 /\ w > 4  BY BaseIs
  <1>3. /\ 0 <= y => U64(y) = y
        /\ y < 0 => U64(y) = y + w * w
        BY <1>1, <1>2, Fits
  <1>4. w * w >= 4 * w /\ w * w \in Int  BY <1>2
  <1>5. U64(y) \in Int /\ (U64(y) > Max32 <=> Leaves(op, y))
        <2>1. CASE 0 <= y  BY <1>1, <1>2, <1>3, <2>1 DEF Leaves
        <2>2. CASE y < 0  BY <1>1, <1>2, <1>3, <1>4, <2>2 DEF Leaves
        <2>. QED BY <1>1, <2>1, <2>2
  <1>6. Low(U64(y)) = y % 2^Word  BY <1>1, LowOf
  <1>7. Low(U32(U64(y))) = Low(U64(y))
        <2>1. Low(U32(U64(y))) = U64(y) % 2^Word  BY <1>5, LowOf
        <2>. QED BY <2>1 DEF Low, U32
  <1>. QED BY <1>5, <1>6, <1>7 DEF y

\* the carry of AddSubCarryLanes, which loses that of Max32 + 1
Lost(op, b, c) == op = "add" /\ c = 1 /\ b = Max32

LEMMA ShortCarry ==
  ASSUME NEW op \in WideOp, NEW a \in Words32, NEW b \in Words32, NEW c \in {0, 1}
  PROVE  LET y == Total(op, a, b) + Carried(op, c)
         IN  /\ op = "add" => ((a > U64(Max32 - c - b)) <=> (Leaves(op, y) /\ ~Lost(op, b, c)))
             /\ op = "sub" => ((a < U64(b + c)) <=> Leaves(op, y))
             /\ op = "rsub" => ((b < U64(a + c)) <=> Leaves(op, y))
  <1>. DEFINE y == Total(op, a, b) + Carried(op, c)
  <1>1. PICK w \in Nat \ {0} : w = 2^Word /\ Max32 = w - 1 /\ w > 4  BY BaseIs
  <1>2. w * w >= 4 * w /\ w * w \in Int  BY <1>1
  <1>3. a \in 0 .. w - 1 /\ b \in 0 .. w - 1  BY <1>1 DEF Words32
  <1>4. CASE op = "add"
        <2>1. y = a + b + c  BY <1>4, TotalRange
        <2>. HIDE DEF y
        <2>2. Max32 - c - b \in Int /\ Max32 - c - b < w  BY <1>1, <1>3
        <2>3. CASE Lost(op, b, c)
              <3>1. Max32 - c - b = 0 - 1  BY <1>1, <1>3, <2>3 DEF Lost
              <3>2. U64(Max32 - c - b) = Max32 - c - b + w * w  BY <1>1, <2>2, <3>1, Fits
              <3>3. U64(Max32 - c - b) >= 4 * w - 1  BY <1>2, <3>1, <3>2
              <3>. QED BY <1>1, <1>3, <1>4, <2>3, <3>1, <3>2, <3>3, <1>2 DEF y
        <2>4. CASE ~ Lost(op, b, c)
              <3>1. Max32 - c - b >= 0  BY <1>1, <1>3, <1>4, <2>4 DEF Lost
              <3>2. U64(Max32 - c - b) = Max32 - c - b  BY <1>1, <2>2, <3>1, Fits
              <3>3. (a > U64(Max32 - c - b)) <=> (y > Max32)  BY <1>1, <1>3, <2>1, <3>2
              <3>. QED BY <1>4, <2>4, <3>3 DEF Leaves, y
        <2>. QED BY <2>3, <2>4
  <1>5. CASE op = "sub"
        <2>1. y = a - b - c  BY <1>5, TotalRange
        <2>2. b + c \in Int /\ 0 <= b + c /\ b + c < w + w  BY <1>1, <1>3
        <2>3. U64(b + c) = b + c  BY <1>1, <2>2, Fits
        <2>4. Leaves(op, y) <=> y < 0  BY <1>5 DEF Leaves
        <2>. HIDE DEF y
        <2>5. (a < U64(b + c)) <=> y < 0  BY <1>3, <2>1, <2>3
        <2>. QED BY <1>5, <2>4, <2>5 DEF y
  <1>6. CASE op = "rsub"
        <2>1. y = b - a - c  BY <1>6, TotalRange
        <2>2. a + c \in Int /\ 0 <= a + c /\ a + c < w + w  BY <1>1, <1>3
        <2>3. U64(a + c) = a + c  BY <1>1, <2>2, Fits
        <2>4. Leaves(op, y) <=> y < 0  BY <1>6 DEF Leaves
        <2>. HIDE DEF y
        <2>5. (b < U64(a + c)) <=> y < 0  BY <1>3, <2>1, <2>3
        <2>. QED BY <1>6, <2>4, <2>5 DEF y
  <1>. QED BY <1>4, <1>5, <1>6 DEF WideOp

-----------------------------------------------------------------------------
\* instructions on the registers of a wave of the emulator

After(e, inst) == E!Commit(e, inst, Computed(inst, E!Prepare(e, inst)))

VPad(s) == s = [src0 |-> s.src0, src1 |-> s.src1, src2 |-> s.src2, dst |-> s.dst,
                sdst |-> s.sdst, exec |-> s.exec, vcc |-> s.vcc, lit |-> s.lit]

\* the operands of a lane, and the sum of them
Adds(e, s, a, b) ==
    /\ VPad(s) /\ s.exec = e.exec /\ s.vcc = e.vcc
    /\ \A i \in Lanes : s.src0[i] = e.vreg[i][a] /\ s.src1[i] = e.vreg[i][b]

LaneSum(op, e, a, b, i) == Total(op, e.vreg[i][a], e.vreg[i][b])

HasWords(e, a) == a \in VRegs /\ \A i \in Lanes : e.vreg[i][a] \in Words32

LEMMA ComputedIs ==
  ASSUME NEW inst, NEW s
  PROVE  /\ inst.fmt = "VOP2"  => Computed(inst, s) = RunVOP2(inst.op, s, inst)
         /\ inst.fmt = "VOP3a" => Computed(inst, s) = RunVOP3a(inst.op, s, inst)
         /\ inst.fmt = "VOP3b" => Computed(inst, s) = RunVOP3b(inst.op, s, inst)
         /\ inst.fmt = "VOPC"  => Computed(inst, s) = RunVOPC(inst, s)
         /\ inst.fmt = "SOP2"  => Computed(inst, s) = RunSOP2(inst.op, s)
  BY DEF Computed, Run

LEMMA PrepareLanes ==
  ASSUME NEW e, EmuShape(e), NEW a, NEW b, HasWords(e, a), HasWords(e, b), NEW inst,
         inst.fmt \in {"VOP2", "VOP3a", "VOP3b"}, inst.src0 = VReg(a, 1), inst.src1 = VReg(b, 1)
  PROVE  Adds(e, E!Prepare(e, inst), a, b)
  <1>1. a \in Nat /\ b \in Nat  BY SizeType DEF HasWords
  <1>2. \A i \in Lanes : e.vreg[i][a] \in Int /\ e.vreg[i][b] \in Int
        BY BaseIs DEF HasWords, Words32
  <1>3. \A i \in Lanes : /\ E!ReadLanes(e, inst.src0)[i] = e.vreg[i][a]
                         /\ E!ReadLanes(e, inst.src1)[i] = e.vreg[i][b]
        <2>. SUFFICES ASSUME NEW i \in Lanes
                      PROVE  /\ E!ReadLanes(e, inst.src0)[i] = e.vreg[i][a]
                             /\ E!ReadLanes(e, inst.src1)[i] = e.vreg[i][b]
             OBVIOUS
        <2>1. /\ E!ReadLanes(e, inst.src0)[i] = E!ReadPair(e, VReg(a, 1), i)
              /\ E!ReadLanes(e, inst.src1)[i] = E!ReadPair(e, VReg(b, 1), i)
              BY DEF E!ReadLanes
        <2>2. /\ E!ReadPair(e, VReg(a, 1), i) = e.vreg[i][a]
              /\ E!ReadPair(e, VReg(b, 1), i) = e.vreg[i][b]
              BY <1>1, <1>2, ReadWord
        <2>. QED BY <2>1, <2>2
  <1>4. CASE inst.fmt = "VOP2"
        <2>1. E!Prepare(e, inst) = E!PrepareVOP2(e, inst)  BY <1>4 DEF E!Prepare
        <2>. QED BY <2>1, <1>3 DEF E!PrepareVOP2, E!VectorPad, Adds, VPad
  <1>5. CASE inst.fmt \in {"VOP3a", "VOP3b"}
        <2>1. E!Prepare(e, inst) = E!PrepareVOP3(e, inst)  BY <1>5 DEF E!Prepare
        <2>. QED BY <2>1, <1>3 DEF E!PrepareVOP3, E!VectorPad, Adds, VPad
  <1>. QED BY <1>4, <1>5

\* the registers when results go to vector register d of the active lanes
Puts(e, f, d, dst) ==
    /\ EmuShape(f) /\ f.exec = e.exec
    /\ \A i \in Lanes, n \in VRegs :
          f.vreg[i][n] = IF Masked(e.exec, i) /\ n = d THEN Low(dst[i]) ELSE e.vreg[i][n]

LEMMA VCCSet ==
  ASSUME NEW e, EmuShape(e), NEW v
  PROVE  LET f == [e EXCEPT !.vcc = v]
         IN  /\ EmuShape(f) /\ f.exec = e.exec /\ f.vcc = v /\ f.scc = e.scc
             /\ f.sreg = e.sreg /\ f.vreg = e.vreg
  <1>. DEFINE f == [e EXCEPT !.vcc = v]
  <1>1. e = [pc |-> e.pc, m0 |-> e.m0, exec |-> e.exec, vcc |-> e.vcc, scc |-> e.scc,
             sreg |-> e.sreg, vreg |-> e.vreg]
        BY DEF EmuShape
  <1>2. f = [pc |-> e.pc, m0 |-> e.m0, exec |-> e.exec, vcc |-> v, scc |-> e.scc,
             sreg |-> e.sreg, vreg |-> e.vreg]
        BY <1>1
  <1>. HIDE DEF f
  <1>3. EmuShape(f)
        <2>1. /\ e.sreg = [n \in SRegs |-> e.sreg[n]] /\ e.vreg = [i \in Lanes |-> e.vreg[i]]
              /\ \A i \in Lanes : e.vreg[i] = [k \in VRegs |-> e.vreg[i][k]]
              BY DEF EmuShape
        <2>. QED BY <1>2, <2>1 DEF EmuShape
  <1>. QED BY <1>2, <1>3 DEF f

LEMMA VectorEffect ==
  ASSUME NEW e, EmuShape(e), NEW d \in VRegs, NEW inst, inst.dst = VReg(d, 1),
         inst.fmt = "VOP2" \/ (inst.fmt = "VOP3a" /\ inst.op # "V_CMP"),
         NEW s, s.exec = e.exec
  PROVE  LET f == E!Commit(e, inst, s)
         IN  Puts(e, f, d, s.dst) /\ f.vcc = s.vcc /\ f.sreg = e.sreg /\ f.scc = e.scc
  <1>1. E!Commit(e, inst, s) = E!CommitVector(e, inst, s)  BY DEF E!Commit
  <1>. DEFINE g == [e EXCEPT !.vcc = s.vcc]
              words == [i \in Lanes |-> E!WordsOf(s.dst[i])]
  <1>2. /\ EmuShape(g) /\ g.exec = e.exec /\ g.vcc = s.vcc /\ g.scc = e.scc
        /\ g.sreg = e.sreg /\ g.vreg = e.vreg
        BY VCCSet
  <1>3. \A i \in Lanes : words[i][1] = Low(s.dst[i])
        BY DEF E!WordsOf, E!Low, Low, E!U32, U32, E!Word, Word
  <1>4. E!CommitVector(e, inst, s) = E!WriteLanes(g, VReg(d, 1), e.exec, words)
        BY DEF E!CommitVector
  <1>. HIDE DEF g, words
  <1>. QED BY <1>1, <1>2, <1>3, <1>4, PutLanes DEF Puts

\* VOP3b: the mask of the carries goes to two scalar registers
LEMMA MaskEffect ==
  ASSUME NEW e, EmuShape(e), NEW d \in VRegs, NEW m \in Nat, NEW inst, inst.dst = VReg(d, 1),
         inst.sdst = SReg(m, 2), inst.fmt = "VOP3b", NEW s, s.exec = e.exec
  PROVE  LET f == E!Commit(e, inst, s)
         IN  /\ Puts(e, f, d, s.dst) /\ f.vcc = s.vcc /\ f.scc = e.scc
             /\ \A n \in SRegs : f.sreg[n] = IF n = m THEN Low(s.sdst)
                                             ELSE IF n = m + 1 THEN High(s.sdst) ELSE e.sreg[n]
  <1>1. E!Commit(e, inst, s) = E!WriteOperand(E!CommitVector(e, inst, s), SReg(m, 2), 0, E!WordsOf(s.sdst))
        BY DEF E!Commit, E!CommitVOP3b
  <1>. DEFINE g == [e EXCEPT !.vcc = s.vcc]
              words == [i \in Lanes |-> E!WordsOf(s.dst[i])]
              h == E!CommitVector(e, inst, s)
  <1>2. /\ EmuShape(g) /\ g.exec = e.exec /\ g.vcc = s.vcc /\ g.scc = e.scc
        /\ g.sreg = e.sreg /\ g.vreg = e.vreg
        BY VCCSet
  <1>3. \A i \in Lanes : words[i][1] = Low(s.dst[i])
        BY DEF E!WordsOf, E!Low, Low, E!U32, U32, E!Word, Word
  <1>4. E!CommitVector(e, inst, s) = E!WriteLanes(g, VReg(d, 1), e.exec, words)
        BY DEF E!CommitVector
  <1>. HIDE DEF g, words
  <1>5. Puts(e, h, d, s.dst) /\ h.vcc = s.vcc /\ h.sreg = e.sreg /\ h.scc = e.scc
        BY <1>2, <1>3, <1>4, PutLanes DEF Puts
  <1>6. E!WordsOf(s.sdst)[1] = Low(s.sdst) /\ E!WordsOf(s.sdst)[2] = High(s.sdst)
        BY DEF E!WordsOf, E!Low, Low, E!High, High, E!U32, U32, E!Word, Word
  <1>. HIDE DEF h
  <1>7. PICK w : w = E!WordsOf(s.sdst)  OBVIOUS
  <1>8. PICK f : f = E!WriteOperand(h, SReg(m, 2), 0, w)  OBVIOUS
  <1>9. /\ EmuShape(f)
        /\ f.exec = h.exec /\ f.vcc = h.vcc /\ f.scc = h.scc /\ f.vreg = h.vreg
        /\ \A n \in SRegs : f.sreg[n] = IF n \in m .. m + 2 - 1 THEN w[n - m + 1] ELSE h.sreg[n]
        BY <1>5, <1>8, PutScalars DEF Puts
  <1>10. \A n \in SRegs : f.sreg[n] = IF n = m THEN w[1] ELSE IF n = m + 1 THEN w[2] ELSE h.sreg[n]
        <2>. SUFFICES ASSUME NEW n \in SRegs
                      PROVE f.sreg[n] = IF n = m THEN w[1] ELSE IF n = m + 1 THEN w[2] ELSE h.sreg[n]
             OBVIOUS
        <2>1. n \in Nat  BY FilesAssumption
        <2>2. f.sreg[n] = IF n \in m .. m + 2 - 1 THEN w[n - m + 1] ELSE h.sreg[n]  BY <1>9
        <2>3. CASE n = m
              <3>1. n \in m .. m + 2 - 1 /\ n - m + 1 = 1  BY <2>3
              <3>. QED BY <2>2, <2>3, <3>1
        <2>4. CASE n = m + 1
              <3>1. n \in m .. m + 2 - 1 /\ n - m + 1 = 2 /\ n # m  BY <2>4
              <3>. QED BY <2>2, <2>4, <3>1
        <2>5. CASE n # m /\ n # m + 1
              <3>1. n \notin m .. m + 2 - 1  BY <2>1, <2>5
              <3>. QED BY <2>2, <2>5, <3>1
        <2>. QED BY <2>3, <2>4, <2>5
  <1>11. Puts(e, f, d, s.dst)  BY <1>5, <1>9 DEF Puts
  <1>. QED BY <1>1, <1>5, <1>6, <1>7, <1>8, <1>9, <1>10, <1>11 DEF h

-----------------------------------------------------------------------------
\* the vector instructions of a chain, on a scratchpad

\* the results v of the active lanes, and the set of lanes that leave a carry
PadVCC(s, v, S) ==
    [[s EXCEPT !.dst = [i \in Lanes |-> IF Masked(s.exec, i) THEN v[i] ELSE s.dst[i]]]
        EXCEPT !.vcc = Mask(S)]
PadSDST(s, v, S) ==
    [[s EXCEPT !.dst = [i \in Lanes |-> IF Masked(s.exec, i) THEN v[i] ELSE s.dst[i]]]
        EXCEPT !.sdst = Mask(S)]

LEMMA PadVCCIs ==
  ASSUME NEW s, VPad(s), NEW v, NEW S \in SUBSET Lanes
  PROVE  LET r == PadVCC(s, v, S)
         IN  /\ r.exec = s.exec /\ r.vcc = Mask(S)
             /\ \A i \in Lanes : Masked(s.exec, i) => r.dst[i] = v[i]
  <1>. DEFINE x == [i \in Lanes |-> IF Masked(s.exec, i) THEN v[i] ELSE s.dst[i]]
  <1>1. PICK m : m = Mask(S)  OBVIOUS
  <1>2. \A i \in Lanes : Masked(s.exec, i) => x[i] = v[i]  OBVIOUS
  <1>3. PadVCC(s, v, S) = [[s EXCEPT !.dst = x] EXCEPT !.vcc = m]  BY <1>1 DEF PadVCC
  <1>. HIDE DEF x
  <1>4. [[s EXCEPT !.dst = x] EXCEPT !.vcc = m] =
            [src0 |-> s.src0, src1 |-> s.src1, src2 |-> s.src2, dst |-> x,
             sdst |-> s.sdst, exec |-> s.exec, vcc |-> m, lit |-> s.lit]
        <2>1. s = [src0 |-> s.src0, src1 |-> s.src1, src2 |-> s.src2, dst |-> s.dst,
                   sdst |-> s.sdst, exec |-> s.exec, vcc |-> s.vcc, lit |-> s.lit]
              BY DEF VPad
        <2>2. PICK t : t = [s EXCEPT !.dst = x]  OBVIOUS
        <2>3. t = [src0 |-> s.src0, src1 |-> s.src1, src2 |-> s.src2, dst |-> x,
                   sdst |-> s.sdst, exec |-> s.exec, vcc |-> s.vcc, lit |-> s.lit]
              BY <2>1, <2>2
        <2>4. t = [src0 |-> t.src0, src1 |-> t.src1, src2 |-> t.src2, dst |-> t.dst,
                   sdst |-> t.sdst, exec |-> t.exec, vcc |-> t.vcc, lit |-> t.lit]
              BY <2>3
        <2>5. [t EXCEPT !.vcc = m] =
                  [src0 |-> t.src0, src1 |-> t.src1, src2 |-> t.src2, dst |-> t.dst,
                   sdst |-> t.sdst, exec |-> t.exec, vcc |-> m, lit |-> t.lit]
              BY <2>4
        <2>. QED BY <2>2, <2>3, <2>5
  <1>. QED BY <1>1, <1>2, <1>3, <1>4

LEMMA PadSDSTIs ==
  ASSUME NEW s, VPad(s), NEW v, NEW S \in SUBSET Lanes
  PROVE  LET r == PadSDST(s, v, S)
         IN  /\ r.exec = s.exec /\ r.sdst = Mask(S) /\ r.vcc = s.vcc
             /\ \A i \in Lanes : Masked(s.exec, i) => r.dst[i] = v[i]
  <1>. DEFINE x == [i \in Lanes |-> IF Masked(s.exec, i) THEN v[i] ELSE s.dst[i]]
  <1>1. PICK m : m = Mask(S)  OBVIOUS
  <1>2. \A i \in Lanes : Masked(s.exec, i) => x[i] = v[i]  OBVIOUS
  <1>3. PadSDST(s, v, S) = [[s EXCEPT !.dst = x] EXCEPT !.sdst = m]  BY <1>1 DEF PadSDST
  <1>. HIDE DEF x
  <1>4. [[s EXCEPT !.dst = x] EXCEPT !.sdst = m] =
            [src0 |-> s.src0, src1 |-> s.src1, src2 |-> s.src2, dst |-> x,
             sdst |-> m, exec |-> s.exec, vcc |-> s.vcc, lit |-> s.lit]
        <2>1. s = [src0 |-> s.src0, src1 |-> s.src1, src2 |-> s.src2, dst |-> s.dst,
                   sdst |-> s.sdst, exec |-> s.exec, vcc |-> s.vcc, lit |-> s.lit]
              BY DEF VPad
        <2>2. PICK t : t = [s EXCEPT !.dst = x]  OBVIOUS
        <2>3. t = [src0 |-> s.src0, src1 |-> s.src1, src2 |-> s.src2, dst |-> x,
                   sdst |-> s.sdst, exec |-> s.exec, vcc |-> s.vcc, lit |-> s.lit]
              BY <2>1, <2>2
        <2>4. t = [src0 |-> t.src0, src1 |-> t.src1, src2 |-> t.src2, dst |-> t.dst,
                   sdst |-> t.sdst, exec |-> t.exec, vcc |-> t.vcc, lit |-> t.lit]
              BY <2>3
        <2>5. [t EXCEPT !.sdst = m] =
                  [src0 |-> t.src0, src1 |-> t.src1, src2 |-> t.src2, dst |-> t.dst,
                   sdst |-> m, exec |-> t.exec, vcc |-> t.vcc, lit |-> t.lit]
              BY <2>4
        <2>. QED BY <2>2, <2>3, <2>5
  <1>. QED BY <1>1, <1>2, <1>3, <1>4

\* the operands of a chain in a scratchpad
Words2(s) == VPad(s) /\ \A i \in Lanes : s.src0[i] \in Words32 /\ s.src1[i] \in Words32


\* the carries of the lanes
CarryIn(c) == \A i \in Lanes : c[i] \in {0, 1}

PadSum(op, s, c, i) == Total(op, s.src0[i], s.src1[i]) + Carried(op, c[i])

\* the lanes that leave a carry, as the code of the two encodings tells them
ShortCarries(op, s, c) ==
    {i \in Active(s.exec) : Leaves(op, PadSum(op, s, c, i)) /\ ~Lost(op, s.src1[i], c[i])}
LongCarries(op, s, c) == {i \in Active(s.exec) : Leaves(op, PadSum(op, s, c, i))}

LEMMA PadSums ==
  ASSUME NEW op \in WideOp, NEW s, Words2(s), NEW c, CarryIn(c), NEW i \in Lanes
  PROVE  LET a == s.src0[i]
             b == s.src1[i]
             y == PadSum(op, s, c, i)
         IN  /\ a \in Int /\ b \in Int /\ c[i] \in Int /\ y \in Int
             /\ U32(a) = a /\ U32(b) = b
             /\ op = "add" => y = a + b + c[i]
             /\ op = "sub" => y = a - b - c[i]
             /\ op = "rsub" => y = b - a - c[i]
             /\ Low(U64(y)) = y % 2^Word /\ Low(U32(y)) = y % 2^Word
             /\ Low(U32(U64(y))) = y % 2^Word /\ (U64(y) > Max32 <=> Leaves(op, y))
             /\ op = "add" => ((a > U64(Max32 - c[i] - b)) <=> (Leaves(op, y) /\ ~Lost(op, b, c[i])))
             /\ op = "sub" => ((a < U64(b + c[i])) <=> Leaves(op, y))
             /\ op = "rsub" => ((b < U64(a + c[i])) <=> Leaves(op, y))
  <1>1. PICK a \in Words32, b \in Words32, k \in {0, 1} : a = s.src0[i] /\ b = s.src1[i] /\ k = c[i]
        BY DEF Words2, CarryIn
  <1>2. PICK y : y = Total(op, a, b) + Carried(op, k)  OBVIOUS
  <1>3. y = PadSum(op, s, c, i)  BY <1>1, <1>2 DEF PadSum
  <1>4. /\ y \in Int
        /\ op = "add" => y = a + b + k
        /\ op = "sub" => y = a - b - k
        /\ op = "rsub" => y = b - a - k
        BY <1>2, TotalRange
  <1>5. /\ U64(y) > Max32 <=> Leaves(op, y)
        /\ Low(U64(y)) = y % 2^Word /\ Low(U32(U64(y))) = y % 2^Word
        BY <1>2, LongCarry
  <1>6. /\ op = "add" => ((a > U64(Max32 - k - b)) <=> (Leaves(op, y) /\ ~Lost(op, b, k)))
        /\ op = "sub" => ((a < U64(b + k)) <=> Leaves(op, y))
        /\ op = "rsub" => ((b < U64(a + k)) <=> Leaves(op, y))
        <2>1. LET z == Total(op, a, b) + Carried(op, k)
              IN  /\ op = "add" => ((a > U64(Max32 - k - b)) <=> (Leaves(op, z) /\ ~Lost(op, b, k)))
                  /\ op = "sub" => ((a < U64(b + k)) <=> Leaves(op, z))
                  /\ op = "rsub" => ((b < U64(a + k)) <=> Leaves(op, z))
              BY ShortCarry DEF Lost, Leaves
        <2>. QED BY <1>2, <2>1, Zenon
  <1>7. Low(U32(y)) = y % 2^Word  BY <1>4, LowOf
  <1>8. a \in Int /\ b \in Int /\ k \in Int /\ U32(a) = a /\ U32(b) = b
        BY BaseIs, Fits DEF Words32
  <1>. QED BY <1>1, <1>3, <1>4, <1>5, <1>6, <1>7, <1>8
ShortLow(op) == CASE op = "add" -> "V_ADD_I32" [] op = "sub" -> "V_SUB_I32" [] op = "rsub" -> "V_SUBREV_I32"
ShortHigh(op) == CASE op = "add" -> "V_ADDC_U32" [] op = "sub" -> "V_SUBB_U32" [] op = "rsub" -> "V_SUBBREV_U32"
LongLow(op) == CASE op = "add" -> "V_ADD_U32" [] op = "sub" -> "V_SUB_U32" [] op = "rsub" -> "V_SUBREV_U32"
LongHigh(op) == CASE op = "add" -> "V_ADDC_U32" [] op = "sub" -> "V_SUBB_U32" [] op = "rsub" -> "V_SUBBREV_U32"

\* AddSubLanes
LEMMA RunShortLow ==
  ASSUME NEW op \in WideOp, NEW s, Words2(s), NEW inst, inst.op = ShortLow(op),
         NEW c, CarryIn(c), ~ inst.sdwa, \A i \in Lanes : c[i] = 0
  PROVE  \E v : /\ RunVOP2(inst.op, s, inst) = PadVCC(s, v, ShortCarries(op, s, c))
                /\ \A i \in Lanes : Low(v[i]) = PadSum(op, s, c, i) % 2^Word
  <1>1. RunVOP2(inst.op, s, inst) = AddSubLanes(inst.op, s)
        BY DEF RunVOP2, ShortLow, WideOp
  <1>. DEFINE A == s.src0
              B == s.src1
  <1>2. Active(s.exec) \subseteq Lanes  BY DEF Active
  <1>3. PICK S : S = ShortCarries(op, s, c)  OBVIOUS
  <1>4. ASSUME op = "add"
        PROVE \E v : /\ AddSubLanes("V_ADD_I32", s) = PadVCC(s, v, S)
                     /\ \A i \in Lanes : Low(v[i]) = PadSum(op, s, c, i) % 2^Word
        <2>1. PICK v : v = [i \in Lanes |-> U32(U32(A[i]) + U32(B[i]))]  OBVIOUS
        <2>2. AddSubLanes("V_ADD_I32", s) =
                [[s EXCEPT !.dst = [i \in Lanes |-> IF Masked(s.exec, i) THEN U32(U32(A[i]) + U32(B[i])) ELSE s.dst[i]]]
                   EXCEPT !.vcc = Mask({i \in Active(s.exec) : U32(A[i]) + U32(B[i]) > Max32})]
              BY Zenon DEF AddSubLanes, PerLane, LaneMask
        <2>3. \A i \in Lanes : /\ Low(U32(U32(A[i]) + U32(B[i]))) = PadSum(op, s, c, i) % 2^Word
                               /\ U32(A[i]) + U32(B[i]) > Max32 <=> (Leaves(op, PadSum(op, s, c, i)) /\ ~Lost(op, s.src1[i], c[i]))
              <3>. SUFFICES ASSUME NEW i \in Lanes
                            PROVE  /\ Low(U32(U32(A[i]) + U32(B[i]))) = PadSum(op, s, c, i) % 2^Word
                                   /\ U32(A[i]) + U32(B[i]) > Max32 <=> (Leaves(op, PadSum(op, s, c, i)) /\ ~Lost(op, s.src1[i], c[i]))
                   OBVIOUS
              <3>1. PICK y : y = PadSum(op, s, c, i)  OBVIOUS
              <3>2. c[i] = 0 /\ A[i] \in Int /\ B[i] \in Int /\ U32(A[i]) = A[i] /\ U32(B[i]) = B[i]
                    BY PadSums
              <3>3. y = A[i] + B[i] /\ Low(U32(y)) = y % 2^Word
                    BY <1>4, <3>1, <3>2, PadSums
              <3>4. Leaves(op, y) <=> A[i] + B[i] > Max32  BY <1>4, <3>2, <3>3 DEF Leaves
              <3>5. ~ Lost(op, B[i], c[i])  BY <3>2 DEF Lost
              <3>. QED BY <3>1, <3>2, <3>3, <3>4, <3>5
        <2>4. [i \in Lanes |-> IF Masked(s.exec, i) THEN U32(U32(A[i]) + U32(B[i])) ELSE s.dst[i]] =
              [i \in Lanes |-> IF Masked(s.exec, i) THEN v[i] ELSE s.dst[i]]
              BY <2>1
        <2>5. {i \in Active(s.exec) : U32(A[i]) + U32(B[i]) > Max32} = S  BY <1>2, <1>3, <2>3 DEF ShortCarries
        <2>6. AddSubLanes("V_ADD_I32", s) = PadVCC(s, v, S)  BY <2>2, <2>4, <2>5, Zenon DEF PadVCC
        <2>7. \A i \in Lanes : Low(v[i]) = PadSum(op, s, c, i) % 2^Word  BY <2>1, <2>3
        <2>. QED BY <2>6, <2>7
  <1>5. ASSUME op = "sub"
        PROVE \E v : /\ AddSubLanes("V_SUB_I32", s) = PadVCC(s, v, S)
                     /\ \A i \in Lanes : Low(v[i]) = PadSum(op, s, c, i) % 2^Word
        <2>1. PICK v : v = [i \in Lanes |-> U32(U32(A[i]) - U32(B[i]))]  OBVIOUS
        <2>2. AddSubLanes("V_SUB_I32", s) =
                [[s EXCEPT !.dst = [i \in Lanes |-> IF Masked(s.exec, i) THEN U32(U32(A[i]) - U32(B[i])) ELSE s.dst[i]]]
                   EXCEPT !.vcc = Mask({i \in Active(s.exec) : U32(A[i]) < U32(B[i])})]
              BY Zenon DEF AddSubLanes, PerLane, LaneMask
        <2>3. \A i \in Lanes : /\ Low(U32(U32(A[i]) - U32(B[i]))) = PadSum(op, s, c, i) % 2^Word
                               /\ U32(A[i]) < U32(B[i]) <=> (Leaves(op, PadSum(op, s, c, i)) /\ ~Lost(op, s.src1[i], c[i]))
              <3>. SUFFICES ASSUME NEW i \in Lanes
                            PROVE  /\ Low(U32(U32(A[i]) - U32(B[i]))) = PadSum(op, s, c, i) % 2^Word
                                   /\ U32(A[i]) < U32(B[i]) <=> (Leaves(op, PadSum(op, s, c, i)) /\ ~Lost(op, s.src1[i], c[i]))
                   OBVIOUS
              <3>1. PICK y : y = PadSum(op, s, c, i)  OBVIOUS
              <3>2. c[i] = 0 /\ A[i] \in Int /\ B[i] \in Int /\ U32(A[i]) = A[i] /\ U32(B[i]) = B[i]
                    BY PadSums
              <3>3. y = A[i] - B[i] /\ Low(U32(y)) = y % 2^Word
                    BY <1>5, <3>1, <3>2, PadSums
              <3>4. Leaves(op, y) <=> A[i] < B[i]  BY <1>5, <3>2, <3>3 DEF Leaves
              <3>5. ~ Lost(op, B[i], c[i])  BY <3>2 DEF Lost
              <3>. QED BY <3>1, <3>2, <3>3, <3>4, <3>5
        <2>4. [i \in Lanes |-> IF Masked(s.exec, i) THEN U32(U32(A[i]) - U32(B[i])) ELSE s.dst[i]] =
              [i \in Lanes |-> IF Masked(s.exec, i) THEN v[i] ELSE s.dst[i]]
              BY <2>1
        <2>5. {i \in Active(s.exec) : U32(A[i]) < U32(B[i])} = S  BY <1>2, <1>3, <2>3 DEF ShortCarries
        <2>6. AddSubLanes("V_SUB_I32", s) = PadVCC(s, v, S)  BY <2>2, <2>4, <2>5, Zenon DEF PadVCC
        <2>7. \A i \in Lanes : Low(v[i]) = PadSum(op, s, c, i) % 2^Word  BY <2>1, <2>3
        <2>. QED BY <2>6, <2>7
  <1>6. ASSUME op = "rsub"
        PROVE \E v : /\ AddSubLanes("V_SUBREV_I32", s) = PadVCC(s, v, S)
                     /\ \A i \in Lanes : Low(v[i]) = PadSum(op, s, c, i) % 2^Word
        <2>1. PICK v : v = [i \in Lanes |-> U32(U32(B[i]) - U32(A[i]))]  OBVIOUS
        <2>2. AddSubLanes("V_SUBREV_I32", s) =
                [[s EXCEPT !.dst = [i \in Lanes |-> IF Masked(s.exec, i) THEN U32(U32(B[i]) - U32(A[i])) ELSE s.dst[i]]]
                   EXCEPT !.vcc = Mask({i \in Active(s.exec) : U32(A[i]) > U32(B[i])})]
              BY Zenon DEF AddSubLanes, PerLane, LaneMask
        <2>3. \A i \in Lanes : /\ Low(U32(U32(B[i]) - U32(A[i]))) = PadSum(op, s, c, i) % 2^Word
                               /\ U32(A[i]) > U32(B[i]) <=> (Leaves(op, PadSum(op, s, c, i)) /\ ~Lost(op, s.src1[i], c[i]))
              <3>. SUFFICES ASSUME NEW i \in Lanes
                            PROVE  /\ Low(U32(U32(B[i]) - U32(A[i]))) = PadSum(op, s, c, i) % 2^Word
                                   /\ U32(A[i]) > U32(B[i]) <=> (Leaves(op, PadSum(op, s, c, i)) /\ ~Lost(op, s.src1[i], c[i]))
                   OBVIOUS
              <3>1. PICK y : y = PadSum(op, s, c, i)  OBVIOUS
              <3>2. c[i] = 0 /\ A[i] \in Int /\ B[i] \in Int /\ U32(A[i]) = A[i] /\ U32(B[i]) = B[i]
                    BY PadSums
              <3>3. y = B[i] - A[i] /\ Low(U32(y)) = y % 2^Word
                    BY <1>6, <3>1, <3>2, PadSums
              <3>4. Leaves(op, y) <=> A[i] > B[i]  BY <1>6, <3>2, <3>3 DEF Leaves
              <3>5. ~ Lost(op, B[i], c[i])  BY <3>2 DEF Lost
              <3>. QED BY <3>1, <3>2, <3>3, <3>4, <3>5
        <2>4. [i \in Lanes |-> IF Masked(s.exec, i) THEN U32(U32(B[i]) - U32(A[i])) ELSE s.dst[i]] =
              [i \in Lanes |-> IF Masked(s.exec, i) THEN v[i] ELSE s.dst[i]]
              BY <2>1
        <2>5. {i \in Active(s.exec) : U32(A[i]) > U32(B[i])} = S  BY <1>2, <1>3, <2>3 DEF ShortCarries
        <2>6. AddSubLanes("V_SUBREV_I32", s) = PadVCC(s, v, S)  BY <2>2, <2>4, <2>5, Zenon DEF PadVCC
        <2>7. \A i \in Lanes : Low(v[i]) = PadSum(op, s, c, i) % 2^Word  BY <2>1, <2>3
        <2>. QED BY <2>6, <2>7
  <1>. QED BY <1>1, <1>3, <1>4, <1>5, <1>6 DEF WideOp, ShortLow

\* AddSubCarryLanes
LEMMA RunShortHigh ==
  ASSUME NEW op \in WideOp, NEW s, Words2(s), NEW inst, inst.op = ShortHigh(op),
         NEW c, CarryIn(c), \A i \in Lanes : c[i] = Bit(s.vcc, i)
  PROVE  \E v : /\ RunVOP2(inst.op, s, inst) = PadVCC(s, v, ShortCarries(op, s, c))
                /\ \A i \in Lanes : Low(v[i]) = PadSum(op, s, c, i) % 2^Word
  <1>1. RunVOP2(inst.op, s, inst) = AddSubCarryLanes(inst.op, s)
        BY DEF RunVOP2, ShortHigh, WideOp
  <1>. DEFINE A == s.src0
              B == s.src1
  <1>2. Active(s.exec) \subseteq Lanes  BY DEF Active
  <1>3. PICK S : S = ShortCarries(op, s, c)  OBVIOUS
  <1>4. ASSUME op = "add"
        PROVE \E v : /\ AddSubCarryLanes("V_ADDC_U32", s) = PadVCC(s, v, S)
                     /\ \A i \in Lanes : Low(v[i]) = PadSum(op, s, c, i) % 2^Word
        <2>1. PICK v : v = [i \in Lanes |-> U64(A[i] + B[i] + Bit(s.vcc, i))]  OBVIOUS
        <2>2. AddSubCarryLanes("V_ADDC_U32", s) =
                [[s EXCEPT !.dst = [i \in Lanes |-> IF Masked(s.exec, i) THEN U64(A[i] + B[i] + Bit(s.vcc, i)) ELSE s.dst[i]]]
                   EXCEPT !.vcc = Mask({i \in Active(s.exec) : A[i] > U64(Max32 - Bit(s.vcc, i) - B[i])})]
              BY Zenon DEF AddSubCarryLanes, PerLane, LaneMask
        <2>3. \A i \in Lanes : /\ Low(U64(A[i] + B[i] + Bit(s.vcc, i))) = PadSum(op, s, c, i) % 2^Word
                               /\ A[i] > U64(Max32 - Bit(s.vcc, i) - B[i]) <=> (Leaves(op, PadSum(op, s, c, i)) /\ ~Lost(op, s.src1[i], c[i]))
              <3>. SUFFICES ASSUME NEW i \in Lanes
                            PROVE  /\ Low(U64(A[i] + B[i] + Bit(s.vcc, i))) = PadSum(op, s, c, i) % 2^Word
                                   /\ A[i] > U64(Max32 - Bit(s.vcc, i) - B[i]) <=> (Leaves(op, PadSum(op, s, c, i)) /\ ~Lost(op, s.src1[i], c[i]))
                   OBVIOUS
              <3>1. PICK y : y = PadSum(op, s, c, i)  OBVIOUS
              <3>2. Bit(s.vcc, i) = c[i] /\ y = A[i] + B[i] + c[i]  BY <1>4, <3>1, PadSums
              <3>3. Low(U64(y)) = y % 2^Word  BY <3>1, PadSums
              <3>4. A[i] > U64(Max32 - c[i] - B[i]) <=> (Leaves(op, y) /\ ~Lost(op, B[i], c[i]))
                    BY <1>4, <3>1, <3>2, PadSums
              <3>. QED BY <3>1, <3>2, <3>3, <3>4
        <2>4. [i \in Lanes |-> IF Masked(s.exec, i) THEN U64(A[i] + B[i] + Bit(s.vcc, i)) ELSE s.dst[i]] =
              [i \in Lanes |-> IF Masked(s.exec, i) THEN v[i] ELSE s.dst[i]]
              BY <2>1
        <2>5. {i \in Active(s.exec) : A[i] > U64(Max32 - Bit(s.vcc, i) - B[i])} = S  BY <1>2, <1>3, <2>3 DEF ShortCarries
        <2>6. AddSubCarryLanes("V_ADDC_U32", s) = PadVCC(s, v, S)  BY <2>2, <2>4, <2>5, Zenon DEF PadVCC
        <2>7. \A i \in Lanes : Low(v[i]) = PadSum(op, s, c, i) % 2^Word  BY <2>1, <2>3
        <2>. QED BY <2>6, <2>7
  <1>5. ASSUME op = "sub"
        PROVE \E v : /\ AddSubCarryLanes("V_SUBB_U32", s) = PadVCC(s, v, S)
                     /\ \A i \in Lanes : Low(v[i]) = PadSum(op, s, c, i) % 2^Word
        <2>1. PICK v : v = [i \in Lanes |-> U64(A[i] - B[i] - Bit(s.vcc, i))]  OBVIOUS
        <2>2. AddSubCarryLanes("V_SUBB_U32", s) =
                [[s EXCEPT !.dst = [i \in Lanes |-> IF Masked(s.exec, i) THEN U64(A[i] - B[i] - Bit(s.vcc, i)) ELSE s.dst[i]]]
                   EXCEPT !.vcc = Mask({i \in Active(s.exec) : A[i] < U64(B[i] + Bit(s.vcc, i))})]
              BY Zenon DEF AddSubCarryLanes, PerLane, LaneMask
        <2>3. \A i \in Lanes : /\ Low(U64(A[i] - B[i] - Bit(s.vcc, i))) = PadSum(op, s, c, i) % 2^Word
                               /\ A[i] < U64(B[i] + Bit(s.vcc, i)) <=> (Leaves(op, PadSum(op, s, c, i)) /\ ~Lost(op, s.src1[i], c[i]))
              <3>. SUFFICES ASSUME NEW i \in Lanes
                            PROVE  /\ Low(U64(A[i] - B[i] - Bit(s.vcc, i))) = PadSum(op, s, c, i) % 2^Word
                                   /\ A[i] < U64(B[i] + Bit(s.vcc, i)) <=> (Leaves(op, PadSum(op, s, c, i)) /\ ~Lost(op, s.src1[i], c[i]))
                   OBVIOUS
              <3>1. PICK y : y = PadSum(op, s, c, i)  OBVIOUS
              <3>2. Bit(s.vcc, i) = c[i] /\ y = A[i] - B[i] - c[i]  BY <1>5, <3>1, PadSums
              <3>3. Low(U64(y)) = y % 2^Word  BY <3>1, PadSums
              <3>4. A[i] < U64(B[i] + c[i]) <=> (Leaves(op, y) /\ ~Lost(op, B[i], c[i]))
                    BY <1>5, <3>1, <3>2, PadSums DEF Lost
              <3>. QED BY <3>1, <3>2, <3>3, <3>4
        <2>4. [i \in Lanes |-> IF Masked(s.exec, i) THEN U64(A[i] - B[i] - Bit(s.vcc, i)) ELSE s.dst[i]] =
              [i \in Lanes |-> IF Masked(s.exec, i) THEN v[i] ELSE s.dst[i]]
              BY <2>1
        <2>5. {i \in Active(s.exec) : A[i] < U64(B[i] + Bit(s.vcc, i))} = S  BY <1>2, <1>3, <2>3 DEF ShortCarries
        <2>6. AddSubCarryLanes("V_SUBB_U32", s) = PadVCC(s, v, S)  BY <2>2, <2>4, <2>5, Zenon DEF PadVCC
        <2>7. \A i \in Lanes : Low(v[i]) = PadSum(op, s, c, i) % 2^Word  BY <2>1, <2>3
        <2>. QED BY <2>6, <2>7
  <1>6. ASSUME op = "rsub"
        PROVE \E v : /\ AddSubCarryLanes("V_SUBBREV_U32", s) = PadVCC(s, v, S)
                     /\ \A i \in Lanes : Low(v[i]) = PadSum(op, s, c, i) % 2^Word
        <2>1. PICK v : v = [i \in Lanes |-> U64(B[i] - A[i] - Bit(s.vcc, i))]  OBVIOUS
        <2>2. AddSubCarryLanes("V_SUBBREV_U32", s) =
                [[s EXCEPT !.dst = [i \in Lanes |-> IF Masked(s.exec, i) THEN U64(B[i] - A[i] - Bit(s.vcc, i)) ELSE s.dst[i]]]
                   EXCEPT !.vcc = Mask({i \in Active(s.exec) : B[i] < U64(A[i] + Bit(s.vcc, i))})]
              BY Zenon DEF AddSubCarryLanes, PerLane, LaneMask
        <2>3. \A i \in Lanes : /\ Low(U64(B[i] - A[i] - Bit(s.vcc, i))) = PadSum(op, s, c, i) % 2^Word
                               /\ B[i] < U64(A[i] + Bit(s.vcc, i)) <=> (Leaves(op, PadSum(op, s, c, i)) /\ ~Lost(op, s.src1[i], c[i]))
              <3>. SUFFICES ASSUME NEW i \in Lanes
                            PROVE  /\ Low(U64(B[i] - A[i] - Bit(s.vcc, i))) = PadSum(op, s, c, i) % 2^Word
                                   /\ B[i] < U64(A[i] + Bit(s.vcc, i)) <=> (Leaves(op, PadSum(op, s, c, i)) /\ ~Lost(op, s.src1[i], c[i]))
                   OBVIOUS
              <3>1. PICK y : y = PadSum(op, s, c, i)  OBVIOUS
              <3>2. Bit(s.vcc, i) = c[i] /\ y = B[i] - A[i] - c[i]  BY <1>6, <3>1, PadSums
              <3>3. Low(U64(y)) = y % 2^Word  BY <3>1, PadSums
              <3>4. B[i] < U64(A[i] + c[i]) <=> (Leaves(op, y) /\ ~Lost(op, B[i], c[i]))
                    BY <1>6, <3>1, <3>2, PadSums DEF Lost
              <3>. QED BY <3>1, <3>2, <3>3, <3>4
        <2>4. [i \in Lanes |-> IF Masked(s.exec, i) THEN U64(B[i] - A[i] - Bit(s.vcc, i)) ELSE s.dst[i]] =
              [i \in Lanes |-> IF Masked(s.exec, i) THEN v[i] ELSE s.dst[i]]
              BY <2>1
        <2>5. {i \in Active(s.exec) : B[i] < U64(A[i] + Bit(s.vcc, i))} = S  BY <1>2, <1>3, <2>3 DEF ShortCarries
        <2>6. AddSubCarryLanes("V_SUBBREV_U32", s) = PadVCC(s, v, S)  BY <2>2, <2>4, <2>5, Zenon DEF PadVCC
        <2>7. \A i \in Lanes : Low(v[i]) = PadSum(op, s, c, i) % 2^Word  BY <2>1, <2>3
        <2>. QED BY <2>6, <2>7
  <1>. QED BY <1>1, <1>3, <1>4, <1>5, <1>6 DEF WideOp, ShortHigh

\* AddSub3
LEMMA RunLongLow ==
  ASSUME NEW op \in WideOp, NEW s, Words2(s), NEW inst, inst.op = LongLow(op),
         NEW c, CarryIn(c), inst.abs = {}, inst.neg = {}, \A i \in Lanes : c[i] = 0
  PROVE  \E v : /\ RunVOP3b(inst.op, s, inst) = PadSDST(s, v, LongCarries(op, s, c))
                /\ \A i \in Lanes : Low(v[i]) = PadSum(op, s, c, i) % 2^Word
  <1>1. RunVOP3b(inst.op, s, inst) = AddSub3(inst.op, s)
        <2>1. Preprocess(s, inst) = s  BY DEF Preprocess
        <2>. QED BY <2>1 DEF RunVOP3b, LongLow, WideOp
  <1>. DEFINE A == s.src0
              B == s.src1
  <1>2. Active(s.exec) \subseteq Lanes  BY DEF Active
  <1>3. PICK S : S = LongCarries(op, s, c)  OBVIOUS
  <1>4. ASSUME op = "add"
        PROVE \E v : /\ AddSub3("V_ADD_U32", s) = PadSDST(s, v, S)
                     /\ \A i \in Lanes : Low(v[i]) = PadSum(op, s, c, i) % 2^Word
        <2>1. PICK v : v = [i \in Lanes |-> (IF U64(A[i] + B[i]) > Max32 THEN U32(U64(A[i] + B[i])) ELSE U64(A[i] + B[i]))]  OBVIOUS
        <2>2. AddSub3("V_ADD_U32", s) =
                [[s EXCEPT !.dst = [i \in Lanes |-> IF Masked(s.exec, i) THEN (IF U64(A[i] + B[i]) > Max32 THEN U32(U64(A[i] + B[i])) ELSE U64(A[i] + B[i])) ELSE s.dst[i]]]
                   EXCEPT !.sdst = Mask({i \in Active(s.exec) : U64(A[i] + B[i]) > Max32})]
              BY Zenon DEF AddSub3, PerLane, LaneMask
        <2>3. \A i \in Lanes : /\ Low((IF U64(A[i] + B[i]) > Max32 THEN U32(U64(A[i] + B[i])) ELSE U64(A[i] + B[i]))) = PadSum(op, s, c, i) % 2^Word
                               /\ U64(A[i] + B[i]) > Max32 <=> (Leaves(op, PadSum(op, s, c, i)))
              <3>. SUFFICES ASSUME NEW i \in Lanes
                            PROVE  /\ Low((IF U64(A[i] + B[i]) > Max32 THEN U32(U64(A[i] + B[i])) ELSE U64(A[i] + B[i]))) = PadSum(op, s, c, i) % 2^Word
                                   /\ U64(A[i] + B[i]) > Max32 <=> (Leaves(op, PadSum(op, s, c, i)))
                   OBVIOUS
              <3>1. PICK y : y = PadSum(op, s, c, i)  OBVIOUS
              <3>2. c[i] = 0 /\ A[i] \in Int /\ B[i] \in Int  BY PadSums
              <3>3. y = A[i] + B[i]  BY <1>4, <3>1, <3>2, PadSums
              <3>4. /\ Low(U64(y)) = y % 2^Word /\ Low(U32(U64(y))) = y % 2^Word
                    /\ U64(y) > Max32 <=> Leaves(op, y)
                    BY <3>1, PadSums
              <3>5. U64(y) > Max32 <=> Leaves(op, y)  BY <3>4
              <3>. QED BY <3>1, <3>3, <3>4, <3>5
        <2>4. [i \in Lanes |-> IF Masked(s.exec, i) THEN (IF U64(A[i] + B[i]) > Max32 THEN U32(U64(A[i] + B[i])) ELSE U64(A[i] + B[i])) ELSE s.dst[i]] =
              [i \in Lanes |-> IF Masked(s.exec, i) THEN v[i] ELSE s.dst[i]]
              BY <2>1
        <2>5. {i \in Active(s.exec) : U64(A[i] + B[i]) > Max32} = S  BY <1>2, <1>3, <2>3 DEF LongCarries
        <2>6. AddSub3("V_ADD_U32", s) = PadSDST(s, v, S)  BY <2>2, <2>4, <2>5, Zenon DEF PadSDST
        <2>7. \A i \in Lanes : Low(v[i]) = PadSum(op, s, c, i) % 2^Word  BY <2>1, <2>3
        <2>. QED BY <2>6, <2>7
  <1>5. ASSUME op = "sub"
        PROVE \E v : /\ AddSub3("V_SUB_U32", s) = PadSDST(s, v, S)
                     /\ \A i \in Lanes : Low(v[i]) = PadSum(op, s, c, i) % 2^Word
        <2>1. PICK v : v = [i \in Lanes |-> (IF A[i] < B[i] THEN U32(U64(A[i] - B[i])) ELSE U64(A[i] - B[i]))]  OBVIOUS
        <2>2. AddSub3("V_SUB_U32", s) =
                [[s EXCEPT !.dst = [i \in Lanes |-> IF Masked(s.exec, i) THEN (IF A[i] < B[i] THEN U32(U64(A[i] - B[i])) ELSE U64(A[i] - B[i])) ELSE s.dst[i]]]
                   EXCEPT !.sdst = Mask({i \in Active(s.exec) : A[i] < B[i]})]
              BY Zenon DEF AddSub3, PerLane, LaneMask
        <2>3. \A i \in Lanes : /\ Low((IF A[i] < B[i] THEN U32(U64(A[i] - B[i])) ELSE U64(A[i] - B[i]))) = PadSum(op, s, c, i) % 2^Word
                               /\ A[i] < B[i] <=> (Leaves(op, PadSum(op, s, c, i)))
              <3>. SUFFICES ASSUME NEW i \in Lanes
                            PROVE  /\ Low((IF A[i] < B[i] THEN U32(U64(A[i] - B[i])) ELSE U64(A[i] - B[i]))) = PadSum(op, s, c, i) % 2^Word
                                   /\ A[i] < B[i] <=> (Leaves(op, PadSum(op, s, c, i)))
                   OBVIOUS
              <3>1. PICK y : y = PadSum(op, s, c, i)  OBVIOUS
              <3>2. c[i] = 0 /\ A[i] \in Int /\ B[i] \in Int  BY PadSums
              <3>3. y = A[i] - B[i]  BY <1>5, <3>1, <3>2, PadSums
              <3>4. /\ Low(U64(y)) = y % 2^Word /\ Low(U32(U64(y))) = y % 2^Word
                    /\ U64(y) > Max32 <=> Leaves(op, y)
                    BY <3>1, PadSums
              <3>5. A[i] < B[i] <=> Leaves(op, y)  BY <1>5, <3>2, <3>3 DEF Leaves
              <3>. QED BY <3>1, <3>3, <3>4, <3>5
        <2>4. [i \in Lanes |-> IF Masked(s.exec, i) THEN (IF A[i] < B[i] THEN U32(U64(A[i] - B[i])) ELSE U64(A[i] - B[i])) ELSE s.dst[i]] =
              [i \in Lanes |-> IF Masked(s.exec, i) THEN v[i] ELSE s.dst[i]]
              BY <2>1
        <2>5. {i \in Active(s.exec) : A[i] < B[i]} = S  BY <1>2, <1>3, <2>3 DEF LongCarries
        <2>6. AddSub3("V_SUB_U32", s) = PadSDST(s, v, S)  BY <2>2, <2>4, <2>5, Zenon DEF PadSDST
        <2>7. \A i \in Lanes : Low(v[i]) = PadSum(op, s, c, i) % 2^Word  BY <2>1, <2>3
        <2>. QED BY <2>6, <2>7
  <1>6. ASSUME op = "rsub"
        PROVE \E v : /\ AddSub3("V_SUBREV_U32", s) = PadSDST(s, v, S)
                     /\ \A i \in Lanes : Low(v[i]) = PadSum(op, s, c, i) % 2^Word
        <2>1. PICK v : v = [i \in Lanes |-> (IF U64(B[i] - A[i]) > Max32 THEN U32(U64(B[i] - A[i])) ELSE U64(B[i] - A[i]))]  OBVIOUS
        <2>2. AddSub3("V_SUBREV_U32", s) =
                [[s EXCEPT !.dst = [i \in Lanes |-> IF Masked(s.exec, i) THEN (IF U64(B[i] - A[i]) > Max32 THEN U32(U64(B[i] - A[i])) ELSE U64(B[i] - A[i])) ELSE s.dst[i]]]
                   EXCEPT !.sdst = Mask({i \in Active(s.exec) : U64(B[i] - A[i]) > Max32})]
              BY Zenon DEF AddSub3, PerLane, LaneMask
        <2>3. \A i \in Lanes : /\ Low((IF U64(B[i] - A[i]) > Max32 THEN U32(U64(B[i] - A[i])) ELSE U64(B[i] - A[i]))) = PadSum(op, s, c, i) % 2^Word
                               /\ U64(B[i] - A[i]) > Max32 <=> (Leaves(op, PadSum(op, s, c, i)))
              <3>. SUFFICES ASSUME NEW i \in Lanes
                            PROVE  /\ Low((IF U64(B[i] - A[i]) > Max32 THEN U32(U64(B[i] - A[i])) ELSE U64(B[i] - A[i]))) = PadSum(op, s, c, i) % 2^Word
                                   /\ U64(B[i] - A[i]) > Max32 <=> (Leaves(op, PadSum(op, s, c, i)))
                   OBVIOUS
              <3>1. PICK y : y = PadSum(op, s, c, i)  OBVIOUS
              <3>2. c[i] = 0 /\ A[i] \in Int /\ B[i] \in Int  BY PadSums
              <3>3. y = B[i] - A[i]  BY <1>6, <3>1, <3>2, PadSums
              <3>4. /\ Low(U64(y)) = y % 2^Word /\ Low(U32(U64(y))) = y % 2^Word
                    /\ U64(y) > Max32 <=> Leaves(op, y)
                    BY <3>1, PadSums
              <3>5. U64(y) > Max32 <=> Leaves(op, y)  BY <3>4
              <3>. QED BY <3>1, <3>3, <3>4, <3>5
        <2>4. [i \in Lanes |-> IF Masked(s.exec, i) THEN (IF U64(B[i] - A[i]) > Max32 THEN U32(U64(B[i] - A[i])) ELSE U64(B[i] - A[i])) ELSE s.dst[i]] =
              [i \in Lanes |-> IF Masked(s.exec, i) THEN v[i] ELSE s.dst[i]]
              BY <2>1
        <2>5. {i \in Active(s.exec) : U64(B[i] - A[i]) > Max32} = S  BY <1>2, <1>3, <2>3 DEF LongCarries
        <2>6. AddSub3("V_SUBREV_U32", s) = PadSDST(s, v, S)  BY <2>2, <2>4, <2>5, Zenon DEF PadSDST
        <2>7. \A i \in Lanes : Low(v[i]) = PadSum(op, s, c, i) % 2^Word  BY <2>1, <2>3
        <2>. QED BY <2>6, <2>7
  <1>. QED BY <1>1, <1>3, <1>4, <1>5, <1>6 DEF WideOp, LongLow

\* AddSubCarry3
LEMMA RunLongHigh ==
  ASSUME NEW op \in WideOp, NEW s, Words2(s), NEW inst, inst.op = LongHigh(op),
         NEW c, CarryIn(c), inst.abs = {}, inst.neg = {}, \A i \in Lanes : c[i] = Bit(s.src2[i], i)
  PROVE  \E v : /\ RunVOP3b(inst.op, s, inst) = PadSDST(s, v, LongCarries(op, s, c))
                /\ \A i \in Lanes : Low(v[i]) = PadSum(op, s, c, i) % 2^Word
  <1>1. RunVOP3b(inst.op, s, inst) = AddSubCarry3(inst.op, s)
        <2>1. Preprocess(s, inst) = s  BY DEF Preprocess
        <2>. QED BY <2>1 DEF RunVOP3b, LongHigh, WideOp
  <1>. DEFINE A == s.src0
              B == s.src1
  <1>2. Active(s.exec) \subseteq Lanes  BY DEF Active
  <1>3. PICK S : S = LongCarries(op, s, c)  OBVIOUS
  <1>4. ASSUME op = "add"
        PROVE \E v : /\ AddSubCarry3("V_ADDC_U32", s) = PadSDST(s, v, S)
                     /\ \A i \in Lanes : Low(v[i]) = PadSum(op, s, c, i) % 2^Word
        <2>1. PICK v : v = [i \in Lanes |-> U32(U64(A[i] + B[i] + Bit(s.src2[i], i)))]  OBVIOUS
        <2>2. AddSubCarry3("V_ADDC_U32", s) =
                [[s EXCEPT !.dst = [i \in Lanes |-> IF Masked(s.exec, i) THEN U32(U64(A[i] + B[i] + Bit(s.src2[i], i))) ELSE s.dst[i]]]
                   EXCEPT !.sdst = Mask({i \in Active(s.exec) : U64(A[i] + B[i] + Bit(s.src2[i], i)) > Max32})]
              BY Zenon DEF AddSubCarry3, PerLane, LaneMask
        <2>3. \A i \in Lanes : /\ Low(U32(U64(A[i] + B[i] + Bit(s.src2[i], i)))) = PadSum(op, s, c, i) % 2^Word
                               /\ U64(A[i] + B[i] + Bit(s.src2[i], i)) > Max32 <=> (Leaves(op, PadSum(op, s, c, i)))
              <3>. SUFFICES ASSUME NEW i \in Lanes
                            PROVE  /\ Low(U32(U64(A[i] + B[i] + Bit(s.src2[i], i)))) = PadSum(op, s, c, i) % 2^Word
                                   /\ U64(A[i] + B[i] + Bit(s.src2[i], i)) > Max32 <=> (Leaves(op, PadSum(op, s, c, i)))
                   OBVIOUS
              <3>1. PICK y : y = PadSum(op, s, c, i)  OBVIOUS
              <3>2. Bit(s.src2[i], i) = c[i] /\ y = A[i] + B[i] + c[i]  BY <1>4, <3>1, PadSums
              <3>3. Low(U32(U64(y))) = y % 2^Word /\ (U64(y) > Max32 <=> Leaves(op, y))
                    BY <3>1, PadSums
              <3>. QED BY <3>1, <3>2, <3>3
        <2>4. [i \in Lanes |-> IF Masked(s.exec, i) THEN U32(U64(A[i] + B[i] + Bit(s.src2[i], i))) ELSE s.dst[i]] =
              [i \in Lanes |-> IF Masked(s.exec, i) THEN v[i] ELSE s.dst[i]]
              BY <2>1
        <2>5. {i \in Active(s.exec) : U64(A[i] + B[i] + Bit(s.src2[i], i)) > Max32} = S  BY <1>2, <1>3, <2>3 DEF LongCarries
        <2>6. AddSubCarry3("V_ADDC_U32", s) = PadSDST(s, v, S)  BY <2>2, <2>4, <2>5, Zenon DEF PadSDST
        <2>7. \A i \in Lanes : Low(v[i]) = PadSum(op, s, c, i) % 2^Word  BY <2>1, <2>3
        <2>. QED BY <2>6, <2>7
  <1>5. ASSUME op = "sub"
        PROVE \E v : /\ AddSubCarry3("V_SUBB_U32", s) = PadSDST(s, v, S)
                     /\ \A i \in Lanes : Low(v[i]) = PadSum(op, s, c, i) % 2^Word
        <2>1. PICK v : v = [i \in Lanes |-> U32(U64(A[i] - B[i] - Bit(s.src2[i], i)))]  OBVIOUS
        <2>2. AddSubCarry3("V_SUBB_U32", s) =
                [[s EXCEPT !.dst = [i \in Lanes |-> IF Masked(s.exec, i) THEN U32(U64(A[i] - B[i] - Bit(s.src2[i], i))) ELSE s.dst[i]]]
                   EXCEPT !.sdst = Mask({i \in Active(s.exec) : U64(A[i] - B[i] - Bit(s.src2[i], i)) > Max32})]
              BY Zenon DEF AddSubCarry3, PerLane, LaneMask
        <2>3. \A i \in Lanes : /\ Low(U32(U64(A[i] - B[i] - Bit(s.src2[i], i)))) = PadSum(op, s, c, i) % 2^Word
                               /\ U64(A[i] - B[i] - Bit(s.src2[i], i)) > Max32 <=> (Leaves(op, PadSum(op, s, c, i)))
              <3>. SUFFICES ASSUME NEW i \in Lanes
                            PROVE  /\ Low(U32(U64(A[i] - B[i] - Bit(s.src2[i], i)))) = PadSum(op, s, c, i) % 2^Word
                                   /\ U64(A[i] - B[i] - Bit(s.src2[i], i)) > Max32 <=> (Leaves(op, PadSum(op, s, c, i)))
                   OBVIOUS
              <3>1. PICK y : y = PadSum(op, s, c, i)  OBVIOUS
              <3>2. Bit(s.src2[i], i) = c[i] /\ y = A[i] - B[i] - c[i]  BY <1>5, <3>1, PadSums
              <3>3. Low(U32(U64(y))) = y % 2^Word /\ (U64(y) > Max32 <=> Leaves(op, y))
                    BY <3>1, PadSums
              <3>. QED BY <3>1, <3>2, <3>3
        <2>4. [i \in Lanes |-> IF Masked(s.exec, i) THEN U32(U64(A[i] - B[i] - Bit(s.src2[i], i))) ELSE s.dst[i]] =
              [i \in Lanes |-> IF Masked(s.exec, i) THEN v[i] ELSE s.dst[i]]
              BY <2>1
        <2>5. {i \in Active(s.exec) : U64(A[i] - B[i] - Bit(s.src2[i], i)) > Max32} = S  BY <1>2, <1>3, <2>3 DEF LongCarries
        <2>6. AddSubCarry3("V_SUBB_U32", s) = PadSDST(s, v, S)  BY <2>2, <2>4, <2>5, Zenon DEF PadSDST
        <2>7. \A i \in Lanes : Low(v[i]) = PadSum(op, s, c, i) % 2^Word  BY <2>1, <2>3
        <2>. QED BY <2>6, <2>7
  <1>6. ASSUME op = "rsub"
        PROVE \E v : /\ AddSubCarry3("V_SUBBREV_U32", s) = PadSDST(s, v, S)
                     /\ \A i \in Lanes : Low(v[i]) = PadSum(op, s, c, i) % 2^Word
        <2>1. PICK v : v = [i \in Lanes |-> U32(U64(B[i] - A[i] - Bit(s.src2[i], i)))]  OBVIOUS
        <2>2. AddSubCarry3("V_SUBBREV_U32", s) =
                [[s EXCEPT !.dst = [i \in Lanes |-> IF Masked(s.exec, i) THEN U32(U64(B[i] - A[i] - Bit(s.src2[i], i))) ELSE s.dst[i]]]
                   EXCEPT !.sdst = Mask({i \in Active(s.exec) : U64(B[i] - A[i] - Bit(s.src2[i], i)) > Max32})]
              BY Zenon DEF AddSubCarry3, PerLane, LaneMask
        <2>3. \A i \in Lanes : /\ Low(U32(U64(B[i] - A[i] - Bit(s.src2[i], i)))) = PadSum(op, s, c, i) % 2^Word
                               /\ U64(B[i] - A[i] - Bit(s.src2[i], i)) > Max32 <=> (Leaves(op, PadSum(op, s, c, i)))
              <3>. SUFFICES ASSUME NEW i \in Lanes
                            PROVE  /\ Low(U32(U64(B[i] - A[i] - Bit(s.src2[i], i)))) = PadSum(op, s, c, i) % 2^Word
                                   /\ U64(B[i] - A[i] - Bit(s.src2[i], i)) > Max32 <=> (Leaves(op, PadSum(op, s, c, i)))
                   OBVIOUS
              <3>1. PICK y : y = PadSum(op, s, c, i)  OBVIOUS
              <3>2. Bit(s.src2[i], i) = c[i] /\ y = B[i] - A[i] - c[i]  BY <1>6, <3>1, PadSums
              <3>3. Low(U32(U64(y))) = y % 2^Word /\ (U64(y) > Max32 <=> Leaves(op, y))
                    BY <3>1, PadSums
              <3>. QED BY <3>1, <3>2, <3>3
        <2>4. [i \in Lanes |-> IF Masked(s.exec, i) THEN U32(U64(B[i] - A[i] - Bit(s.src2[i], i))) ELSE s.dst[i]] =
              [i \in Lanes |-> IF Masked(s.exec, i) THEN v[i] ELSE s.dst[i]]
              BY <2>1
        <2>5. {i \in Active(s.exec) : U64(B[i] - A[i] - Bit(s.src2[i], i)) > Max32} = S  BY <1>2, <1>3, <2>3 DEF LongCarries
        <2>6. AddSubCarry3("V_SUBBREV_U32", s) = PadSDST(s, v, S)  BY <2>2, <2>4, <2>5, Zenon DEF PadSDST
        <2>7. \A i \in Lanes : Low(v[i]) = PadSum(op, s, c, i) % 2^Word  BY <2>1, <2>3
        <2>. QED BY <2>6, <2>7
  <1>. QED BY <1>1, <1>3, <1>4, <1>5, <1>6 DEF WideOp, LongHigh

-----------------------------------------------------------------------------
\* the vector instructions of a chain, on the registers of a wave

LEMMA MaskPair ==
  ASSUME NEW m \in 0 .. 2^Pair - 1
  PROVE  Low(m) + 2^Word * High(m) = m
  <1>1. PICK w \in Nat \ {0} : w = 2^Word /\ 2^Pair = w * w  BY BaseIs
  <1>2. m \in Int /\ 0 <= m /\ m < w * w  BY <1>1
  <1>3. PICK q \in Int, r \in 0 .. w - 1 : q = m \div w /\ r = m % w /\ m = w * q + r
        BY <1>2, DivMod
  <1>4. 0 <= q /\ q < w
        <2>1. CASE q < 0
              <3>1. q <= 0 - 1 /\ w * q <= w * (0 - 1) /\ w * (0 - 1) = 0 - w  BY <2>1
              <3>. QED BY <1>2, <1>3, <3>1
        <2>2. CASE q >= w
              <3>1. w * q >= w * w  BY <2>2
              <3>. QED BY <1>2, <1>3, <3>1
        <2>. QED BY <2>1, <2>2
  <1>5. U32(q) = q  BY <1>1, <1>4, Fits
  <1>6. Low(m) = r /\ High(m) = q  BY <1>1, <1>3, <1>5 DEF Low, High, U32
  <1>. QED BY <1>1, <1>3, <1>6

\* the sum of two registers of a lane, with the carry in
RegSum(e, op, a, b, c, i) == Total(op, e.vreg[i][a], e.vreg[i][b]) + Carried(op, c[i])

\* what an instruction of a chain leaves in the vector registers
Summed(e, f, op, a, b, d, c) ==
    /\ EmuShape(f) /\ f.exec = e.exec
    /\ \A i \in Lanes, n \in VRegs :
          f.vreg[i][n] = IF Masked(e.exec, i) /\ n = d THEN RegSum(e, op, a, b, c, i) % 2^Word
                         ELSE e.vreg[i][n]

\* the operands of the instruction
Operands(e, inst, a, b, d) ==
    /\ HasWords(e, a) /\ HasWords(e, b) /\ d \in VRegs
    /\ inst.src0 = VReg(a, 1) /\ inst.src1 = VReg(b, 1) /\ inst.dst = VReg(d, 1)

LEMMA PadOfRegisters ==
  ASSUME NEW e, NEW s, NEW a, NEW b, HasWords(e, a), HasWords(e, b), Adds(e, s, a, b)
  PROVE  /\ Words2(s) /\ s.exec = e.exec
         /\ \A op, c, i : i \in Lanes => PadSum(op, s, c, i) = RegSum(e, op, a, b, c, i)
  BY DEF Words2, Adds, HasWords, PadSum, RegSum

LEMMA PutsSums ==
  ASSUME NEW e, NEW s, NEW f, NEW op, NEW a, NEW b, NEW d, NEW c, NEW dst,
         Puts(e, f, d, dst),
         \A i \in Lanes : Masked(e.exec, i) => Low(dst[i]) = RegSum(e, op, a, b, c, i) % 2^Word
  PROVE  Summed(e, f, op, a, b, d, c)
  BY DEF Puts, Summed

MaskOf(e, m) == e.sreg[m] + 2^Word * e.sreg[m + 1]

\* what an instruction of a chain leaves in the VCC, or in a pair of scalar registers
ShortCarried(e, f, op, a, b, c) ==
    \A i \in Lanes : Bit(f.vcc, i) = Truth(/\ Masked(e.exec, i)
                                           /\ Leaves(op, RegSum(e, op, a, b, c, i))
                                           /\ ~ Lost(op, e.vreg[i][b], c[i]))
LongCarried(e, f, op, a, b, c, m) ==
    \A i \in Lanes : Bit(MaskOf(f, m), i) = Truth(/\ Masked(e.exec, i)
                                                  /\ Leaves(op, RegSum(e, op, a, b, c, i)))

\* the carry in that the long instruction takes
LongTakes(e, inst, op, c, m) ==
    /\ m \in Nat /\ m \in SRegs /\ m + 1 \in SRegs /\ inst.sdst = SReg(m, 2)
    /\ inst.fmt = "VOP3b" /\ inst.abs = {} /\ inst.neg = {}
    /\ \/ inst.op = LongLow(op) /\ \A i \in Lanes : c[i] = 0
       \/ /\ inst.op = LongHigh(op) /\ \A i \in Lanes : c[i] = Bit(MaskOf(e, m), i)
          /\ inst.src2 = SReg(m, 2)

\* the carry in that the short instruction takes
ShortTakes(e, inst, op, c) ==
    /\ inst.fmt = "VOP2" /\ ~ inst.sdwa
    /\ \/ inst.op = ShortLow(op) /\ \A i \in Lanes : c[i] = 0
       \/ inst.op = ShortHigh(op) /\ \A i \in Lanes : c[i] = Bit(e.vcc, i)

LEMMA ShortRun ==
  ASSUME NEW e, EmuShape(e), NEW op \in WideOp, NEW inst,
         NEW a, NEW b, NEW d, Operands(e, inst, a, b, d), NEW c, CarryIn(c),
         ShortTakes(e, inst, op, c), NEW f, f = After(e, inst)
  PROVE  Summed(e, f, op, a, b, d, c) /\ ShortCarried(e, f, op, a, b, c)
  <1>. inst.fmt = "VOP2" /\ ~ inst.sdwa
       BY DEF ShortTakes
  <1>1. PICK s : s = E!Prepare(e, inst)  OBVIOUS
  <1>2. Adds(e, s, a, b)  BY <1>1, PrepareLanes DEF Operands
  <1>3. /\ Words2(s) /\ s.exec = e.exec /\ s.vcc = e.vcc
        /\ \A i \in Lanes : PadSum(op, s, c, i) = RegSum(e, op, a, b, c, i)
        /\ \A i \in Lanes : s.src1[i] = e.vreg[i][b]
        BY <1>2, PadOfRegisters DEF Operands, Adds
  <1>4. PICK S : S = ShortCarries(op, s, c)  OBVIOUS
  <1>5. S \in SUBSET Lanes  BY <1>4 DEF Active, ShortCarries
  <1>6. PICK v : /\ RunVOP2(inst.op, s, inst) = PadVCC(s, v, S)
                 /\ \A i \in Lanes : Low(v[i]) = PadSum(op, s, c, i) % 2^Word
        <2>1. CASE inst.op = ShortLow(op) /\ \A i \in Lanes : c[i] = 0
              BY <1>3, <1>4, <2>1, RunShortLow
        <2>2. CASE inst.op = ShortHigh(op) /\ \A i \in Lanes : c[i] = Bit(e.vcc, i)
              <3>1. \A i \in Lanes : c[i] = Bit(s.vcc, i)  BY <1>3, <2>2
              <3>. QED BY <1>3, <1>4, <2>2, <3>1, RunShortHigh
        <2>. QED BY <2>1, <2>2 DEF ShortTakes
  <1>7. PICK r : r = RunVOP2(inst.op, s, inst)  OBVIOUS
  <1>8. /\ r.exec = e.exec /\ r.vcc = Mask(S)
        /\ \A i \in Lanes : Masked(e.exec, i) => r.dst[i] = v[i]
        BY <1>3, <1>5, <1>6, <1>7, PadVCCIs DEF Words2
  <1>9. After(e, inst) = E!Commit(e, inst, r)
        BY <1>1, <1>7, ComputedIs DEF After
  <1>10. f = After(e, inst)  OBVIOUS
  <1>11. Puts(e, f, d, r.dst) /\ f.vcc = r.vcc
        BY <1>8, <1>9, <1>10, VectorEffect DEF Operands
  <1>12. Summed(e, f, op, a, b, d, c)
        BY <1>3, <1>6, <1>8, <1>11, PutsSums
  <1>13. \A i \in Lanes : Bit(f.vcc, i) = Truth(i \in S)
        BY <1>5, <1>8, <1>11, LaneBits
  <1>14. \A i \in Lanes : i \in S <=> /\ Masked(e.exec, i)
                                      /\ Leaves(op, RegSum(e, op, a, b, c, i))
                                      /\ ~ Lost(op, e.vreg[i][b], c[i])
        BY <1>3, <1>4 DEF Active, ShortCarries
  <1>. QED BY <1>12, <1>13, <1>14 DEF ShortCarried, Truth

LEMMA LongRun ==
  ASSUME NEW e, EmuShape(e), NEW op \in WideOp, NEW inst,
         NEW a, NEW b, NEW d, Operands(e, inst, a, b, d), NEW c, CarryIn(c),
         NEW m, LongTakes(e, inst, op, c, m), NEW f, f = After(e, inst)
  PROVE  Summed(e, f, op, a, b, d, c) /\ LongCarried(e, f, op, a, b, c, m)
  <1>. /\ m \in Nat /\ m \in SRegs /\ m + 1 \in SRegs /\ inst.sdst = SReg(m, 2)
       /\ inst.fmt = "VOP3b" /\ inst.abs = {} /\ inst.neg = {}
       BY DEF LongTakes
  <1>1. PICK s : s = E!Prepare(e, inst)  OBVIOUS
  <1>2. Adds(e, s, a, b)  BY <1>1, PrepareLanes DEF Operands
  <1>3. /\ Words2(s) /\ s.exec = e.exec /\ s.vcc = e.vcc
        /\ \A i \in Lanes : PadSum(op, s, c, i) = RegSum(e, op, a, b, c, i)
        BY <1>2, PadOfRegisters DEF Operands, Adds
  <1>4. PICK S : S = LongCarries(op, s, c)  OBVIOUS
  <1>5. S \in SUBSET Lanes  BY <1>4 DEF Active, LongCarries
  <1>6. PICK v : /\ RunVOP3b(inst.op, s, inst) = PadSDST(s, v, S)
                 /\ \A i \in Lanes : Low(v[i]) = PadSum(op, s, c, i) % 2^Word
        <2>1. CASE inst.op = LongLow(op) /\ \A i \in Lanes : c[i] = 0
              BY <1>3, <1>4, <2>1, RunLongLow
        <2>2. CASE /\ inst.op = LongHigh(op) /\ \A i \in Lanes : c[i] = Bit(MaskOf(e, m), i)
                   /\ inst.src2 = SReg(m, 2)
              <3>1. E!Prepare(e, inst) = E!PrepareVOP3(e, inst)  BY DEF E!Prepare
              <3>2. E!Present(inst.src2)  BY <2>2 DEF E!Present, SReg
              <3>3. s.src2 = E!ReadLanes(e, SReg(m, 2))
                    BY <1>1, <2>2, <3>1, <3>2 DEF E!PrepareVOP3, E!VectorPad
              <3>4. \A i \in Lanes : s.src2[i] = MaskOf(e, m)
                    BY <3>3, ReadScalars DEF E!ReadLanes, MaskOf
              <3>5. \A i \in Lanes : c[i] = Bit(s.src2[i], i)  BY <2>2, <3>4
              <3>. QED BY <1>3, <1>4, <2>2, <3>5, RunLongHigh
        <2>. QED BY <2>1, <2>2 DEF LongTakes
  <1>7. PICK r : r = RunVOP3b(inst.op, s, inst)  OBVIOUS
  <1>8. /\ r.exec = e.exec /\ r.sdst = Mask(S)
        /\ \A i \in Lanes : Masked(e.exec, i) => r.dst[i] = v[i]
        BY <1>3, <1>5, <1>6, <1>7, PadSDSTIs DEF Words2
  <1>9. After(e, inst) = E!Commit(e, inst, r)
        BY <1>1, <1>7, ComputedIs DEF After
  <1>10. f = After(e, inst)  OBVIOUS
  <1>11. /\ Puts(e, f, d, r.dst)
         /\ f.sreg[m] = Low(r.sdst) /\ f.sreg[m + 1] = High(r.sdst)
        <2>1. m + 1 # m  OBVIOUS
        <2>2. /\ Puts(e, f, d, r.dst)
              /\ \A n \in SRegs : f.sreg[n] = IF n = m THEN Low(r.sdst)
                                              ELSE IF n = m + 1 THEN High(r.sdst) ELSE e.sreg[n]
              BY <1>8, <1>9, <1>10, MaskEffect DEF Operands
        <2>. QED BY <2>1, <2>2
  <1>12. Summed(e, f, op, a, b, d, c)
        BY <1>3, <1>6, <1>8, <1>11, PutsSums
  <1>13. \A i \in Lanes : Bit(MaskOf(f, m), i) = Truth(i \in S)
        <2>1. Mask(S) \in 0 .. 2^Pair - 1 /\ \A i \in Lanes : Bit(Mask(S), i) = Truth(i \in S)
              BY <1>5, LaneBits
        <2>2. MaskOf(f, m) = Mask(S)  BY <1>8, <1>11, <2>1, MaskPair DEF MaskOf
        <2>. QED BY <2>1, <2>2
  <1>14. \A i \in Lanes : i \in S <=> /\ Masked(e.exec, i)
                                      /\ Leaves(op, RegSum(e, op, a, b, c, i))
        BY <1>3, <1>4 DEF Active, LongCarries
  <1>. QED BY <1>12, <1>13, <1>14 DEF LongCarried, Truth

-----------------------------------------------------------------------------
\* the scalar instructions of a chain

SPad(s) == s = [src0 |-> s.src0, src1 |-> s.src1, dst |-> s.dst, exec |-> s.exec,
                vcc |-> s.vcc, scc |-> s.scc, pc |-> s.pc, imm |-> s.imm]

ScalarSum(e, op, a, b, c) == Total(op, e.sreg[a], e.sreg[b]) + Carried(op, c)

ScalarOperands(e, inst, a, b, d) ==
    /\ a \in SRegs /\ b \in SRegs /\ d \in SRegs
    /\ e.sreg[a] \in Words32 /\ e.sreg[b] \in Words32
    /\ inst.src0 = SReg(a, 1) /\ inst.src1 = SReg(b, 1) /\ inst.dst = SReg(d, 1)

LEMMA ScalarPrepared ==
  ASSUME NEW e, NEW inst, inst.fmt = "SOP2", NEW a, NEW b, NEW d, ScalarOperands(e, inst, a, b, d)
  PROVE  LET s == E!Prepare(e, inst)
         IN  SPad(s) /\ s.src0 = e.sreg[a] /\ s.src1 = e.sreg[b] /\ s.scc = e.scc
  <1>1. a \in Nat /\ b \in Nat  BY FilesAssumption DEF ScalarOperands
  <1>2. e.sreg[a] \in Int /\ e.sreg[b] \in Int  BY BaseIs DEF ScalarOperands, Words32
  <1>3. /\ E!ReadPair(e, inst.src0, 0) = e.sreg[a]
        /\ E!ReadPair(e, inst.src1, 0) = e.sreg[b]
        BY <1>1, <1>2, ReadScalar DEF ScalarOperands
  <1>4. E!Prepare(e, inst) = E!PrepareSOP2(e, inst)  BY DEF E!Prepare
  <1>. QED BY <1>3, <1>4 DEF E!PrepareSOP2, E!ScalarPad, SPad

LEMMA ScalarCommitted ==
  ASSUME NEW e, EmuShape(e), NEW inst, inst.fmt = "SOP2", NEW d \in SRegs, inst.dst = SReg(d, 1),
         NEW s, NEW x, NEW y, NEW r, SPad(s), r = WithCarry(s, x, y)
  PROVE  LET f == E!Commit(e, inst, r)
         IN  /\ EmuShape(f) /\ f.exec = e.exec /\ f.scc = y
             /\ \A n \in SRegs : f.sreg[n] = IF n = d THEN Low(x) ELSE e.sreg[n]
  <1>1. r.dst = x /\ r.scc = y
        <2>1. s = [src0 |-> s.src0, src1 |-> s.src1, dst |-> s.dst, exec |-> s.exec,
                   vcc |-> s.vcc, scc |-> s.scc, pc |-> s.pc, imm |-> s.imm]
              BY DEF SPad
        <2>2. r = [src0 |-> s.src0, src1 |-> s.src1, dst |-> x, exec |-> s.exec,
                   vcc |-> s.vcc, scc |-> y, pc |-> s.pc, imm |-> s.imm]
              BY <2>1 DEF WithCarry
        <2>. QED BY <2>2
  <1>2. PICK w : w = E!WordsOf(r.dst)  OBVIOUS
  <1>3. w[1] = Low(x)
        BY <1>1, <1>2 DEF E!WordsOf, E!Low, Low, E!U32, U32, E!Word, Word
  <1>4. PICK g : g = E!WriteOperand(e, SReg(d, 1), 0, w)  OBVIOUS
  <1>5. d \in Nat  BY FilesAssumption
  <1>6. /\ EmuShape(g) /\ g.exec = e.exec
        /\ \A n \in SRegs : g.sreg[n] = IF n \in d .. d + 1 - 1 THEN w[n - d + 1] ELSE e.sreg[n]
        BY <1>4, <1>5, PutScalars
  <1>7. \A n \in SRegs : g.sreg[n] = IF n = d THEN Low(x) ELSE e.sreg[n]
        <2>. SUFFICES ASSUME NEW n \in SRegs PROVE g.sreg[n] = IF n = d THEN Low(x) ELSE e.sreg[n]
             OBVIOUS
        <2>1. n \in Nat  BY FilesAssumption
        <2>2. n \in d .. d + 1 - 1 <=> n = d  BY <1>5, <2>1
        <2>3. d - d + 1 = 1  BY <1>5
        <2>. QED BY <1>3, <1>6, <2>2, <2>3
  <1>8. E!Commit(e, inst, r) = [g EXCEPT !.scc = r.scc]
        BY <1>2, <1>4 DEF E!Commit, E!CommitSOP2
  <1>9. PICK f : f = [g EXCEPT !.scc = y]  OBVIOUS
  <1>10. g = [pc |-> g.pc, m0 |-> g.m0, exec |-> g.exec, vcc |-> g.vcc, scc |-> g.scc,
              sreg |-> g.sreg, vreg |-> g.vreg]
         BY <1>6 DEF EmuShape
  <1>11. f = [pc |-> g.pc, m0 |-> g.m0, exec |-> g.exec, vcc |-> g.vcc, scc |-> y,
              sreg |-> g.sreg, vreg |-> g.vreg]
         BY <1>9, <1>10
  <1>12. EmuShape(f)
         <2>1. /\ g.sreg = [n \in SRegs |-> g.sreg[n]] /\ g.vreg = [i \in Lanes |-> g.vreg[i]]
               /\ \A i \in Lanes : g.vreg[i] = [k \in VRegs |-> g.vreg[i][k]]
               BY <1>6 DEF EmuShape
         <2>. QED BY <1>11, <2>1 DEF EmuShape
  <1>. QED BY <1>1, <1>6, <1>7, <1>8, <1>9, <1>11, <1>12

\* the result, and the SCC where the code gets it right
ScalarSummed(e, f, op, a, b, d, c) ==
    /\ EmuShape(f) /\ f.exec = e.exec
    /\ \A n \in SRegs : f.sreg[n] = IF n = d THEN ScalarSum(e, op, a, b, c) % 2^Word ELSE e.sreg[n]

LEMMA ScalarLowEffect ==
  ASSUME NEW e, EmuShape(e), NEW op \in {"add", "sub"}, NEW inst, inst.fmt = "SOP2",
         NEW a, NEW b, NEW d, ScalarOperands(e, inst, a, b, d),
         inst.op = IF op = "add" THEN "S_ADD_U32" ELSE "S_SUB_U32",
         op = "add" \/ e.scc = 0
  PROVE  LET f == After(e, inst)
         IN  /\ ScalarSummed(e, f, op, a, b, d, 0)
             /\ f.scc = Truth(Leaves(op, ScalarSum(e, op, a, b, 0)))
  <1>1. PICK s : s = E!Prepare(e, inst)  OBVIOUS
  <1>2. SPad(s) /\ s.src0 = e.sreg[a] /\ s.src1 = e.sreg[b] /\ s.scc = e.scc
        BY <1>1, ScalarPrepared
  <1>3. PICK A \in Words32, B \in Words32 : A = e.sreg[a] /\ B = e.sreg[b]
        BY DEF ScalarOperands
  <1>4. PICK x : x = ScalarSum(e, op, a, b, 0)  OBVIOUS
  <1>5. op \in WideOp /\ 0 \in {0, 1}  BY DEF WideOp
  <1>6. x = Total(op, A, B) + Carried(op, 0)  BY <1>3, <1>4 DEF ScalarSum
  <1>7. A \in Int /\ B \in Int /\ Max32 \in Int /\ U32(A) = A /\ U32(B) = B
        BY BaseIs, Fits DEF Words32
  <1>8. /\ x \in Int
        /\ op = "add" => x = A + B
        /\ op = "sub" => x = A - B
        BY <1>5, <1>6, <1>7, TotalRange
  <1>9. Low(U32(x)) = x % 2^Word /\ Low(U64(x)) = x % 2^Word  BY <1>8, LowOf
  <1>10. After(e, inst) = E!Commit(e, inst, RunSOP2(inst.op, s))
        BY <1>1, ComputedIs DEF After
  <1>11. d \in SRegs /\ inst.dst = SReg(d, 1)  BY DEF ScalarOperands
  <1>12. CASE op = "add"
        <2>1. RunSOP2(inst.op, s) = WithCarry(s, U32(U32(s.src0) + U32(s.src1)),
                                              Truth(U32(s.src0) > Max32 - U32(s.src1)))
              BY <1>12 DEF RunSOP2, AddSub
        <2>2. U32(s.src0) + U32(s.src1) = x /\ U32(s.src0) = A /\ U32(s.src1) = B
              BY <1>2, <1>3, <1>7, <1>8, <1>12
        <2>3. A > Max32 - B <=> Leaves(op, x)
              BY <1>7, <1>8, <1>12 DEF Leaves
        <2>4. RunSOP2(inst.op, s) = WithCarry(s, U32(x), Truth(Leaves(op, x)))
              BY <2>1, <2>2, <2>3 DEF Truth
        <2>. QED BY <1>2, <1>4, <1>9, <1>10, <1>11, <2>4, ScalarCommitted DEF ScalarSummed
  <1>13. CASE op = "sub"
        <2>1. RunSOP2(inst.op, s) = WithCarry(s, U64(s.src0 - s.src1),
                                              IF s.src0 < s.src1 THEN 1 ELSE s.scc)
              BY <1>13 DEF RunSOP2, AddSub
        <2>2. s.src0 - s.src1 = x /\ s.scc = 0  BY <1>2, <1>3, <1>8, <1>13
        <2>3. s.src0 < s.src1 <=> Leaves(op, x)
              BY <1>2, <1>3, <1>7, <1>8, <1>13 DEF Leaves
        <2>4. RunSOP2(inst.op, s) = WithCarry(s, U64(x), Truth(Leaves(op, x)))
              BY <2>1, <2>2, <2>3 DEF Truth
        <2>. QED BY <1>2, <1>4, <1>9, <1>10, <1>11, <2>4, ScalarCommitted DEF ScalarSummed
  <1>. QED BY <1>12, <1>13

LEMMA ScalarHighEffect ==
  ASSUME NEW e, EmuShape(e), NEW op \in {"add", "sub"}, NEW inst, inst.fmt = "SOP2",
         NEW a, NEW b, NEW d, ScalarOperands(e, inst, a, b, d),
         inst.op = IF op = "add" THEN "S_ADDC_U32" ELSE "S_SUBB_U32",
         e.scc \in {0, 1}
  PROVE  ScalarSummed(e, After(e, inst), op, a, b, d, e.scc)
  <1>1. PICK s : s = E!Prepare(e, inst)  OBVIOUS
  <1>2. SPad(s) /\ s.src0 = e.sreg[a] /\ s.src1 = e.sreg[b] /\ s.scc = e.scc
        BY <1>1, ScalarPrepared
  <1>3. PICK A \in Words32, B \in Words32, C \in {0, 1} : A = e.sreg[a] /\ B = e.sreg[b] /\ C = e.scc
        BY DEF ScalarOperands
  <1>4. PICK x : x = ScalarSum(e, op, a, b, C)  OBVIOUS
  <1>5. op \in WideOp  BY DEF WideOp
  <1>6. x = Total(op, A, B) + Carried(op, C)  BY <1>3, <1>4 DEF ScalarSum
  <1>7. A \in Int /\ B \in Int /\ Max32 \in Int /\ U32(A) = A /\ U32(B) = B
        BY BaseIs, Fits DEF Words32
  <1>8. /\ x \in Int
        /\ op = "add" => x = A + B + C
        /\ op = "sub" => x = A - B - C
        BY <1>5, <1>6, TotalRange
  <1>9. Low(U32(x)) = x % 2^Word /\ Low(U64(x)) = x % 2^Word  BY <1>8, LowOf
  <1>10. After(e, inst) = E!Commit(e, inst, RunSOP2(inst.op, s))
        BY <1>1, ComputedIs DEF After
  <1>11. d \in SRegs /\ inst.dst = SReg(d, 1)  BY DEF ScalarOperands
  <1>12. CASE op = "add"
        <2>1. PICK z : RunSOP2(inst.op, s) = WithCarry(s, U32(U32(s.src0) + U32(s.src1) + s.scc), z)
              BY <1>12 DEF RunSOP2, AddWithCarry
        <2>2. U32(s.src0) + U32(s.src1) + s.scc = x
              BY <1>2, <1>3, <1>7, <1>8, <1>12
        <2>3. RunSOP2(inst.op, s) = WithCarry(s, U32(x), z)  BY <2>1, <2>2
        <2>. QED BY <1>2, <1>3, <1>4, <1>9, <1>10, <1>11, <2>3, ScalarCommitted DEF ScalarSummed
  <1>13. CASE op = "sub"
        <2>1. PICK z : RunSOP2(inst.op, s) = WithCarry(s, U64(s.src0 - s.src1 - s.scc), z)
              BY <1>13 DEF RunSOP2, AddWithCarry
        <2>2. s.src0 - s.src1 - s.scc = x  BY <1>2, <1>3, <1>8, <1>13
        <2>3. RunSOP2(inst.op, s) = WithCarry(s, U64(x), z)  BY <2>1, <2>2
        <2>. QED BY <1>2, <1>3, <1>4, <1>9, <1>10, <1>11, <2>3, ScalarCommitted DEF ScalarSummed
  <1>. QED BY <1>12, <1>13

-----------------------------------------------------------------------------
\* the two instructions one after the other

VectorWide(e, i, n) == PairOf(<<e.vreg[i][n], e.vreg[i][n + 1]>>)
ScalarWide(e, n) == PairOf(<<e.sreg[n], e.sreg[n + 1]>>)

LEMMA VectorChain ==
  ASSUME NEW e, NEW f, NEW g, NEW op \in WideOp, NEW c0, NEW c1,
         Summed(e, f, op, 0, 2, 4, c0), Summed(f, g, op, 1, 3, 5, c1),
         NEW i \in Lanes, Masked(e.exec, i), c0[i] = 0,
         c1[i] = Truth(Leaves(op, RegSum(e, op, 0, 2, c0, i))),
         0 .. 5 \subseteq VRegs, \A n \in 0 .. 3 : e.vreg[i][n] \in Words32
  PROVE  /\ VectorWide(g, i, 4) = WideResult(op, VectorWide(e, i, 0), VectorWide(e, i, 2))
         /\ Leaves(op, RegSum(f, op, 1, 3, c1, i))
                <=> Overflows(op, VectorWide(e, i, 0), VectorWide(e, i, 2))
  <1>1. PICK a0 \in Words32, a1 \in Words32, b0 \in Words32, b1 \in Words32 :
             /\ a0 = e.vreg[i][0] /\ a1 = e.vreg[i][1]
             /\ b0 = e.vreg[i][2] /\ b1 = e.vreg[i][3]
        OBVIOUS
  <1>2. PICK x : x = Total(op, a0, b0)  OBVIOUS
  <1>3. PICK y : y = Total(op, a1, b1) + Carried(op, Truth(Leaves(op, x)))  OBVIOUS
  <1>4. /\ PairOf(<<x % 2^Word, y % 2^Word>>) = WideResult(op, PairOf(<<a0, a1>>), PairOf(<<b0, b1>>))
        /\ Leaves(op, y) <=> Overflows(op, PairOf(<<a0, a1>>), PairOf(<<b0, b1>>))
        <2>1. /\ a0 \in 0 .. Max32 /\ a1 \in 0 .. Max32
              /\ b0 \in 0 .. Max32 /\ b1 \in 0 .. Max32
              BY DEF Words32
        <2>. QED BY <1>2, <1>3, <2>1, TwoWords
  <1>5. RegSum(e, op, 0, 2, c0, i) = x
        <2>1. Total(op, a0, b0) + Carried(op, 0) = Total(op, a0, b0)
              <3>1. Carried(op, 0) = 0  BY CarriedType
              <3>2. a0 \in Int /\ b0 \in Int  BY BaseIs DEF Words32
              <3>3. Total(op, a0, b0) \in Int  BY <3>2 DEF Total, Difference
              <3>. QED BY <3>1, <3>3
        <2>. QED BY <1>1, <1>2, <2>1 DEF RegSum
  <1>6. /\ 0 \in VRegs /\ 1 \in VRegs /\ 2 \in VRegs /\ 3 \in VRegs /\ 4 \in VRegs /\ 5 \in VRegs
        OBVIOUS
  <1>7. f.vreg[i][4] = x % 2^Word /\ f.vreg[i][1] = a1 /\ f.vreg[i][3] = b1
        BY <1>1, <1>5, <1>6 DEF Summed
  <1>8. RegSum(f, op, 1, 3, c1, i) = y
        BY <1>3, <1>5, <1>7 DEF RegSum
  <1>9. f.exec = e.exec  BY DEF Summed
  <1>10. g.vreg[i][4] = x % 2^Word /\ g.vreg[i][5] = y % 2^Word
        BY <1>6, <1>7, <1>8, <1>9 DEF Summed
  <1>11. 0 + 1 = 1 /\ 2 + 1 = 3 /\ 4 + 1 = 5  OBVIOUS
  <1>12. /\ VectorWide(g, i, 4) = PairOf(<<x % 2^Word, y % 2^Word>>)
         /\ VectorWide(e, i, 0) = PairOf(<<a0, a1>>)
         /\ VectorWide(e, i, 2) = PairOf(<<b0, b1>>)
         BY <1>1, <1>10, <1>11 DEF VectorWide
  <1>. QED BY <1>4, <1>8, <1>12

LEMMA ScalarChain ==
  ASSUME NEW e, NEW f, NEW g, NEW op \in {"add", "sub"},
         ScalarSummed(e, f, op, 0, 2, 4, 0), ScalarSummed(f, g, op, 1, 3, 5, f.scc),
         f.scc = Truth(Leaves(op, ScalarSum(e, op, 0, 2, 0))),
         0 .. 5 \subseteq SRegs, \A n \in 0 .. 3 : e.sreg[n] \in Words32
  PROVE  ScalarWide(g, 4) = WideResult(op, ScalarWide(e, 0), ScalarWide(e, 2))
  <1>1. PICK a0 \in Words32, a1 \in Words32, b0 \in Words32, b1 \in Words32 :
             a0 = e.sreg[0] /\ a1 = e.sreg[1] /\ b0 = e.sreg[2] /\ b1 = e.sreg[3]
        OBVIOUS
  <1>2. PICK x : x = Total(op, a0, b0)  OBVIOUS
  <1>3. PICK y : y = Total(op, a1, b1) + Carried(op, Truth(Leaves(op, x)))  OBVIOUS
  <1>4. PairOf(<<x % 2^Word, y % 2^Word>>) = WideResult(op, PairOf(<<a0, a1>>), PairOf(<<b0, b1>>))
        <2>1. /\ a0 \in 0 .. Max32 /\ a1 \in 0 .. Max32
              /\ b0 \in 0 .. Max32 /\ b1 \in 0 .. Max32 /\ op \in WideOp
              BY DEF Words32, WideOp
        <2>. QED BY <1>2, <1>3, <2>1, TwoWords
  <1>5. ScalarSum(e, op, 0, 2, 0) = x
        <2>1. Total(op, a0, b0) + Carried(op, 0) = Total(op, a0, b0)
              <3>1. Carried(op, 0) = 0  BY CarriedType DEF WideOp
              <3>2. a0 \in Int /\ b0 \in Int  BY BaseIs DEF Words32
              <3>3. Total(op, a0, b0) \in Int  BY <3>2 DEF Total, Difference
              <3>. QED BY <3>1, <3>3
        <2>. QED BY <1>1, <1>2, <2>1 DEF ScalarSum
  <1>6. /\ 0 \in SRegs /\ 1 \in SRegs /\ 2 \in SRegs /\ 3 \in SRegs /\ 4 \in SRegs /\ 5 \in SRegs
        OBVIOUS
  <1>7. f.sreg[4] = x % 2^Word /\ f.sreg[1] = a1 /\ f.sreg[3] = b1
        BY <1>1, <1>5, <1>6 DEF ScalarSummed
  <1>8. ScalarSum(f, op, 1, 3, f.scc) = y
        BY <1>3, <1>5, <1>7 DEF ScalarSum
  <1>10. g.sreg[4] = x % 2^Word /\ g.sreg[5] = y % 2^Word
        BY <1>6, <1>7, <1>8 DEF ScalarSummed
  <1>11. 0 + 1 = 1 /\ 2 + 1 = 3 /\ 4 + 1 = 5  OBVIOUS
  <1>12. /\ ScalarWide(g, 4) = PairOf(<<x % 2^Word, y % 2^Word>>)
         /\ ScalarWide(e, 0) = PairOf(<<a0, a1>>)
         /\ ScalarWide(e, 2) = PairOf(<<b0, b1>>)
         BY <1>1, <1>10, <1>11 DEF ScalarWide
  <1>. QED BY <1>4, <1>12

-----------------------------------------------------------------------------
\* what a program of two words is made of

LEMMA InVRegs == ASSUME NEW n \in Nat, IsSource(VReg(n, 1)) \/ IsVector(VReg(n, 1)) PROVE n \in VRegs
  <1>1. IsVector(VReg(n, 1))  BY DEF IsSource, IsRegister, IsScalar, VReg
  <1>2. E!Span(VReg(n, 1)) \subseteq VRegs  BY <1>1 DEF IsVector, InFile
  <1>3. E!Span(VReg(n, 1)) = n .. n + 1 - 1  BY DEF E!Span, E!Count, VReg
  <1>. QED BY <1>2, <1>3

LEMMA InSRegs ==
  ASSUME NEW n \in Nat, NEW count \in {1, 2}, IsSource(SReg(n, count)) \/ IsRegister(SReg(n, count))
  PROVE  n \in SRegs /\ (count = 2 => n + 1 \in SRegs)
  <1>1. IsScalar(SReg(n, count))  BY DEF IsSource, IsRegister, IsVector, SReg
  <1>2. E!Span(SReg(n, count)) \subseteq SRegs  BY <1>1 DEF IsScalar, InFile
  <1>3. E!Span(SReg(n, count)) = n .. n + count - 1  BY DEF E!Span, E!Count, SReg
  <1>. QED BY <1>2, <1>3

LEMMA VectorCode ==
  ASSUME NEW p \in Programs, p.goal = "wide", p.form \in {"VOP2", "VOP3b"}
  PROVE  /\ p.op \in WideOp /\ 0 .. 5 \subseteq VRegs /\ Len(p.code) = 2
         /\ \A k \in {1, 2} : /\ p.code[k].fmt = p.form
                              /\ p.code[k].src0 = VReg(k - 1, 1) /\ p.code[k].src1 = VReg(k + 1, 1)
                              /\ p.code[k].dst = VReg(k + 3, 1)
         /\ p.form = "VOP2" => /\ p.code[1].op = ShortLow(p.op) /\ p.code[2].op = ShortHigh(p.op)
                               /\ ~ p.code[1].sdwa /\ ~ p.code[2].sdwa
         /\ p.form = "VOP3b" => /\ p.code[1].op = LongLow(p.op) /\ p.code[2].op = LongHigh(p.op)
                                /\ p.code[2].src2 = SReg(6, 2) /\ 6 \in SRegs /\ 7 \in SRegs
                                /\ \A k \in {1, 2} : /\ p.code[k].abs = {} /\ p.code[k].neg = {}
                                                     /\ p.code[k].sdst = SReg(6, 2)
  <1>1. IsChain(p)  BY ChainsAssumption
  <1>2. Len(p.code) = 2 /\ 1 .. 2 = {1, 2}  BY <1>1 DEF IsChain
  <1>3. <<p.form, p.op, p.code[1].op, p.code[2].op>> \in WideOps  BY <1>1 DEF IsChain
  <1>4. \A k \in {1, 2} : /\ p.code[k].fmt = p.form
                          /\ p.code[k].src0 = VReg(k - 1, 1) /\ p.code[k].src1 = VReg(k + 1, 1)
                          /\ p.code[k].dst = VReg(k + 3, 1)
                          /\ p.form = "VOP2" => ~ p.code[k].sdwa
                          /\ p.form = "VOP3b" => /\ p.code[k].sdst = SReg(6, 2)
                                                 /\ p.code[k].abs = {} /\ p.code[k].neg = {}
        BY <1>1, <1>2 DEF IsChain
  <1>5. /\ p.op \in WideOp
        /\ p.form = "VOP2" => p.code[1].op = ShortLow(p.op) /\ p.code[2].op = ShortHigh(p.op)
        /\ p.form = "VOP3b" => p.code[1].op = LongLow(p.op) /\ p.code[2].op = LongHigh(p.op)
        BY <1>3 DEF WideOps, WideOp, ShortLow, ShortHigh, LongLow, LongHigh
  <1>6. \A k \in {1, 2} : WellFormedVector(p.code[k])
        <2>1. \A k \in {1, 2} : WellFormed(p.code[k])  BY <1>2, ProgramsAssumption
        <2>. QED BY <1>4, <2>1 DEF WellFormed, WellFormedScalar, WellFormedMemory
  <1>7. \A k \in {1, 2} : k - 1 \in VRegs /\ k + 1 \in VRegs /\ k + 3 \in VRegs
        <2>. SUFFICES ASSUME NEW k \in {1, 2} PROVE k - 1 \in VRegs /\ k + 1 \in VRegs /\ k + 3 \in VRegs
             OBVIOUS
        <2>1. k - 1 \in Nat /\ k + 1 \in Nat /\ k + 3 \in Nat  OBVIOUS
        <2>2. IsSource(VReg(k - 1, 1)) /\ IsSource(VReg(k + 1, 1)) /\ IsVector(VReg(k + 3, 1))
              BY <1>4, <1>6 DEF WellFormedVector
        <2>. QED BY <2>1, <2>2, InVRegs
  <1>8. 0 .. 5 \subseteq VRegs
        <2>1. 0 .. 5 = {1 - 1, 2 - 1, 1 + 1, 2 + 1, 1 + 3, 2 + 3}  OBVIOUS
        <2>. QED BY <1>7, <2>1
  <1>9. p.form = "VOP3b" => p.code[2].src2 = SReg(6, 2) /\ 6 \in SRegs /\ 7 \in SRegs
        <2>. SUFFICES ASSUME p.form = "VOP3b"
                      PROVE p.code[2].src2 = SReg(6, 2) /\ 6 \in SRegs /\ 7 \in SRegs
             OBVIOUS
        <2>1. p.code[2].src2 = SReg(6, 2)  BY <1>1 DEF IsChain
        <2>2. IsRegister(SReg(6, 2))  BY <1>4, <1>6 DEF WellFormedVector
        <2>3. 6 \in Nat /\ 6 + 1 = 7 /\ 2 \in {1, 2}  OBVIOUS
        <2>. QED BY <2>1, <2>2, <2>3, InSRegs
  <1>. QED BY <1>2, <1>4, <1>5, <1>8, <1>9

LEMMA ScalarCode ==
  ASSUME NEW p \in Programs, p.goal = "wide", p.form = "SOP2"
  PROVE  /\ p.op \in {"add", "sub"} /\ 0 .. 5 \subseteq SRegs /\ Len(p.code) = 2
         /\ \A k \in {1, 2} : /\ p.code[k].fmt = "SOP2"
                              /\ p.code[k].src0 = SReg(k - 1, 1) /\ p.code[k].src1 = SReg(k + 1, 1)
                              /\ p.code[k].dst = SReg(k + 3, 1)
         /\ p.code[1].op = IF p.op = "add" THEN "S_ADD_U32" ELSE "S_SUB_U32"
         /\ p.code[2].op = IF p.op = "add" THEN "S_ADDC_U32" ELSE "S_SUBB_U32"
  <1>1. IsChain(p)  BY ChainsAssumption
  <1>2. Len(p.code) = 2 /\ 1 .. 2 = {1, 2}  BY <1>1 DEF IsChain
  <1>3. <<p.form, p.op, p.code[1].op, p.code[2].op>> \in WideOps  BY <1>1 DEF IsChain
  <1>4. \A k \in {1, 2} : /\ p.code[k].fmt = "SOP2"
                          /\ p.code[k].src0 = SReg(k - 1, 1) /\ p.code[k].src1 = SReg(k + 1, 1)
                          /\ p.code[k].dst = SReg(k + 3, 1)
        BY <1>1, <1>2 DEF IsChain
  <1>5. /\ p.op \in {"add", "sub"}
        /\ p.code[1].op = IF p.op = "add" THEN "S_ADD_U32" ELSE "S_SUB_U32"
        /\ p.code[2].op = IF p.op = "add" THEN "S_ADDC_U32" ELSE "S_SUBB_U32"
        BY <1>3 DEF WideOps
  <1>6. \A k \in {1, 2} : WellFormedScalar(p.code[k])
        <2>1. \A k \in {1, 2} : WellFormed(p.code[k])  BY <1>2, ProgramsAssumption
        <2>. QED BY <1>4, <2>1 DEF WellFormed, WellFormedVector, WellFormedMemory
  <1>7. \A k \in {1, 2} : k - 1 \in SRegs /\ k + 1 \in SRegs /\ k + 3 \in SRegs
        <2>. SUFFICES ASSUME NEW k \in {1, 2} PROVE k - 1 \in SRegs /\ k + 1 \in SRegs /\ k + 3 \in SRegs
             OBVIOUS
        <2>1. k - 1 \in Nat /\ k + 1 \in Nat /\ k + 3 \in Nat /\ 1 \in {1, 2}  OBVIOUS
        <2>2. IsSource(SReg(k - 1, 1)) /\ IsSource(SReg(k + 1, 1)) /\ IsRegister(SReg(k + 3, 1))
              BY <1>4, <1>6 DEF WellFormedScalar
        <2>. QED BY <2>1, <2>2, InSRegs
  <1>8. 0 .. 5 \subseteq SRegs
        <2>1. 0 .. 5 = {1 - 1, 2 - 1, 1 + 1, 2 + 1, 1 + 3, 2 + 3}  OBVIOUS
        <2>. QED BY <1>7, <2>1
  <1>. QED BY <1>2, <1>4, <1>5, <1>8

-----------------------------------------------------------------------------
\* The registers a program starts from are a function of the input, and so are
\* those after one and after two instructions.
Start ==
    [pc |-> Special.pc, m0 |-> Special.m0, exec |-> Special.exec, vcc |-> Special.vcc,
     scc |-> Special.scc,
     sreg |-> [n \in SRegs |-> ScalarInput(n)],
     vreg |-> [i \in Lanes |-> [n \in VRegs |-> VectorInput(i, n)]]]

Stage(e, p, n, start) ==
    /\ n = 0 => e = start
    /\ n = 1 => e = After(start, p.code[1])
    /\ n = 2 => e = After(After(start, p.code[1]), p.code[2])

WInv == /\ program \in Programs /\ input \in Inputs /\ done \in Nat
        /\ Stage(emu, program, done, Start)

LEMMA InitStage == Init => WInv
  <1>. SUFFICES ASSUME Init PROVE WInv
       OBVIOUS
  <1>1. emu = Start  BY DEF Init, Start
  <1>2. program \in Programs /\ input \in Inputs /\ done = 0 /\ done \in Nat  BY DEF Init
  <1>. QED BY <1>1, <1>2 DEF WInv, Stage

LEMMA StepStage == WInv /\ [Next]_vars => WInv'
  <1>. SUFFICES ASSUME WInv, [Next]_vars PROVE WInv'
       OBVIOUS
  <1>1. /\ program \in Programs /\ input \in Inputs /\ done \in Nat
        /\ Stage(emu, program, done, Start)
        BY DEF WInv
  <1>2. CASE UNCHANGED vars
        <2>1. /\ program' = program /\ input' = input /\ done' = done /\ emu' = emu
              BY <1>2 DEF vars
        <2>2. Start' = Start
              BY <2>1 DEF Start, Special, ScalarInput, VectorInput
        <2>. QED BY <1>1, <2>1, <2>2 DEF WInv, Stage
  <1>3. CASE Execute
        <2>1. /\ program' = program /\ input' = input /\ done' = done + 1
              /\ emu' = After(emu, program.code[done + 1])
              BY <1>3 DEF Execute, After
        <2>2. Start' = Start
              BY <2>1 DEF Start, Special, ScalarInput, VectorInput
        <2>3. Stage(emu', program, done', Start)
              <3>1. CASE done = 0  BY <1>1, <2>1, <3>1 DEF Stage
              <3>2. CASE done = 1
                    <4>1. emu = After(Start, program.code[1]) /\ done + 1 = 2  BY <1>1, <3>2 DEF Stage
                    <4>2. emu' = After(After(Start, program.code[1]), program.code[2])  BY <2>1, <4>1
                    <4>3. done' = 2  BY <2>1, <4>1
                    <4>. QED BY <4>2, <4>3 DEF Stage
              <3>3. CASE done # 0 /\ done # 1
                    <4>1. done' # 0 /\ done' # 1 /\ done' # 2  BY <1>1, <2>1, <3>3
                    <4>. QED BY <4>1 DEF Stage
              <3>. QED BY <3>1, <3>2, <3>3
        <2>. QED BY <1>1, <2>1, <2>2, <2>3 DEF WInv
  <1>. QED BY <1>2, <1>3 DEF Next

\* the registers of the start
LEMMA StartIs ==
  ASSUME input \in Inputs
  PROVE  /\ EmuShape(Start) /\ Start.exec = Special.exec /\ Start.vcc = Special.vcc
         /\ Start.scc = Special.scc /\ Special.scc \in {0, 1}
         /\ \A n \in SRegs : Start.sreg[n] = ScalarInput(n)
         /\ \A i \in Lanes, n \in VRegs : Start.vreg[i][n] = VectorInput(i, n)
         /\ \A i \in Lanes, n \in 0 .. 3 : VectorInput(i, n) \in Words32
         /\ \A n \in 0 .. 3 : ScalarInput(n) = VectorInput(0, n)
  <1>1. \A i \in Lanes, n \in 0 .. 3 : input[i][n] \in 0 .. Max32  BY InputsAssumption
  <1>2. 0 \in Lanes  BY LanesAssumption
  <1>3. \A i \in Lanes, n \in 0 .. 3 : VectorInput(i, n) = input[i][n] /\ ScalarInput(n) = input[0][n]
        BY DEF VectorInput, ScalarInput
  <1>4. Special.scc \in {0, 1}
        <2>1. input[0][0] \in Int  BY <1>1, <1>2, BaseIs
        <2>2. input[0][0] % 2 \in {0, 1}  BY <2>1
        <2>. QED BY <2>2 DEF Special
  <1>5. PICK sreg : sreg = [n \in SRegs |-> ScalarInput(n)]  OBVIOUS
  <1>6. PICK vreg : vreg = [i \in Lanes |-> [n \in VRegs |-> VectorInput(i, n)]]  OBVIOUS
  <1>7. Start = [pc |-> Special.pc, m0 |-> Special.m0, exec |-> Special.exec, vcc |-> Special.vcc,
                 scc |-> Special.scc, sreg |-> sreg, vreg |-> vreg]
        BY <1>5, <1>6 DEF Start
  <1>8. /\ sreg = [n \in SRegs |-> sreg[n]] /\ vreg = [i \in Lanes |-> vreg[i]]
        /\ \A i \in Lanes : vreg[i] = [n \in VRegs |-> vreg[i][n]]
        BY <1>5, <1>6
  <1>9. EmuShape(Start)  BY <1>7, <1>8 DEF EmuShape
  <1>10. /\ Start.exec = Special.exec /\ Start.vcc = Special.vcc /\ Start.scc = Special.scc
         /\ Start.sreg = sreg /\ Start.vreg = vreg
         BY <1>7
  <1>11. /\ \A n \in SRegs : Start.sreg[n] = ScalarInput(n)
         /\ \A i \in Lanes, n \in VRegs : Start.vreg[i][n] = VectorInput(i, n)
         BY <1>5, <1>6, <1>10
  <1>12. \A i \in Lanes, n \in 0 .. 3 : VectorInput(i, n) \in Words32
         BY <1>1, <1>3 DEF Words32
  <1>13. \A n \in 0 .. 3 : ScalarInput(n) = VectorInput(0, n)  BY <1>2, <1>3
  <1>. QED BY <1>4, <1>9, <1>10, <1>11, <1>12, <1>13

\* the first instruction leaves words in the registers the second one reads
LEMMA StillWords ==
  ASSUME NEW e, NEW f, NEW op, NEW c, Summed(e, f, op, 0, 2, 4, c), 0 .. 5 \subseteq VRegs,
         \A i \in Lanes, n \in 0 .. 3 : e.vreg[i][n] \in Words32
  PROVE  /\ \A i \in Lanes, n \in 0 .. 3 : f.vreg[i][n] = e.vreg[i][n]
         /\ HasWords(e, 0) /\ HasWords(e, 2) /\ HasWords(f, 1) /\ HasWords(f, 3)
  <1>1. /\ 0 \in VRegs /\ 1 \in VRegs /\ 2 \in VRegs /\ 3 \in VRegs
        /\ \A n \in 0 .. 3 : n \in VRegs /\ n # 4
        OBVIOUS
  <1>2. \A i \in Lanes, n \in 0 .. 3 : f.vreg[i][n] = e.vreg[i][n]
        BY <1>1 DEF Summed
  <1>. QED BY <1>1, <1>2 DEF HasWords

LEMMA WideShort ==
  ASSUME NEW p \in Programs, p.goal = "wide", p.form = "VOP2", NEW e, EmuShape(e),
         \A i \in Lanes, n \in 0 .. 3 : e.vreg[i][n] \in Words32
  PROVE  LET g == After(After(e, p.code[1]), p.code[2])
         IN  \A i \in Lanes : Masked(e.exec, i) =>
                /\ VectorWide(g, i, 4) = WideResult(p.op, VectorWide(e, i, 0), VectorWide(e, i, 2))
                /\ \/ p.op = "add" /\ e.vreg[i][0] + e.vreg[i][2] > Max32 /\ e.vreg[i][3] = Max32
                   \/ Masked(g.vcc, i) <=> Overflows(p.op, VectorWide(e, i, 0), VectorWide(e, i, 2))
  <1>1. /\ p.op \in WideOp /\ 0 .. 5 \subseteq VRegs
        /\ \A k \in {1, 2} : /\ p.code[k].fmt = "VOP2"
                             /\ p.code[k].src0 = VReg(k - 1, 1) /\ p.code[k].src1 = VReg(k + 1, 1)
                             /\ p.code[k].dst = VReg(k + 3, 1)
        /\ p.code[1].op = ShortLow(p.op) /\ p.code[2].op = ShortHigh(p.op)
        /\ ~ p.code[1].sdwa /\ ~ p.code[2].sdwa
        BY VectorCode
  <1>2. PICK op, a, b : op \in WideOp /\ op = p.op /\ a = p.code[1] /\ b = p.code[2]  BY <1>1
  <1>. op \in WideOp  BY <1>2
  <1>3. PICK f : f = After(e, a)  OBVIOUS
  <1>4. PICK g : g = After(f, b)  OBVIOUS
  <1>5. PICK c0 : c0 = [i \in Lanes |-> 0]  OBVIOUS
  <1>6. CarryIn(c0) /\ \A i \in Lanes : c0[i] = 0  BY <1>5 DEF CarryIn
  <1>7. /\ 0 \in VRegs /\ 1 \in VRegs /\ 2 \in VRegs /\ 3 \in VRegs /\ 4 \in VRegs /\ 5 \in VRegs
        BY <1>1
  <1>8. Operands(e, a, 0, 2, 4)
        <2>1. 1 - 1 = 0 /\ 1 + 1 = 2 /\ 1 + 3 = 4 /\ 1 \in {1, 2}  OBVIOUS
        <2>2. HasWords(e, 0) /\ HasWords(e, 2)  BY <1>7 DEF HasWords
        <2>3. a.src0 = VReg(1 - 1, 1) /\ a.src1 = VReg(1 + 1, 1) /\ a.dst = VReg(1 + 3, 1)
              BY <1>1, <1>2, <2>1
        <2>. QED BY <1>7, <2>1, <2>2, <2>3 DEF Operands
  <1>9. Summed(e, f, op, 0, 2, 4, c0) /\ ShortCarried(e, f, op, 0, 2, c0)
        <2>1. ShortTakes(e, a, op, c0)
              <3>1. a.fmt = "VOP2" /\ ~ a.sdwa /\ a.op = ShortLow(op)  BY <1>1, <1>2
              <3>. QED BY <1>6, <3>1 DEF ShortTakes
        <2>. QED BY <1>3, <1>6, <1>8, <2>1, ShortRun
  <1>10. /\ EmuShape(f) /\ f.exec = e.exec
         /\ \A i \in Lanes, n \in 0 .. 3 : f.vreg[i][n] = e.vreg[i][n]
         /\ HasWords(f, 1) /\ HasWords(f, 3)
         <2>1. EmuShape(f) /\ f.exec = e.exec  BY <1>9 DEF Summed
         <2>2. Summed(e, f, op, 0, 2, 4, c0) /\ 0 .. 5 \subseteq VRegs  BY <1>1, <1>9
         <2>. QED BY <2>1, <2>2, StillWords
  <1>11. PICK c1 : c1 = [i \in Lanes |-> Bit(f.vcc, i)]  OBVIOUS
  <1>12. CarryIn(c1) /\ \A i \in Lanes : c1[i] = Bit(f.vcc, i)
         BY <1>9, <1>11 DEF CarryIn, ShortCarried, Truth
  <1>13. Operands(f, b, 1, 3, 5)
        <2>1. 2 - 1 = 1 /\ 2 + 1 = 3 /\ 2 + 3 = 5 /\ 2 \in {1, 2}  OBVIOUS
        <2>2. b.src0 = VReg(2 - 1, 1) /\ b.src1 = VReg(2 + 1, 1) /\ b.dst = VReg(2 + 3, 1)
              BY <1>1, <1>2, <2>1
        <2>. QED BY <1>7, <1>10, <2>1, <2>2 DEF Operands
  <1>14. Summed(f, g, op, 1, 3, 5, c1) /\ ShortCarried(f, g, op, 1, 3, c1)
         <2>1. ShortTakes(f, b, op, c1)
               <3>1. b.fmt = "VOP2" /\ ~ b.sdwa /\ b.op = ShortHigh(op)  BY <1>1, <1>2
               <3>. QED BY <1>12, <3>1 DEF ShortTakes
         <2>. QED BY <1>4, <1>10, <1>12, <1>13, <2>1, ShortRun
  <1>15. ASSUME NEW i \in Lanes, Masked(e.exec, i)
         PROVE  /\ VectorWide(g, i, 4) = WideResult(op, VectorWide(e, i, 0), VectorWide(e, i, 2))
                /\ \/ op = "add" /\ e.vreg[i][0] + e.vreg[i][2] > Max32 /\ e.vreg[i][3] = Max32
                   \/ Masked(g.vcc, i) <=> Overflows(op, VectorWide(e, i, 0), VectorWide(e, i, 2))
        <2>1. c0[i] = 0  BY <1>6
        <2>2. ~ Lost(op, e.vreg[i][2], c0[i])  BY <2>1 DEF Lost
        <2>3. c1[i] = Truth(Leaves(op, RegSum(e, op, 0, 2, c0, i)))
              BY <1>9, <1>12, <1>15, <2>2 DEF ShortCarried, Truth
        <2>4. /\ VectorWide(g, i, 4) = WideResult(op, VectorWide(e, i, 0), VectorWide(e, i, 2))
              /\ Leaves(op, RegSum(f, op, 1, 3, c1, i))
                    <=> Overflows(op, VectorWide(e, i, 0), VectorWide(e, i, 2))
              BY <1>1, <1>9, <1>14, <1>15, <2>1, <2>3, VectorChain
        <2>5. Masked(g.vcc, i) <=> /\ Leaves(op, RegSum(f, op, 1, 3, c1, i))
                                   /\ ~ Lost(op, e.vreg[i][3], c1[i])
              <3>1. f.vreg[i][3] = e.vreg[i][3] /\ Masked(f.exec, i)  BY <1>10, <1>15
              <3>. QED BY <1>14, <3>1 DEF ShortCarried, Masked, Truth
        <2>6. CASE Lost(op, e.vreg[i][3], c1[i])
              <3>1. op = "add" /\ c1[i] = 1 /\ e.vreg[i][3] = Max32  BY <2>6 DEF Lost
              <3>2. Leaves("add", RegSum(e, op, 0, 2, c0, i))  BY <2>3, <3>1 DEF Truth
              <3>3. RegSum(e, op, 0, 2, c0, i) > Max32  BY <3>2 DEF Leaves
              <3>4. RegSum(e, op, 0, 2, c0, i) = e.vreg[i][0] + e.vreg[i][2] + 0
                    BY <2>1, <3>1 DEF RegSum, Total, Carried
              <3>5. e.vreg[i][0] \in Int /\ e.vreg[i][2] \in Int  BY BaseIs DEF Words32
              <3>. QED BY <2>4, <3>1, <3>3, <3>4, <3>5
        <2>7. CASE ~ Lost(op, e.vreg[i][3], c1[i])  BY <2>4, <2>5, <2>7
        <2>. QED BY <2>6, <2>7
  <1>. QED BY <1>2, <1>3, <1>4, <1>15

LEMMA WideLong ==
  ASSUME NEW p \in Programs, p.goal = "wide", p.form = "VOP3b", NEW e, EmuShape(e),
         \A i \in Lanes, n \in 0 .. 3 : e.vreg[i][n] \in Words32
  PROVE  LET g == After(After(e, p.code[1]), p.code[2])
         IN  \A i \in Lanes : Masked(e.exec, i) =>
                /\ VectorWide(g, i, 4) = WideResult(p.op, VectorWide(e, i, 0), VectorWide(e, i, 2))
                /\ Masked(PairOf(<<g.sreg[6], g.sreg[7]>>), i)
                        <=> Overflows(p.op, VectorWide(e, i, 0), VectorWide(e, i, 2))
  <1>1. /\ p.op \in WideOp /\ 0 .. 5 \subseteq VRegs
        /\ \A k \in {1, 2} : /\ p.code[k].fmt = "VOP3b"
                             /\ p.code[k].src0 = VReg(k - 1, 1) /\ p.code[k].src1 = VReg(k + 1, 1)
                             /\ p.code[k].dst = VReg(k + 3, 1)
        /\ p.code[1].op = LongLow(p.op) /\ p.code[2].op = LongHigh(p.op)
        /\ \A k \in {1, 2} : /\ p.code[k].abs = {} /\ p.code[k].neg = {}
                             /\ p.code[k].sdst = SReg(6, 2)
        /\ p.code[2].src2 = SReg(6, 2) /\ 6 \in SRegs /\ 7 \in SRegs
        BY VectorCode
  <1>2. PICK op, a, b : op \in WideOp /\ op = p.op /\ a = p.code[1] /\ b = p.code[2]  BY <1>1
  <1>. op \in WideOp  BY <1>2
  <1>3. PICK f : f = After(e, a)  OBVIOUS
  <1>4. PICK g : g = After(f, b)  OBVIOUS
  <1>5. PICK c0 : c0 = [i \in Lanes |-> 0]  OBVIOUS
  <1>6. CarryIn(c0) /\ \A i \in Lanes : c0[i] = 0  BY <1>5 DEF CarryIn
  <1>7. /\ 0 \in VRegs /\ 1 \in VRegs /\ 2 \in VRegs /\ 3 \in VRegs /\ 4 \in VRegs /\ 5 \in VRegs
        BY <1>1
  <1>8. Operands(e, a, 0, 2, 4)
        <2>1. 1 - 1 = 0 /\ 1 + 1 = 2 /\ 1 + 3 = 4 /\ 1 \in {1, 2}  OBVIOUS
        <2>2. HasWords(e, 0) /\ HasWords(e, 2)  BY <1>7 DEF HasWords
        <2>3. a.src0 = VReg(1 - 1, 1) /\ a.src1 = VReg(1 + 1, 1) /\ a.dst = VReg(1 + 3, 1)
              BY <1>1, <1>2, <2>1
        <2>. QED BY <1>7, <2>1, <2>2, <2>3 DEF Operands
  <1>9. Summed(e, f, op, 0, 2, 4, c0) /\ LongCarried(e, f, op, 0, 2, c0, 6)
        <2>1. 1 \in {1, 2} /\ 2 \in {1, 2} /\ 6 + 1 = 7 /\ 6 \in Nat  OBVIOUS
        <2>2. LongTakes(e, a, op, c0, 6)
              BY <1>1, <1>2, <1>6, <2>1 DEF LongTakes
        <2>. QED BY <1>3, <1>8, <1>6, <2>2, LongRun
  <1>10. /\ EmuShape(f) /\ f.exec = e.exec
         /\ \A i \in Lanes, n \in 0 .. 3 : f.vreg[i][n] = e.vreg[i][n]
         /\ HasWords(f, 1) /\ HasWords(f, 3)
         <2>1. EmuShape(f) /\ f.exec = e.exec  BY <1>9 DEF Summed
         <2>2. Summed(e, f, op, 0, 2, 4, c0) /\ 0 .. 5 \subseteq VRegs  BY <1>1, <1>9
         <2>. QED BY <2>1, <2>2, StillWords
  <1>11. PICK c1 : c1 = [i \in Lanes |-> Bit(MaskOf(f, 6), i)]  OBVIOUS
  <1>12. CarryIn(c1) /\ \A i \in Lanes : c1[i] = Bit(MaskOf(f, 6), i)
         BY <1>9, <1>11 DEF CarryIn, LongCarried, Truth
  <1>13. Operands(f, b, 1, 3, 5)
        <2>1. 2 - 1 = 1 /\ 2 + 1 = 3 /\ 2 + 3 = 5 /\ 2 \in {1, 2}  OBVIOUS
        <2>2. b.src0 = VReg(2 - 1, 1) /\ b.src1 = VReg(2 + 1, 1) /\ b.dst = VReg(2 + 3, 1)
              BY <1>1, <1>2, <2>1
        <2>. QED BY <1>7, <1>10, <2>1, <2>2 DEF Operands
  <1>14. Summed(f, g, op, 1, 3, 5, c1) /\ LongCarried(f, g, op, 1, 3, c1, 6)
         <2>1. 1 \in {1, 2} /\ 2 \in {1, 2} /\ 6 + 1 = 7 /\ 6 \in Nat  OBVIOUS
         <2>2. LongTakes(f, b, op, c1, 6)
               BY <1>1, <1>2, <1>12, <2>1 DEF LongTakes
         <2>. QED BY <1>4, <1>10, <1>12, <1>13, <2>2, LongRun
  <1>15. PairOf(<<g.sreg[6], g.sreg[7]>>) = MaskOf(g, 6)
        <2>1. 6 + 1 = 7  OBVIOUS
        <2>. QED BY <2>1 DEF PairOf, MaskOf
  <1>16. ASSUME NEW i \in Lanes, Masked(e.exec, i)
         PROVE  /\ VectorWide(g, i, 4) = WideResult(op, VectorWide(e, i, 0), VectorWide(e, i, 2))
                /\ Masked(PairOf(<<g.sreg[6], g.sreg[7]>>), i)
                        <=> Overflows(op, VectorWide(e, i, 0), VectorWide(e, i, 2))
        <2>1. c0[i] = 0  BY <1>6
        <2>2. c1[i] = Truth(Leaves(op, RegSum(e, op, 0, 2, c0, i)))
              BY <1>9, <1>12, <1>16 DEF LongCarried, Truth
        <2>3. /\ VectorWide(g, i, 4) = WideResult(op, VectorWide(e, i, 0), VectorWide(e, i, 2))
              /\ Leaves(op, RegSum(f, op, 1, 3, c1, i))
                    <=> Overflows(op, VectorWide(e, i, 0), VectorWide(e, i, 2))
              BY <1>1, <1>9, <1>14, <1>16, <2>1, <2>2, VectorChain
        <2>4. Masked(MaskOf(g, 6), i) <=> Leaves(op, RegSum(f, op, 1, 3, c1, i))
              <3>1. Masked(f.exec, i)  BY <1>10, <1>16
              <3>. QED BY <1>14, <3>1 DEF LongCarried, Masked, Truth
        <2>. QED BY <1>15, <2>3, <2>4
  <1>. QED BY <1>2, <1>3, <1>4, <1>16

LEMMA WideScalar ==
  ASSUME NEW p \in Programs, p.goal = "wide", p.form = "SOP2", NEW e, EmuShape(e),
         \A n \in 0 .. 3 : e.sreg[n] \in Words32, p.op = "add" \/ e.scc = 0
  PROVE  LET g == After(After(e, p.code[1]), p.code[2])
         IN  ScalarWide(g, 4) = WideResult(p.op, ScalarWide(e, 0), ScalarWide(e, 2))
  <1>1. /\ p.op \in {"add", "sub"} /\ 0 .. 5 \subseteq SRegs
        /\ \A k \in {1, 2} : /\ p.code[k].fmt = "SOP2"
                             /\ p.code[k].src0 = SReg(k - 1, 1) /\ p.code[k].src1 = SReg(k + 1, 1)
                             /\ p.code[k].dst = SReg(k + 3, 1)
        /\ p.code[1].op = IF p.op = "add" THEN "S_ADD_U32" ELSE "S_SUB_U32"
        /\ p.code[2].op = IF p.op = "add" THEN "S_ADDC_U32" ELSE "S_SUBB_U32"
        BY ScalarCode
  <1>2. PICK op, a, b : op \in {"add", "sub"} /\ op = p.op /\ a = p.code[1] /\ b = p.code[2]  BY <1>1
  <1>. op \in {"add", "sub"}  BY <1>2
  <1>3. PICK f : f = After(e, a)  OBVIOUS
  <1>4. PICK g : g = After(f, b)  OBVIOUS
  <1>5. /\ 0 \in SRegs /\ 1 \in SRegs /\ 2 \in SRegs /\ 3 \in SRegs /\ 4 \in SRegs /\ 5 \in SRegs
        BY <1>1
  <1>6. ScalarOperands(e, a, 0, 2, 4)
        <2>1. 1 - 1 = 0 /\ 1 + 1 = 2 /\ 1 + 3 = 4 /\ 1 \in {1, 2} /\ 0 \in 0 .. 3 /\ 2 \in 0 .. 3
              OBVIOUS
        <2>2. a.src0 = SReg(1 - 1, 1) /\ a.src1 = SReg(1 + 1, 1) /\ a.dst = SReg(1 + 3, 1)
              BY <1>1, <1>2, <2>1
        <2>. QED BY <1>5, <2>1, <2>2 DEF ScalarOperands
  <1>7. /\ ScalarSummed(e, f, op, 0, 2, 4, 0)
        /\ f.scc = Truth(Leaves(op, ScalarSum(e, op, 0, 2, 0)))
        <2>1. /\ a.fmt = "SOP2" /\ (op = "add" \/ e.scc = 0)
              /\ a.op = IF op = "add" THEN "S_ADD_U32" ELSE "S_SUB_U32"
              BY <1>1, <1>2
        <2>. QED BY <1>3, <1>6, <2>1, ScalarLowEffect
  <1>8. /\ EmuShape(f) /\ f.exec = e.exec /\ f.scc \in {0, 1}
        /\ f.sreg[1] \in Words32 /\ f.sreg[3] \in Words32
        <2>1. 1 \in 0 .. 3 /\ 3 \in 0 .. 3 /\ 1 # 4 /\ 3 # 4  OBVIOUS
        <2>. QED BY <1>5, <1>7, <2>1 DEF ScalarSummed, Truth
  <1>9. ScalarOperands(f, b, 1, 3, 5)
        <2>1. 2 - 1 = 1 /\ 2 + 1 = 3 /\ 2 + 3 = 5 /\ 2 \in {1, 2}  OBVIOUS
        <2>2. b.src0 = SReg(2 - 1, 1) /\ b.src1 = SReg(2 + 1, 1) /\ b.dst = SReg(2 + 3, 1)
              BY <1>1, <1>2, <2>1
        <2>. QED BY <1>5, <1>8, <2>1, <2>2 DEF ScalarOperands
  <1>10. ScalarSummed(f, g, op, 1, 3, 5, f.scc)
        <2>1. /\ b.fmt = "SOP2"
              /\ b.op = IF op = "add" THEN "S_ADDC_U32" ELSE "S_SUBB_U32"
              BY <1>1, <1>2
        <2>. QED BY <1>4, <1>8, <1>9, <2>1, ScalarHighEffect
  <1>11. ScalarWide(g, 4) = WideResult(op, ScalarWide(e, 0), ScalarWide(e, 2))
        BY <1>1, <1>7, <1>10, ScalarChain
  <1>. QED BY <1>2, <1>3, <1>4, <1>11

-----------------------------------------------------------------------------
\* the property

LEMMA WideHere ==
  ASSUME input \in Inputs, 0 .. 5 \subseteq VRegs, NEW i \in Lanes
  PROVE  Wide(i, 0) = VectorWide(Start, i, 0) /\ Wide(i, 2) = VectorWide(Start, i, 2)
  <1>1. /\ 0 \in VRegs /\ 1 \in VRegs /\ 2 \in VRegs /\ 3 \in VRegs /\ 0 + 1 = 1 /\ 2 + 1 = 3
        OBVIOUS
  <1>2. /\ Start.vreg[i][0] = VectorInput(i, 0) /\ Start.vreg[i][1] = VectorInput(i, 1)
        /\ Start.vreg[i][2] = VectorInput(i, 2) /\ Start.vreg[i][3] = VectorInput(i, 3)
        BY <1>1, StartIs
  <1>. QED BY <1>1, <1>2 DEF Wide, VectorWide

LEMMA WideEnd == WInv => WideArithmetic
  <1>. SUFFICES ASSUME WInv, Ended, program.goal = "wide"
                PROVE  WideArithmetic
       BY DEF WideArithmetic
  <1>1. /\ program \in Programs /\ input \in Inputs /\ done \in Nat
        /\ Stage(emu, program, done, Start)
        BY DEF WInv
  <1>2. PICK p \in Programs : p = program  BY <1>1
  <1>3. p.form \in {"VOP2", "VOP3b", "SOP2"} /\ Len(p.code) = 2
        <2>1. IsChain(p)  BY <1>2, ChainsAssumption
        <2>. QED BY <2>1 DEF IsChain, WideOps
  <1>4. emu = After(After(Start, p.code[1]), p.code[2])
        BY <1>1, <1>2, <1>3 DEF Ended, Stage
  <1>5. PICK s : s = Start  OBVIOUS
  <1>6. /\ EmuShape(s) /\ s.exec = Special.exec
        /\ s.scc = Special.scc /\ \A n \in SRegs : s.sreg[n] = ScalarInput(n)
        /\ \A i \in Lanes, n \in VRegs : s.vreg[i][n] = VectorInput(i, n)
        /\ \A i \in Lanes, n \in 0 .. 3 : VectorInput(i, n) \in Words32
        /\ \A n \in 0 .. 3 : ScalarInput(n) = VectorInput(0, n)
        BY <1>1, <1>5, StartIs
  <1>7. CASE p.form = "SOP2"
        <2>. SUFFICES ASSUME p.op = "add" \/ Special.scc = 0
                      PROVE  PairOf(<<emu.sreg[4], emu.sreg[5]>>)
                                = WideResult(p.op, Wide(0, 0), Wide(0, 2))
             BY <1>2, <1>7 DEF WideArithmetic
        <2>1. 0 .. 5 \subseteq SRegs /\ 0 \in Lanes  BY <1>2, <1>7, ScalarCode, LanesAssumption
        <2>2. /\ 0 \in SRegs /\ 1 \in SRegs /\ 2 \in SRegs /\ 3 \in SRegs
              /\ 0 + 1 = 1 /\ 2 + 1 = 3 /\ 4 + 1 = 5
              /\ 0 \in 0 .. 3 /\ 1 \in 0 .. 3 /\ 2 \in 0 .. 3 /\ 3 \in 0 .. 3
              BY <2>1
        <2>3. \A n \in 0 .. 3 : s.sreg[n] = VectorInput(0, n) /\ s.sreg[n] \in Words32
              <3>. SUFFICES ASSUME NEW n \in 0 .. 3
                            PROVE  s.sreg[n] = VectorInput(0, n) /\ s.sreg[n] \in Words32
                   OBVIOUS
              <3>1. n \in SRegs  BY <2>1
              <3>. QED BY <1>6, <2>1, <3>1
        <2>4. ScalarWide(emu, 4) = WideResult(p.op, ScalarWide(s, 0), ScalarWide(s, 2))
              BY <1>2, <1>4, <1>5, <1>6, <1>7, <2>3, WideScalar
        <2>5. ScalarWide(s, 0) = Wide(0, 0) /\ ScalarWide(s, 2) = Wide(0, 2)
              BY <2>2, <2>3 DEF ScalarWide, Wide
        <2>. QED BY <2>2, <2>4, <2>5 DEF ScalarWide
  <1>8. CASE p.form = "VOP2" \/ p.form = "VOP3b"
        <2>1. 0 .. 5 \subseteq VRegs  BY <1>2, <1>8, VectorCode
        <2>2. \A i \in Lanes, n \in 0 .. 3 : s.vreg[i][n] = VectorInput(i, n) /\ s.vreg[i][n] \in Words32
              <3>. SUFFICES ASSUME NEW i \in Lanes, NEW n \in 0 .. 3
                            PROVE  s.vreg[i][n] = VectorInput(i, n) /\ s.vreg[i][n] \in Words32
                   OBVIOUS
              <3>1. n \in VRegs  BY <2>1
              <3>. QED BY <1>6, <3>1
        <2>3. ASSUME NEW i \in Active0
              PROVE  /\ i \in Lanes /\ Masked(s.exec, i)
                     /\ VectorWide(s, i, 0) = Wide(i, 0) /\ VectorWide(s, i, 2) = Wide(i, 2)
                     /\ VectorInput(i, 0) = s.vreg[i][0] /\ VectorInput(i, 2) = s.vreg[i][2]
                     /\ VectorInput(i, 3) = s.vreg[i][3]
              <3>1. i \in Lanes /\ Masked(s.exec, i)  BY <1>6, <2>3 DEF Active0, Active
              <3>2. 0 \in 0 .. 3 /\ 2 \in 0 .. 3 /\ 3 \in 0 .. 3  OBVIOUS
              <3>. QED BY <1>1, <1>5, <2>1, <2>2, <3>1, <3>2, WideHere
        <2>4. \A x : VectorWide(emu, x, 4) = PairOf(<<emu.vreg[x][4], emu.vreg[x][5]>>)
              <3>1. 4 + 1 = 5  OBVIOUS
              <3>. QED BY <3>1 DEF VectorWide
        <2>5. CASE p.form = "VOP2"
              <3>1. \A i \in Lanes : Masked(s.exec, i) =>
                        /\ VectorWide(emu, i, 4) = WideResult(p.op, VectorWide(s, i, 0), VectorWide(s, i, 2))
                        /\ \/ p.op = "add" /\ s.vreg[i][0] + s.vreg[i][2] > Max32 /\ s.vreg[i][3] = Max32
                           \/ Masked(emu.vcc, i)
                                <=> Overflows(p.op, VectorWide(s, i, 0), VectorWide(s, i, 2))
                    BY <1>2, <1>4, <1>5, <1>6, <2>2, <2>5, WideShort
              <3>2. ASSUME NEW i \in Active0
                    PROVE  /\ PairOf(<<emu.vreg[i][4], emu.vreg[i][5]>>)
                                = WideResult(p.op, Wide(i, 0), Wide(i, 2))
                           /\ \/ CarryKnownWrong(i)
                              \/ Masked(emu.vcc, i) = Overflows(p.op, Wide(i, 0), Wide(i, 2))
                    <4>1. /\ VectorWide(emu, i, 4) = WideResult(p.op, Wide(i, 0), Wide(i, 2))
                          /\ \/ /\ p.op = "add" /\ VectorInput(i, 0) + VectorInput(i, 2) > Max32
                                /\ VectorInput(i, 3) = Max32
                             \/ Masked(emu.vcc, i) <=> Overflows(p.op, Wide(i, 0), Wide(i, 2))
                          BY <2>3, <3>1, <3>2
                    <4>2. CASE /\ p.op = "add" /\ VectorInput(i, 0) + VectorInput(i, 2) > Max32
                               /\ VectorInput(i, 3) = Max32
                          <5>1. CarryKnownWrong(i)  BY <1>2, <2>5, <4>2 DEF CarryKnownWrong
                          <5>. QED BY <2>4, <4>1, <5>1
                    <4>3. CASE Masked(emu.vcc, i) <=> Overflows(p.op, Wide(i, 0), Wide(i, 2))
                          <5>1. Masked(emu.vcc, i) = Overflows(p.op, Wide(i, 0), Wide(i, 2))
                                BY <4>3 DEF Masked, Overflows
                          <5>. QED BY <2>4, <4>1, <5>1
                    <4>. QED BY <4>1, <4>2, <4>3
              <3>. QED BY <1>2, <2>5, <3>2 DEF WideArithmetic
        <2>6. CASE p.form = "VOP3b"
              <3>1. \A i \in Lanes : Masked(s.exec, i) =>
                        /\ VectorWide(emu, i, 4) = WideResult(p.op, VectorWide(s, i, 0), VectorWide(s, i, 2))
                        /\ Masked(PairOf(<<emu.sreg[6], emu.sreg[7]>>), i)
                                <=> Overflows(p.op, VectorWide(s, i, 0), VectorWide(s, i, 2))
                    BY <1>2, <1>4, <1>5, <1>6, <2>2, <2>6, WideLong
              <3>2. ASSUME NEW i \in Active0
                    PROVE  /\ PairOf(<<emu.vreg[i][4], emu.vreg[i][5]>>)
                                = WideResult(p.op, Wide(i, 0), Wide(i, 2))
                           /\ Masked(PairOf(<<emu.sreg[6], emu.sreg[7]>>), i)
                                = Overflows(p.op, Wide(i, 0), Wide(i, 2))
                    <4>1. /\ VectorWide(emu, i, 4) = WideResult(p.op, Wide(i, 0), Wide(i, 2))
                          /\ Masked(PairOf(<<emu.sreg[6], emu.sreg[7]>>), i)
                                <=> Overflows(p.op, Wide(i, 0), Wide(i, 2))
                          BY <2>3, <3>1, <3>2
                    <4>2. Masked(PairOf(<<emu.sreg[6], emu.sreg[7]>>), i)
                                = Overflows(p.op, Wide(i, 0), Wide(i, 2))
                          BY <4>1 DEF Masked, Overflows
                    <4>. QED BY <2>4, <4>1, <4>2
              <3>. QED BY <1>2, <2>6, <3>2 DEF WideArithmetic
        <2>. QED BY <1>8, <2>5, <2>6
  <1>. QED BY <1>3, <1>7, <1>8

\* Numbers of two words that a pair of instructions adds or subtracts come out as
\* the wide operation, and its overflow as the carry of the vector instructions
\* (src/emu/aluvop2.go, src/emu/aluvop3b.go, src/emu/alusop2.go), whatever the words,
\* the lanes and the width of a byte.  The property names the cases known to be
\* wrong: an S_SUB that finds SCC set, and the carries of CarryKnownWrong.
THEOREM WideIsRight == Spec => []WideArithmetic
  <1>1. Init => WInv  BY InitStage
  <1>2. WInv /\ [Next]_vars => WInv'  BY StepStage
  <1>3. WInv => WideArithmetic  BY WideEnd
  <1>. QED BY <1>1, <1>2, <1>3, PTL DEF Spec
=============================================================================
