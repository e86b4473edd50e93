------------------------------ MODULE Coalescer ------------------------------
(***************************************************************************)
(* How the timing compute unit turns memory instructions into requests: a  *)
(* flat access becomes one request per cache line                          *)
(* (src/timing/cu/defaultcoalescer.go), a scalar load one request for each *)
(* line it touches (executeSMEMLoad of src/timing/cu/scalarunit.go).       *)
(*                                                                         *)
(* s is the scratchpad of the instruction.  A transaction is a record; the *)
(* lanes of a read say which register of which lane takes the word at an   *)
(* offset of the line.                                                     *)
(***************************************************************************)
EXTENDS MemoryALU

CONSTANT LineSize            \* bytes of a cache line

ASSUME LineAssumption == LineSize \in Nat \ {0}

RegCount(op) ==
    CASE op \in {"FLAT_LOAD_UBYTE", "FLAT_LOAD_USHORT", "FLAT_LOAD_DWORD", "FLAT_STORE_DWORD"} -> 1
      [] op \in {"FLAT_LOAD_DWORDX2", "FLAT_STORE_DWORDX2"} -> 2
      [] op \in {"FLAT_LOAD_DWORDX3", "FLAT_STORE_DWORDX3"} -> 3
      [] op \in {"FLAT_LOAD_DWORDX4", "FLAT_STORE_DWORDX4"} -> 4

LineOf(addr)       == (addr \div LineSize) * LineSize
OffsetInLine(addr) == addr % LineSize
SameLine(a, b)     == LineOf(a) = LineOf(b)

\* the accesses of an instruction in the order of the code: lane, then register
Accesses(s, op) ==
    FlattenSeq([k \in 1 .. Cardinality(Active(s.exec)) |->
        LET i == ActiveInOrder(s)[k]
        IN  [j \in 1 .. RegCount(op) |-> [lane |-> i, reg |-> j - 1,
                                          addr |-> s.addr[i] + 4 * (j - 1)]]])

\* the lines of a sequence of accesses, each once, in order of first use
LinesOf(accesses) ==
    FoldLeft(LAMBDA lines, a : IF Contains(lines, LineOf(a.addr)) THEN lines
                               ELSE Append(lines, LineOf(a.addr)),
             <<>>, accesses)

\* addLaneInfo: the words of the line, with the register that takes each
LaneInfo(s, inst, line) ==
    [k \in 1 .. Len(SelectSeq(Accesses(s, inst.op), LAMBDA a : SameLine(a.addr, line))) |->
        LET a == SelectSeq(Accesses(s, inst.op), LAMBDA x : SameLine(x.addr, line))[k]
        IN  [lane |-> a.lane, reg |-> inst.dst.n + a.reg, offset |-> OffsetInLine(a.addr)]]

ReadTransactions(s, inst) ==
    [k \in DOMAIN LinesOf(Accesses(s, inst.op)) |->
        LET line == LinesOf(Accesses(s, inst.op))[k]
        IN  [kind |-> "read", addr |-> line, lanes |-> LaneInfo(s, inst, line)]]

\* mergeDataWithReq: the bytes of the line that are written; a later lane
\* overwrites an earlier one.  A word may not stick out of its line.
MergeData(req, addr, bytes) ==
    [b \in DOMAIN req \union {OffsetInLine(addr) + k - 1 : k \in 1 .. Len(bytes)} |->
        LET k == b - OffsetInLine(addr) + 1
        IN  IF k \in 1 .. Len(bytes) THEN bytes[k] ELSE req[b]]

WriteTransactions(s, inst) ==
    [k \in DOMAIN LinesOf(Accesses(s, inst.op)) |->
        LET line == LinesOf(Accesses(s, inst.op))[k]
            here == SelectSeq(Accesses(s, inst.op), LAMBDA a : SameLine(a.addr, line))
        IN  [kind |-> "write", addr |-> line,
             data |-> FoldLeft(LAMBDA req, a :
                         MergeData(req, a.addr, BytesOf(<<s.data[a.lane][a.reg + 1]>>)),
                         [b \in {} |-> 0], here)]]

GenerateMemTransactions(s, inst) ==
    IF inst.op \in FlatStores THEN WriteTransactions(s, inst) ELSE ReadTransactions(s, inst)

-----------------------------------------------------------------------------
\* the requests of a scalar load, cut at the ends of the lines
RECURSIVE ScalarRequests(_, _, _)
ScalarRequests(curr, left, reg) ==
    IF left = 0 THEN <<>>
    ELSE LET inLine == LineSize - OffsetInLine(curr)
             size   == IF left < inLine THEN left ELSE inLine
         IN  <<[kind |-> "scalar", addr |-> curr, size |-> size, reg |-> reg]>>
             \o ScalarRequests(curr + size, left - size, reg + size \div 4)
=============================================================================
