------------------------------ MODULE MemoryALU ------------------------------
(***************************************************************************)
(* The instructions of the emulator that use memory: the local data share  *)
(* (src/emu/aluds.go), flat accesses (src/emu/alu_flat.go) and the scalar  *)
(* loads of src/emu/alu.go, over the storage accessor                      *)
(* (src/emu/storageaccessor.go).                                           *)
(*                                                                         *)
(* Memory and the LDS are functions from an address to a byte.  A state    *)
(* here is [s |-> scratchpad, mem |-> memory, lds |-> LDS].                *)
(***************************************************************************)
EXTENDS Words, SequencesExt

CONSTANTS PageSize,      \* bytes of a page
          PageTable      \* the physical page of every mapped virtual page

ASSUME PageAssumption == PageSize \in Nat \ {0}

ByteOf(word, k) == (word \div 2^(k * ByteBits)) % 2^ByteBits

\* the bytes of a sequence of words, and back
BytesOf(words) == [k \in 1 .. 4 * Len(words) |-> ByteOf(words[(k + 3) \div 4], (k - 1) % 4)]
WordAt(bytes, k) == bytes[4 * k - 3] + 2^ByteBits * bytes[4 * k - 2]
                    + 2^Half * bytes[4 * k - 1] + 2^(3 * ByteBits) * bytes[4 * k]
ToWords(bytes) == [k \in 1 .. Len(bytes) \div 4 |-> WordAt(bytes, k)]

-----------------------------------------------------------------------------
\* the storage accessor: a read translates every page it reaches, a write uses
\* the page of its first byte for all of them

Physical(page, vAddr) == PageTable[page] * PageSize + (vAddr - page * PageSize)

StorageRead(mem, vAddr, size) ==
    [k \in 1 .. size |-> LET a == vAddr + k - 1 IN mem[Physical(a \div PageSize, a)]]

StorageWrite(mem, vAddr, bytes) ==
    LET first == vAddr \div PageSize
    IN  [a \in DOMAIN mem |->
            LET k == a - Physical(first, vAddr) + 1
            IN  IF k \in 1 .. Len(bytes) THEN bytes[k] ELSE mem[a]]

-----------------------------------------------------------------------------
\* DS

\* bytes of the LDS from an address on, and with other bytes there
LdsRead(lds, addr, size) == [k \in 1 .. size |-> lds[addr + k - 1]]
LdsWrite(lds, addr, bytes) ==
    [a \in DOMAIN lds |-> IF a \in addr .. addr + Len(bytes) - 1 THEN bytes[a - addr + 1]
                          ELSE lds[a]]

ActiveInOrder(s) == SetToSortSeq(Active(s.exec), LAMBDA a, b : a < b)

\* the active lanes store one after the other
StoreLanes(m, store(_, _)) ==
    [m EXCEPT !.lds = FoldLeft(LAMBDA lds, i : store(lds, i), @, ActiveInOrder(m.s))]

\* a lane's result: the words of the bytes it loads, above them what was there
LoadLanes(m, bytes(_)) ==
    [m EXCEPT !.s.out = [i \in Lanes |->
        IF Masked(m.s.exec, i)
        THEN LET loaded == ToWords(bytes(i))
             IN  [k \in 1 .. 4 |-> IF k <= Len(loaded) THEN loaded[k] ELSE @[i][k]]
        ELSE @[i]]]

\* the first words of a lane's data as bytes
Data(data, i, words) == BytesOf(SubSeq(data[i], 1, words))

DsWrite(m, inst) ==
    StoreLanes(m, LAMBDA lds, i : LdsWrite(lds, m.s.addr[i] + inst.off0, Data(m.s.data, i, 1)))

DsWrite2(m, inst) ==
    StoreLanes(m, LAMBDA lds, i :
        LdsWrite(LdsWrite(lds, m.s.addr[i] + 4 * inst.off0, Data(m.s.data, i, 1)),
                 m.s.addr[i] + 4 * inst.off1, Data(m.s.data1, i, 1)))

DsRead(m, inst) == LoadLanes(m, LAMBDA i : LdsRead(m.lds, m.s.addr[i] + inst.off0, 4))

DsRead2(m, inst) ==
    LoadLanes(m, LAMBDA i : LdsRead(m.lds, m.s.addr[i] + 4 * inst.off0, 4)
                            \o LdsRead(m.lds, m.s.addr[i] + 4 * inst.off1, 4))

DsWrite2B64(m, inst) ==
    StoreLanes(m, LAMBDA lds, i :
        LdsWrite(LdsWrite(lds, m.s.addr[i] + 8 * inst.off0, Data(m.s.data, i, 2)),
                 m.s.addr[i] + 8 * inst.off1, Data(m.s.data1, i, 2)))

\* without the offset of the instruction
DsReadB64(m) == LoadLanes(m, LAMBDA i : LdsRead(m.lds, m.s.addr[i], 8))

DsRead2B64(m, inst) ==
    LoadLanes(m, LAMBDA i : LdsRead(m.lds, m.s.addr[i] + 8 * inst.off0, 8)
                            \o LdsRead(m.lds, m.s.addr[i] + 8 * inst.off1, 8))

RunDS(m, inst) ==
    CASE inst.op = "DS_WRITE_B32"  -> DsWrite(m, inst)
      [] inst.op = "DS_WRITE2_B32" -> DsWrite2(m, inst)
      [] inst.op = "DS_READ_B32"   -> DsRead(m, inst)
      [] inst.op = "DS_READ2_B32"  -> DsRead2(m, inst)
      [] inst.op = "DS_WRITE2_B64" -> DsWrite2B64(m, inst)
      [] inst.op = "DS_READ_B64"   -> DsReadB64(m)
      [] inst.op = "DS_READ2_B64"  -> DsRead2B64(m, inst)

-----------------------------------------------------------------------------
\* FLAT

FlatLoadWords(op) ==
    CASE op \in {"FLAT_LOAD_UBYTE", "FLAT_LOAD_USHORT", "FLAT_LOAD_DWORD"} -> 1
      [] op = "FLAT_LOAD_DWORDX2" -> 2
      [] op = "FLAT_LOAD_DWORDX4" -> 4

\* the narrow loads read a whole word and clear the bytes above
Narrowed(op, bytes) ==
    CASE op = "FLAT_LOAD_UBYTE"  -> <<bytes[1], 0, 0, 0>>
      [] op = "FLAT_LOAD_USHORT" -> <<bytes[1], bytes[2], 0, 0>>
      [] OTHER -> bytes

FlatLoad(m, inst) ==
    LoadLanes(m, LAMBDA i :
        Narrowed(inst.op, StorageRead(m.mem, m.s.addr[i], 4 * FlatLoadWords(inst.op))))

FlatStoreWords(op) ==
    CASE op = "FLAT_STORE_DWORD"   -> 1
      [] op = "FLAT_STORE_DWORDX2" -> 2
      [] op = "FLAT_STORE_DWORDX3" -> 3
      [] op = "FLAT_STORE_DWORDX4" -> 4

FlatStore(m, inst) ==
    [m EXCEPT !.mem = FoldLeft(
        LAMBDA mem, i : StorageWrite(mem, m.s.addr[i],
                                     Data(m.s.data, i, FlatStoreWords(inst.op))),
        @, ActiveInOrder(m.s))]

FlatStores == {"FLAT_STORE_DWORD", "FLAT_STORE_DWORDX2", "FLAT_STORE_DWORDX3",
               "FLAT_STORE_DWORDX4"}

RunFlat(m, inst) == IF inst.op \in FlatStores THEN FlatStore(m, inst) ELSE FlatLoad(m, inst)

-----------------------------------------------------------------------------
\* SMEM

SmemWords(op) == CASE op = "S_LOAD_DWORD"   -> 1
                   [] op = "S_LOAD_DWORDX2" -> 2
                   [] op = "S_LOAD_DWORDX4" -> 4
                   [] op = "S_LOAD_DWORDX8" -> 8

RunSMEM(m, inst) ==
    LET loaded == ToWords(StorageRead(m.mem, m.s.base + m.s.offset, 4 * SmemWords(inst.op)))
    IN  [m EXCEPT !.s.words = [k \in DOMAIN @ |-> IF k <= Len(loaded) THEN loaded[k] ELSE @[k]]]
=============================================================================
