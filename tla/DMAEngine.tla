----------------------------- MODULE DMAEngine -----------------------------
(***************************************************************************)
(* The DMA engine of a GPU (timing/cp/dma.go): it cuts a copy between the  *)
(* host and the memory of the GPU into accesses that stay in a line, sends *)
(* them one after another, and answers the copy when the memory, which     *)
(* replies in any order, has answered all of them.  One copy at a time.    *)
(*                                                                         *)
(* A copy is [queue, dir, addr, len]: the command queue it is for, "H2D"   *)
(* or "D2H", where it starts in the memory and its length in bytes.  The   *)
(* bytes of the host are named by their queue and position.  The memory is *)
(* external; an access to it is a piece [addr, len].                       *)
(***************************************************************************)
EXTENDS Naturals, Sequences

CONSTANTS
  Queue,
  Copies,     \* the copies that may be asked for
  LineSize,   \* bytes in a line, 1 << Log2AccessSize
  MemSize,    \* bytes of memory (a bound)
  None

ASSUME LineAssumption == LineSize \in Nat \ {0} /\ MemSize \in Nat
ASSUME CopiesAssumption ==
  Copies \subseteq [queue : Queue, dir : {"H2D", "D2H"}, addr : Nat, len : Nat]

VARIABLES
  dmaToCP,        \* copies at the port, oldest first
  processingReq, toSendToMem, pendingReqs, toSendToCP,
  memReqs,        \* pieces under way to the memory
  memRsps,        \* [piece, data] at the port that faces the memory
  memory,
  DstBuffer,      \* the host buffer of the copy of a queue
  before          \* history: the memory when the copy was taken

dmaVars == <<dmaToCP, processingReq, toSendToMem, pendingReqs, toSendToCP,
             memReqs, memRsps, memory, DstBuffer, before>>

Addr == 0 .. MemSize - 1
Byte == [queue : Queue \cup {None}, at : Nat]   \* None: there from the start
Piece == [addr : Addr, len : Nat]

DMATypeOK ==
  /\ dmaToCP \in Seq(Copies) /\ toSendToCP \in Seq(Copies)
  /\ processingReq \in Copies \cup {None}
  /\ toSendToMem \in Seq(Piece)
  /\ pendingReqs \subseteq Piece
  /\ memReqs \subseteq pendingReqs
  /\ \A r \in memRsps : r.piece \in pendingReqs
  /\ memory \in [Addr -> Byte] /\ before \in [Addr -> Byte]
  /\ DstBuffer \in [Queue -> [Addr -> Byte \cup {None}]]

DMAInit ==
  /\ dmaToCP = <<>> /\ processingReq = None /\ toSendToMem = <<>>
  /\ pendingReqs = {} /\ toSendToCP = <<>>
  /\ memReqs = {} /\ memRsps = {}
  /\ memory = [a \in Addr |-> [queue |-> None, at |-> a]]
  /\ DstBuffer = [q \in Queue |-> [a \in Addr |-> None]]
  /\ before = memory

-----------------------------------------------------------------------------
\* mutant: the first piece is as long as a line wherever it starts
PiecesOfLines(end, total) ==
  LET Cut[left \in 0 .. total] ==
        IF left = 0 THEN <<>>
        ELSE LET length == IF LineSize < left THEN LineSize ELSE left
             IN  <<[addr |-> ((end - left) \div LineSize) * LineSize, len |-> length]>>
                   \o Cut[left - length]
  IN  Cut[total]

\* The pieces of the last left bytes before end.
PiecesOf(end, total) ==
  LET Cut[left \in 0 .. total] ==
        IF left = 0 THEN <<>>
        ELSE LET addr         == end - left
                 lengthInUnit == LineSize - (addr % LineSize)
                 length       == IF lengthInUnit < left THEN lengthInUnit ELSE left
             IN  <<[addr |-> addr, len |-> length]>> \o Cut[left - length]
  IN  Cut[total]

Pieces(copy) == PiecesOf(copy.addr + copy.len, copy.len)

ParseFromCP ==
  /\ processingReq = None
  /\ dmaToCP # <<>>
  /\ LET copy == Head(dmaToCP) IN
       /\ processingReq' = copy
       /\ toSendToMem' = toSendToMem \o Pieces(copy)
       /\ pendingReqs' = {Pieces(copy)[i] : i \in DOMAIN Pieces(copy)}
  /\ dmaToCP' = Tail(dmaToCP)
  /\ before' = memory
  /\ UNCHANGED <<toSendToCP, memReqs, memRsps, memory, DstBuffer>>

SendToMem ==
  /\ toSendToMem # <<>>
  /\ memReqs' = memReqs \cup {Head(toSendToMem)}
  /\ toSendToMem' = Tail(toSendToMem)
  /\ UNCHANGED <<dmaToCP, processingReq, pendingReqs, toSendToCP, memRsps,
                 memory, DstBuffer, before>>

\* The memory serves its requests in any order.
MemoryServes(p) ==
  /\ p \in memReqs
  /\ memReqs' = memReqs \ {p}
  /\ memory' = [a \in Addr |->
       IF processingReq.dir = "H2D" /\ a \in p.addr .. p.addr + p.len - 1
         THEN [queue |-> processingReq.queue, at |-> a - processingReq.addr]
         ELSE memory[a]]
  /\ memRsps' = memRsps \cup
       {[piece |-> p,
         data |-> [i \in 0 .. p.len - 1 |-> memory[p.addr + i]]]}
  /\ UNCHANGED <<dmaToCP, processingReq, toSendToMem, pendingReqs, toSendToCP,
                 DstBuffer, before>>

\* The copy ends with the last of its pieces.
Finish ==
  IF pendingReqs' = {}
    THEN /\ processingReq' = None
         /\ toSendToCP' = Append(toSendToCP, processingReq)
    ELSE UNCHANGED <<processingReq, toSendToCP>>

ProcessDataReadyRsp(r) ==
  LET offset == r.piece.addr - processingReq.addr IN
  /\ r \in memRsps /\ processingReq.dir = "D2H"
  /\ memRsps' = memRsps \ {r}
  /\ pendingReqs' = pendingReqs \ {r.piece}
  /\ DstBuffer' = [DstBuffer EXCEPT ![processingReq.queue] =
       [a \in Addr |-> IF a \in offset .. offset + r.piece.len - 1
                         THEN r.data[a - offset] ELSE @[a]]]
  /\ Finish
  /\ UNCHANGED <<dmaToCP, toSendToMem, memReqs, memory, before>>

ProcessDoneRsp(r) ==
  /\ r \in memRsps /\ processingReq.dir = "H2D"
  /\ memRsps' = memRsps \ {r}
  /\ pendingReqs' = pendingReqs \ {r.piece}
  /\ Finish
  /\ UNCHANGED <<dmaToCP, toSendToMem, memReqs, memory, DstBuffer, before>>

DMAStep ==
  \/ ParseFromCP \/ SendToMem
  \/ \E p \in memReqs : MemoryServes(p)
  \/ \E r \in memRsps : ProcessDataReadyRsp(r) \/ ProcessDoneRsp(r)

-----------------------------------------------------------------------------
\* When a copy ends, the bytes of its range, wherever it starts and ends in a
\* line, have arrived each in its place, and no other byte of the memory or
\* of the host has changed (dma.go:96-98, 186-205).
Arrived(copy, mem, buffer) ==
  LET range == copy.addr .. copy.addr + copy.len - 1 IN
  IF copy.dir = "H2D"
    THEN mem = [a \in Addr |-> IF a \in range
                  THEN [queue |-> copy.queue, at |-> a - copy.addr] ELSE before[a]]
    ELSE /\ mem = before
         /\ \A i \in Addr : buffer[copy.queue][i] =
              IF i < copy.len THEN before[copy.addr + i] ELSE None
=============================================================================
