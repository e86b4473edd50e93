--------------------------- MODULE ReorderBuffer ---------------------------
(***************************************************************************)
(* The reorder buffer between a compute unit and an address translator     *)
(* (timing/rob/rob.go), the unit above that issues requests, the memory    *)
(* below that answers them in any order, and the command processor that    *)
(* flushes and restarts it around a TLB shoot-down.                        *)
(*                                                                         *)
(* A Tick first looks at the control port and runs the three stages of the *)
(* pipeline, several times each, unless the buffer is flushing; every      *)
(* stage is an action.  Reads and writes are treated alike.                *)
(***************************************************************************)
EXTENDS Naturals, Sequences, FiniteSets

CONSTANTS
  TopReq,       \* requests of the unit above; a name is used again later
  BottomID,     \* identifiers of the duplicates sent below
  BufferSize,   \* transactions the buffer holds
  WireCap,      \* messages a connection holds at a time
  PortCap,      \* messages the top and bottom ports hold
  None          \* an empty port, a nil response

ASSUME NoneAssumption == None \notin TopReq /\ None \notin {"discard", "restart", "done"}
ASSUME SizeAssumption == BufferSize \in Nat

TopRsp      == [rspTo : TopReq, data : TopReq]
BottomReq   == [id : BottomID, req : TopReq]
BottomRsp   == [respondTo : BottomID, data : TopReq]
Transaction == [reqFromTop : TopReq, reqToBottom : BottomID,
                rspFromBottom : TopReq \cup {None}]

VARIABLES
  topWire,          \* requests on their way to the top port
  topPort,
  topOut,           \* responses on their way up
  below,            \* duplicates on their way down and in the memory
  bottomPort,
  controlPort, controlOut,
  transactions,     \* the list, oldest first
  table,            \* the keys of toBottomReqIDToTransactionTable
  isFlushing,
  cpPhase           \* of the command processor

robPortVars == <<topPort, bottomPort>>
bufferVars  == <<transactions, table, isFlushing>>
cpVars      == <<controlPort, controlOut, cpPhase>>
robVars     == <<topWire, topOut, below, robPortVars, bufferVars, cpVars>>

RobTypeOK ==
  /\ topWire \in Seq(TopReq)
  /\ topPort \in Seq(TopReq)
  /\ topOut \in Seq(TopRsp)
  /\ below \subseteq BottomReq
  /\ bottomPort \in Seq(BottomRsp)
  /\ controlPort \in {"discard", "restart", None}
  /\ controlOut \in {"done", None}
  /\ transactions \in Seq(Transaction)
  /\ table \subseteq BottomID
  /\ isFlushing \in BOOLEAN
  /\ cpPhase \in {"run", "discard", "flushed", "restart"}

RobInit ==
  /\ topWire = <<>>
  /\ topPort = <<>>
  /\ topOut = <<>>
  /\ below = {}
  /\ bottomPort = <<>>
  /\ controlPort = None
  /\ controlOut = None
  /\ transactions = <<>>
  /\ table = {}
  /\ isFlushing = FALSE
  /\ cpPhase = "run"

-----------------------------------------------------------------------------
(* The pipeline.                                                           *)

isFull == Len(transactions) >= BufferSize

\* The generator of identifiers never repeats one; here one is used again
\* when nothing carries it any more.
Fresh(id) ==
  /\ \A i \in DOMAIN transactions : transactions[i].reqToBottom # id
  /\ \A m \in below : m.id # id
  /\ \A i \in DOMAIN bottomPort : bottomPort[i].respondTo # id

topDown ==
  /\ ~ isFlushing
  /\ ~ isFull
  /\ topPort # <<>>
  /\ Cardinality(below) < WireCap
  /\ \E id \in BottomID :
       LET req == Head(topPort) IN
       /\ Fresh(id)
       /\ below' = below \cup {[id |-> id, req |-> req]}
       /\ transactions' =
            Append(transactions, [reqFromTop |-> req, reqToBottom |-> id,
                                  rspFromBottom |-> None])
       /\ table' = table \cup {id}
  /\ topPort' = Tail(topPort)
  /\ UNCHANGED <<topWire, topOut, bottomPort, isFlushing, cpVars>>

\* mutant: the response is given to the oldest transaction that has none
AttachToOldest(rsp) ==
  [i \in DOMAIN transactions |->
     IF rsp.respondTo \in table /\ transactions[i].rspFromBottom = None
          /\ \A j \in 1..(i - 1) : transactions[j].rspFromBottom # None
       THEN [transactions[i] EXCEPT !.rspFromBottom = rsp.data]
       ELSE transactions[i]]

\* The response is kept with the transaction of its identifier, if any.
Attach(rsp) ==
  [i \in DOMAIN transactions |->
     IF rsp.respondTo \in table /\ transactions[i].reqToBottom = rsp.respondTo
       THEN [transactions[i] EXCEPT !.rspFromBottom = rsp.data]
       ELSE transactions[i]]

parseBottom ==
  /\ ~ isFlushing
  /\ bottomPort # <<>>
  /\ transactions' = Attach(Head(bottomPort))
  /\ bottomPort' = Tail(bottomPort)
  /\ UNCHANGED <<topWire, topOut, below, topPort, table, isFlushing, cpVars>>

Answerable ==
  /\ transactions # <<>>
  /\ Head(transactions).rspFromBottom # None

\* mutant: the key of a transaction that ends stays in the table
RemoveKeyNot(id) == table

RemoveKey(id) == table \ {id}

bottomUp ==
  /\ ~ isFlushing
  /\ Answerable
  /\ Len(topOut) < WireCap
  /\ LET trans == Head(transactions) IN
       /\ topOut' = Append(topOut, [rspTo |-> trans.reqFromTop,
                                    data |-> trans.rspFromBottom])
       /\ table' = RemoveKey(trans.reqToBottom)
  /\ transactions' = Tail(transactions)
  /\ UNCHANGED <<topWire, below, robPortVars, isFlushing, cpVars>>

-----------------------------------------------------------------------------
(* Control messages.                                                       *)

\* mutant: the flush keeps the transactions for after the restart
discardTransactionsKept ==
  /\ controlPort = "discard"
  /\ controlOut = None
  /\ controlOut' = "done"
  /\ controlPort' = None
  /\ isFlushing' = TRUE
  /\ table' = {}
  /\ UNCHANGED <<topWire, topOut, below, robPortVars, transactions, cpPhase>>

\* mutant: the flush waits for the transactions to be answered
discardTransactionsEmpty ==
  /\ controlPort = "discard"
  /\ controlOut = None
  /\ transactions = <<>>
  /\ controlOut' = "done"
  /\ controlPort' = None
  /\ isFlushing' = TRUE
  /\ table' = {}
  /\ UNCHANGED <<topWire, topOut, below, robPortVars, transactions, cpPhase>>

discardTransactions ==
  /\ controlPort = "discard"
  /\ controlOut = None
  /\ controlOut' = "done"
  /\ controlPort' = None
  /\ isFlushing' = TRUE
  /\ transactions' = <<>>
  /\ table' = {}
  /\ UNCHANGED <<topWire, topOut, below, robPortVars, cpPhase>>

\* Both ports are emptied; what the connections still hold comes later.
restart ==
  /\ controlPort = "restart"
  /\ controlOut = None
  /\ controlOut' = "done"
  /\ controlPort' = None
  /\ isFlushing' = FALSE
  /\ transactions' = <<>>
  /\ table' = {}
  /\ topPort' = <<>>
  /\ bottomPort' = <<>>
  /\ UNCHANGED <<topWire, topOut, below, cpPhase>>

-----------------------------------------------------------------------------
(* The unit above, the memory below and the command processor.             *)

InFlight(r) ==
  \/ \E i \in DOMAIN topWire : topWire[i] = r
  \/ \E i \in DOMAIN topPort : topPort[i] = r
  \/ \E i \in DOMAIN transactions : transactions[i].reqFromTop = r
  \/ \E i \in DOMAIN topOut : topOut[i].rspTo = r

\* The compute unit is paused from before the flush to after the restart.
Issue(r) ==
  /\ cpPhase = "run"
  /\ Len(topWire) < WireCap
  /\ ~ InFlight(r)
  /\ topWire' = Append(topWire, r)
  /\ UNCHANGED <<topOut, below, robPortVars, bufferVars, cpVars>>

DeliverDown ==
  /\ topWire # <<>>
  /\ Len(topPort) < PortCap
  /\ topPort' = Append(topPort, Head(topWire))
  /\ topWire' = Tail(topWire)
  /\ UNCHANGED <<topOut, below, bottomPort, bufferVars, cpVars>>

DeliverUp ==
  /\ topOut # <<>>
  /\ topOut' = Tail(topOut)
  /\ UNCHANGED <<topWire, below, robPortVars, bufferVars, cpVars>>

BelowReply(id) ==
  /\ Len(bottomPort) < PortCap
  /\ \E m \in below :
       /\ m.id = id
       /\ bottomPort' = Append(bottomPort, [respondTo |-> m.id, data |-> m.req])
       /\ below' = below \ {m}
  /\ UNCHANGED <<topWire, topOut, topPort, bufferVars, cpVars>>

\* The translators and the caches drop what they hold during a shoot-down.
\* They are told to flush and to restart before the reorder buffers are.
BelowDrop(id) ==
  /\ cpPhase = "discard" \/ isFlushing
  /\ \E m \in below : m.id = id /\ below' = below \ {m}
  /\ UNCHANGED <<topWire, topOut, robPortVars, bufferVars, cpVars>>

\* The message has the name of the phase it begins.
SendControl(now, next) ==
  /\ cpPhase = now
  /\ controlPort = None
  /\ cpPhase' = next
  /\ controlPort' = next
  /\ UNCHANGED <<topWire, topOut, below, robPortVars, bufferVars, controlOut>>

SendDiscard == SendControl("run", "discard")
SendRestart == SendControl("flushed", "restart")

ReceiveDone ==
  /\ controlOut = "done"
  /\ controlOut' = None
  /\ cpPhase' = IF cpPhase = "discard" THEN "flushed" ELSE "run"
  /\ UNCHANGED <<topWire, topOut, below, robPortVars, bufferVars, controlPort>>

-----------------------------------------------------------------------------
Control == discardTransactions \/ restart

RobNext ==
  \/ topDown \/ parseBottom \/ bottomUp
  \/ Control
  \/ \E r \in TopReq : Issue(r)
  \/ DeliverDown \/ DeliverUp
  \/ \E id \in BottomID : BelowReply(id) \/ BelowDrop(id)
  \/ SendDiscard \/ SendRestart \/ ReceiveDone

\* The buffer ticks as long as one of its handlers can act, the connections
\* deliver, the memory answers, the restart of a flush comes.
RobFairness ==
  /\ WF_robVars(topDown) /\ WF_robVars(parseBottom) /\ WF_robVars(bottomUp)
  /\ WF_robVars(Control)
  /\ WF_robVars(DeliverDown) /\ WF_robVars(DeliverUp)
  /\ \A id \in BottomID : WF_robVars(BelowReply(id))
  /\ WF_robVars(SendRestart) /\ WF_robVars(ReceiveDone)

RobSpec == RobInit /\ [][RobNext]_robVars
RobFairSpec == RobSpec /\ RobFairness

-----------------------------------------------------------------------------
Accepted(ts) == [i \in DOMAIN ts |-> ts[i].reqFromTop]

\* The buffer keeps the promise of InOrderMemory: whatever order the memory
\* answers in and whatever a flush leaves behind in ports and connections,
\* responses leave in the order of the requests, once, with their own data.
Promise == INSTANCE InOrderMemory
  WITH Req     <- TopReq,
       pending <- Accepted(transactions),
       answers <- topOut,
       paused  <- isFlushing

InOrder == Promise!Spec

\* The table of identifiers and the list of transactions agree: a response
\* to a transaction of the list finds it, one from before a flush finds none.
TableMatches ==
  table = {transactions[i].reqToBottom : i \in DOMAIN transactions}

\* A transaction never holds the response to another one, whatever the
\* memory still answers after a flush.
OwnData ==
  \A i \in DOMAIN transactions :
    transactions[i].rspFromBottom \in {None, transactions[i].reqFromTop}

\* A request that entered the system leaves it: it is answered, or dropped
\* by a flush or a restart; and a flush and a restart end, whatever is in the
\* ports at the time.
EverythingEnds ==
  /\ \A r \in TopReq : InFlight(r) ~> ~ InFlight(r)
  /\ cpPhase # "run" ~> cpPhase = "run"

-----------------------------------------------------------------------------
(* The inductive invariant of the refinement.                              *)

\* A duplicate, and a response to it, are about the request of the
\* transaction that sent it.
BelowInv ==
  \A m \in below : \A i \in DOMAIN transactions :
    transactions[i].reqToBottom = m.id => transactions[i].reqFromTop = m.req

BottomInv ==
  \A k \in DOMAIN bottomPort : \A i \in DOMAIN transactions :
    transactions[i].reqToBottom = bottomPort[k].respondTo
      => transactions[i].reqFromTop = bottomPort[k].data

\* Identifiers tell the transactions of the list apart.
IDsUnique ==
  \A i, j \in DOMAIN transactions :
    transactions[i].reqToBottom = transactions[j].reqToBottom => i = j

RobIInv ==
  RobTypeOK /\ OwnData /\ BelowInv /\ BottomInv /\ IDsUnique /\ TableMatches
=============================================================================
