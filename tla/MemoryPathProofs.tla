-------------------------- MODULE MemoryPathProofs --------------------------
(***************************************************************************)
(* Proofs about the two parts on the way to memory, each in every instance *)
(* of its own.  ReorderBuffer, for every set of requests and identifiers   *)
(* and every size of the buffer: types, the table that agrees with the     *)
(* list, responses that stay with their transaction, and the promise of    *)
(* InOrderMemory.  RDMA, for any number of GPUs, requests and capacities:  *)
(* type correctness, and the quiescence of the whole network once every    *)
(* engine has acknowledged its drain.                                      *)
(***************************************************************************)
EXTENDS ReorderBuffer, RDMA, SequenceTheorems, TLAPS

-----------------------------------------------------------------------------
(* Sequences.                                                              *)

\* The elements of a sequence are in its base set.
LEMMA Elements ==
  ASSUME NEW S, NEW s \in Seq(S), NEW i \in DOMAIN s
  PROVE  s[i] \in S
  BY ElementOfSeq, LenProperties

\* Head and tail of a sequence that is not empty.
LEMMA HeadTail ==
  ASSUME NEW S, NEW s \in Seq(S), s # <<>>
  PROVE  /\ Head(s) \in S
         /\ Head(s) = s[1]
         /\ 1 \in DOMAIN s
         /\ Tail(s) \in Seq(S)
         /\ Len(Tail(s)) = Len(s) - 1
         /\ \A i \in DOMAIN Tail(s) : i + 1 \in DOMAIN s /\ Tail(s)[i] = s[i + 1]
  BY HeadTailProperties, EmptySeq, LenProperties, ElementOfSeq

\* A sequence with one more element.
LEMMA Appended ==
  ASSUME NEW S, NEW s \in Seq(S), NEW e \in S
  PROVE  /\ Append(s, e) \in Seq(S)
         /\ Len(Append(s, e)) = Len(s) + 1
         /\ DOMAIN Append(s, e) = 1..(Len(s) + 1)
         /\ \A i \in DOMAIN s : Append(s, e)[i] = s[i]
         /\ Append(s, e)[Len(s) + 1] = e
  BY AppendProperties, LenProperties

\* The requests of a list of transactions, one by one.
LEMMA AcceptedElements ==
  ASSUME NEW ts \in Seq(Transaction)
  PROVE  /\ Accepted(ts) \in Seq(TopReq)
         /\ Len(Accepted(ts)) = Len(ts)
         /\ DOMAIN Accepted(ts) = DOMAIN ts
         /\ \A i \in DOMAIN ts : Accepted(ts)[i] = ts[i].reqFromTop
<1>1. Len(ts) \in Nat /\ DOMAIN ts = 1..Len(ts)
  BY LenProperties
<1>2. \A i \in DOMAIN ts : ts[i].reqFromTop \in TopReq
  <2>1. \A i \in DOMAIN ts : ts[i] \in Transaction
    BY Elements
  <2> QED  BY <2>1 DEF Transaction
<1>3. Accepted(ts) \in [1..Len(ts) -> TopReq]
  BY <1>1, <1>2 DEF Accepted
<1>4. Accepted(ts) \in Seq(TopReq)
  BY <1>1, <1>3, SeqDef
<1>5. Len(Accepted(ts)) = Len(ts)
  BY <1>1, <1>3, <1>4, LenProperties
<1> QED  BY <1>1, <1>4, <1>5 DEF Accepted

\* Adding a transaction adds its request.
LEMMA AcceptedAppend ==
  ASSUME NEW ts \in Seq(Transaction), NEW t \in Transaction
  PROVE  Accepted(Append(ts, t)) = Append(Accepted(ts), t.reqFromTop)
<1> DEFINE a == Accepted(Append(ts, t))
           b == Append(Accepted(ts), t.reqFromTop)
<1>1. t.reqFromTop \in TopReq
  BY DEF Transaction
<1>2. /\ Append(ts, t) \in Seq(Transaction)
      /\ Len(Append(ts, t)) = Len(ts) + 1
      /\ \A i \in DOMAIN ts : Append(ts, t)[i] = ts[i]
      /\ Append(ts, t)[Len(ts) + 1] = t
  BY Appended
<1>3. /\ Len(ts) \in Nat
      /\ DOMAIN ts = 1..Len(ts)
      /\ DOMAIN Append(ts, t) = 1..(Len(ts) + 1)
  BY <1>2, LenProperties
<1>4. /\ Accepted(ts) \in Seq(TopReq)
      /\ Len(Accepted(ts)) = Len(ts)
      /\ DOMAIN Accepted(ts) = DOMAIN ts
      /\ \A i \in DOMAIN ts : Accepted(ts)[i] = ts[i].reqFromTop
  BY AcceptedElements
<1>5. /\ a \in Seq(TopReq)
      /\ Len(a) = Len(ts) + 1
      /\ \A i \in 1..(Len(ts) + 1) : a[i] = Append(ts, t)[i].reqFromTop
  BY <1>2, <1>3, AcceptedElements
<1>6. /\ b \in Seq(TopReq)
      /\ Len(b) = Len(ts) + 1
      /\ \A i \in DOMAIN ts : b[i] = Accepted(ts)[i]
      /\ b[Len(ts) + 1] = t.reqFromTop
  BY <1>1, <1>4, Appended
<1>7. \A i \in 1..Len(a) : a[i] = b[i]
  <2> SUFFICES ASSUME NEW i \in 1..(Len(ts) + 1) PROVE a[i] = b[i]
    BY <1>5
  <2>1. CASE i = Len(ts) + 1
    BY <2>1, <1>2, <1>5, <1>6
  <2>2. CASE i \in DOMAIN ts
    BY <2>2, <1>2, <1>4, <1>5, <1>6
  <2>3. i = Len(ts) + 1 \/ i \in DOMAIN ts
    BY <1>3
  <2> QED  BY <2>1, <2>2, <2>3
<1> HIDE DEF a, b
<1>8. a = b
  BY <1>5, <1>6, <1>7, SeqEqual
<1> QED  BY <1>8 DEF a, b

\* Removing the oldest transaction removes its request.
LEMMA AcceptedTail ==
  ASSUME NEW ts \in Seq(Transaction), ts # <<>>
  PROVE  /\ Accepted(ts) # <<>>
         /\ Head(Accepted(ts)) = Head(ts).reqFromTop
         /\ Accepted(Tail(ts)) = Tail(Accepted(ts))
<1> DEFINE a == Accepted(Tail(ts))
           b == Tail(Accepted(ts))
<1>1. /\ Len(ts) \in Nat \ {0}
      /\ DOMAIN ts = 1..Len(ts)
  BY EmptySeq, LenProperties
<1>2. /\ Accepted(ts) \in Seq(TopReq)
      /\ Len(Accepted(ts)) = Len(ts)
      /\ \A i \in 1..Len(ts) : Accepted(ts)[i] = ts[i].reqFromTop
  BY <1>1, AcceptedElements
<1>3. Accepted(ts) # <<>>
  BY <1>1, <1>2, EmptySeq
<1>4. Head(Accepted(ts)) = Head(ts).reqFromTop
  <2>1. Head(Accepted(ts)) = Accepted(ts)[1]
    BY <1>2, <1>3, HeadTail
  <2>2. Head(ts) = ts[1]
    BY HeadTail
  <2> QED  BY <2>1, <2>2, <1>1, <1>2
<1>5. /\ Tail(ts) \in Seq(Transaction)
      /\ Len(Tail(ts)) = Len(ts) - 1
      /\ \A i \in 1..(Len(ts) - 1) : Tail(ts)[i] = ts[i + 1]
  BY HeadTailProperties
<1>6. /\ a \in Seq(TopReq)
      /\ Len(a) = Len(ts) - 1
      /\ \A i \in 1..(Len(ts) - 1) : a[i] = Tail(ts)[i].reqFromTop
  <2>1. DOMAIN Tail(ts) = 1..(Len(ts) - 1)
    BY <1>5, LenProperties
  <2> QED  BY <2>1, <1>5, AcceptedElements
<1>7. /\ b \in Seq(TopReq)
      /\ Len(b) = Len(ts) - 1
      /\ \A i \in 1..(Len(ts) - 1) : b[i] = Accepted(ts)[i + 1]
  BY <1>2, <1>3, HeadTailProperties
<1>8. \A i \in 1..(Len(ts) - 1) : a[i] = b[i]
  BY <1>1, <1>2, <1>5, <1>6, <1>7
<1> HIDE DEF a, b
<1>9. a = b
  BY <1>6, <1>7, <1>8, SeqEqual
<1> QED  BY <1>3, <1>4, <1>9 DEF a, b

\* The result of Attach, transaction by transaction.
LEMMA Attached ==
  ASSUME NEW rsp \in BottomRsp, transactions \in Seq(Transaction)
  PROVE  /\ Attach(rsp) \in Seq(Transaction)
         /\ DOMAIN Attach(rsp) = DOMAIN transactions
         /\ \A i \in DOMAIN transactions :
              /\ Attach(rsp)[i].reqFromTop = transactions[i].reqFromTop
              /\ Attach(rsp)[i].reqToBottom = transactions[i].reqToBottom
              /\ Attach(rsp)[i].rspFromBottom =
                   IF rsp.respondTo \in table
                      /\ transactions[i].reqToBottom = rsp.respondTo
                     THEN rsp.data ELSE transactions[i].rspFromBottom
<1>1. Len(transactions) \in Nat /\ DOMAIN transactions = 1..Len(transactions)
  BY LenProperties
<1>2. \A i \in DOMAIN transactions : transactions[i] \in Transaction
  BY Elements
<1>3. \A i \in DOMAIN transactions :
        /\ Attach(rsp)[i] \in Transaction
        /\ Attach(rsp)[i].reqFromTop = transactions[i].reqFromTop
        /\ Attach(rsp)[i].reqToBottom = transactions[i].reqToBottom
        /\ Attach(rsp)[i].rspFromBottom =
             IF rsp.respondTo \in table
                /\ transactions[i].reqToBottom = rsp.respondTo
               THEN rsp.data ELSE transactions[i].rspFromBottom
  <2> TAKE i \in DOMAIN transactions
  <2>1. transactions[i] \in Transaction /\ rsp.data \in TopReq
    BY <1>2 DEF BottomRsp
  <2>2. Attach(rsp)[i] = IF rsp.respondTo \in table
                            /\ transactions[i].reqToBottom = rsp.respondTo
                           THEN [transactions[i] EXCEPT !.rspFromBottom = rsp.data]
                           ELSE transactions[i]
    BY DEF Attach
  <2> QED  BY <2>1, <2>2 DEF Transaction
<1>4. DOMAIN Attach(rsp) = DOMAIN transactions
  BY DEF Attach
<1>5. Attach(rsp) \in [1..Len(transactions) -> Transaction]
  BY <1>1, <1>3, <1>4 DEF Attach
<1>6. Attach(rsp) \in Seq(Transaction)
  BY <1>1, <1>5, SeqDef
<1> QED  BY <1>3, <1>4, <1>6

-----------------------------------------------------------------------------
(* The inductive invariant.                                                *)

\* The empty sequence is a sequence of everything a port or the list holds.
LEMMA NoTransactions ==
  /\ <<>> \in Seq(TopReq)
  /\ <<>> \in Seq(TopRsp)
  /\ <<>> \in Seq(BottomRsp)
  /\ <<>> \in Seq(Transaction)
  BY EmptySeq

\* The invariant holds initially.
LEMMA InitInv == RobInit => RobIInv
<1> SUFFICES ASSUME RobInit PROVE RobIInv
  OBVIOUS
<1>1. /\ transactions = <<>> /\ bottomPort = <<>> /\ below = {} /\ table = {}
      /\ DOMAIN transactions = {} /\ DOMAIN bottomPort = {}
  BY DEF RobInit
<1>2. RobTypeOK
  BY NoTransactions DEF RobInit, RobTypeOK
<1> QED
  BY <1>1, <1>2 DEF RobIInv, OwnData, BelowInv, BottomInv, IDsUnique, TableMatches

\* What a step that leaves the list, the memory and its responses alone, or
\* only takes messages away from them, keeps.
LEMMA Frame ==
  ASSUME RobIInv, RobTypeOK',
         UNCHANGED <<transactions, table>>,
         below' \subseteq below,
         \A k \in DOMAIN bottomPort' :
           \E l \in DOMAIN bottomPort : bottomPort'[k] = bottomPort[l]
  PROVE  RobIInv'
<1>1. OwnData'
  BY DEF RobIInv, OwnData
<1>2. BelowInv'
  BY DEF RobIInv, BelowInv
<1>3. BottomInv'
  BY DEF RobIInv, BottomInv
<1>4. IDsUnique' /\ TableMatches'
  BY DEF RobIInv, IDsUnique, TableMatches
<1> QED  BY <1>1, <1>2, <1>3, <1>4 DEF RobIInv

\* What a step that empties the list keeps.
LEMMA Emptied ==
  ASSUME RobTypeOK', transactions' = <<>>, table' = {}
  PROVE  RobIInv'
<1>1. DOMAIN transactions' = {}
  OBVIOUS
<1> QED
  BY <1>1 DEF RobIInv, OwnData, BelowInv, BottomInv, IDsUnique, TableMatches

\* Types are kept by every step.
LEMMA TypeStep == RobTypeOK /\ [RobNext]_robVars => RobTypeOK'
<1> SUFFICES ASSUME RobTypeOK, [RobNext]_robVars PROVE RobTypeOK'
  OBVIOUS
<1>1. CASE topDown
  <2> DEFINE req == Head(topPort)
  <2>1. req \in TopReq /\ Tail(topPort) \in Seq(TopReq)
    BY <1>1, HeadTail DEF RobTypeOK, topDown
  <2>2. PICK id \in BottomID :
          /\ below' = below \cup {[id |-> id, req |-> req]}
          /\ transactions' =
               Append(transactions, [reqFromTop |-> req, reqToBottom |-> id,
                                     rspFromBottom |-> None])
          /\ table' = table \cup {id}
    BY <1>1 DEF topDown
  <2>3. [reqFromTop |-> req, reqToBottom |-> id, rspFromBottom |-> None]
          \in Transaction
    BY <2>1 DEF Transaction
  <2>4. transactions' \in Seq(Transaction)
    BY <2>2, <2>3, Appended DEF RobTypeOK
  <2>5. [id |-> id, req |-> req] \in BottomReq
    BY <2>1 DEF BottomReq
  <2> QED  BY <1>1, <2>1, <2>2, <2>4, <2>5 DEF RobTypeOK, topDown, cpVars
<1>2. CASE parseBottom
  <2>1. Head(bottomPort) \in BottomRsp /\ Tail(bottomPort) \in Seq(BottomRsp)
    BY <1>2, HeadTail DEF RobTypeOK, parseBottom
  <2>2. Attach(Head(bottomPort)) \in Seq(Transaction)
    BY <2>1, Attached DEF RobTypeOK
  <2> QED  BY <1>2, <2>1, <2>2 DEF RobTypeOK, parseBottom, cpVars
<1>3. CASE bottomUp
  <2>1. /\ Head(transactions) \in Transaction
        /\ Tail(transactions) \in Seq(Transaction)
        /\ Head(transactions).rspFromBottom # None
    BY <1>3, HeadTail DEF RobTypeOK, bottomUp, Answerable
  <2>2. [rspTo |-> Head(transactions).reqFromTop,
         data |-> Head(transactions).rspFromBottom] \in TopRsp
    BY <2>1 DEF Transaction, TopRsp
  <2>3. topOut' \in Seq(TopRsp)
    BY <1>3, <2>2, Appended DEF RobTypeOK, bottomUp
  <2> QED  BY <1>3, <2>1, <2>3 DEF RobTypeOK, bottomUp, RemoveKey, robPortVars, cpVars
<1>4. CASE discardTransactions
  BY <1>4 DEF RobTypeOK, discardTransactions, robPortVars
<1>5. CASE restart
  BY <1>5, NoTransactions DEF RobTypeOK, restart
<1>6. ASSUME NEW r \in TopReq, Issue(r) PROVE RobTypeOK'
  <2>1. topWire' \in Seq(TopReq)
    BY <1>6, Appended DEF RobTypeOK, Issue
  <2> QED  BY <1>6, <2>1 DEF RobTypeOK, Issue, robPortVars, bufferVars, cpVars
<1>7. CASE DeliverDown
  <2>1. Head(topWire) \in TopReq /\ Tail(topWire) \in Seq(TopReq)
    BY <1>7, HeadTail DEF RobTypeOK, DeliverDown
  <2>2. topPort' \in Seq(TopReq)
    BY <1>7, <2>1, Appended DEF RobTypeOK, DeliverDown
  <2> QED  BY <1>7, <2>1, <2>2 DEF RobTypeOK, DeliverDown, bufferVars, cpVars
<1>8. CASE DeliverUp
  <2>1. Tail(topOut) \in Seq(TopRsp)
    BY <1>8, HeadTail DEF RobTypeOK, DeliverUp
  <2> QED  BY <1>8, <2>1 DEF RobTypeOK, DeliverUp, robPortVars, bufferVars, cpVars
<1>9. ASSUME NEW id \in BottomID, BelowReply(id) PROVE RobTypeOK'
  <2>1. PICK m \in below :
          /\ bottomPort' = Append(bottomPort, [respondTo |-> m.id, data |-> m.req])
          /\ below' = below \ {m}
    BY <1>9 DEF BelowReply
  <2>2. [respondTo |-> m.id, data |-> m.req] \in BottomRsp
    BY DEF RobTypeOK, BottomReq, BottomRsp
  <2>3. bottomPort' \in Seq(BottomRsp)
    BY <2>1, <2>2, Appended DEF RobTypeOK
  <2> QED  BY <1>9, <2>1, <2>3 DEF RobTypeOK, BelowReply, bufferVars, cpVars
<1>10. ASSUME NEW id \in BottomID, BelowDrop(id) PROVE RobTypeOK'
  BY <1>10 DEF RobTypeOK, BelowDrop, robPortVars, bufferVars, cpVars
<1>11. CASE SendDiscard
  BY <1>11 DEF RobTypeOK, SendDiscard, SendControl, robPortVars, bufferVars
<1>12. CASE SendRestart
  BY <1>12 DEF RobTypeOK, SendRestart, SendControl, robPortVars, bufferVars
<1>13. CASE ReceiveDone
  BY <1>13 DEF RobTypeOK, ReceiveDone, robPortVars, bufferVars
<1>14. CASE UNCHANGED robVars
  BY <1>14 DEF RobTypeOK, robVars, robPortVars, bufferVars, cpVars
<1> QED
  BY <1>1, <1>2, <1>3, <1>4, <1>5, <1>6, <1>7, <1>8, <1>9, <1>10, <1>11,
     <1>12, <1>13, <1>14 DEF RobNext, Control

\* The three stages of the pipeline keep the invariant.
LEMMA TopDownInv == RobIInv /\ RobTypeOK' /\ topDown => RobIInv'
<1> SUFFICES ASSUME RobIInv, RobTypeOK', topDown PROVE RobIInv'
  OBVIOUS
<1> DEFINE req == Head(topPort)
           n == Len(transactions) + 1
<1>1. PICK id \in BottomID :
        /\ Fresh(id)
        /\ below' = below \cup {[id |-> id, req |-> req]}
        /\ transactions' =
             Append(transactions, [reqFromTop |-> req, reqToBottom |-> id,
                                   rspFromBottom |-> None])
        /\ table' = table \cup {id}
  BY DEF topDown
<1>2. req \in TopReq
  BY HeadTail DEF RobIInv, RobTypeOK, topDown
<1>3. [reqFromTop |-> req, reqToBottom |-> id, rspFromBottom |-> None]
        \in Transaction
  BY <1>2 DEF Transaction
<1>4. /\ DOMAIN transactions' = DOMAIN transactions \cup {n}
      /\ n \notin DOMAIN transactions
      /\ \A i \in DOMAIN transactions : transactions'[i] = transactions[i]
      /\ transactions'[n] = [reqFromTop |-> req, reqToBottom |-> id,
                             rspFromBottom |-> None]
  <2>1. transactions \in Seq(Transaction)
    BY DEF RobIInv, RobTypeOK
  <2>2. Len(transactions) \in Nat /\ DOMAIN transactions = 1..Len(transactions)
    BY <2>1, LenProperties
  <2>3. /\ DOMAIN transactions' = 1..(Len(transactions) + 1)
        /\ \A i \in DOMAIN transactions : transactions'[i] = transactions[i]
        /\ transactions'[n] = [reqFromTop |-> req, reqToBottom |-> id,
                               rspFromBottom |-> None]
    BY <1>1, <1>3, <2>1, Appended
  <2> QED  BY <2>2, <2>3
<1> HIDE DEF n, req
<1>5. OwnData'
  BY <1>2, <1>4 DEF RobIInv, OwnData
<1>6. BelowInv'
  BY <1>1, <1>4 DEF RobIInv, BelowInv, Fresh
<1>7. BottomInv'
  <2>1. bottomPort' = bottomPort
    BY DEF topDown
  <2> QED  BY <1>1, <1>4, <2>1 DEF RobIInv, BottomInv, Fresh
<1>8. IDsUnique'
  BY <1>1, <1>4 DEF RobIInv, IDsUnique, Fresh
<1>9. TableMatches'
  BY <1>1, <1>4 DEF RobIInv, TableMatches
<1> QED  BY <1>5, <1>6, <1>7, <1>8, <1>9 DEF RobIInv

\* Attaching a response: it belongs to the transaction it is attached to.
LEMMA ParseBottomInv == RobIInv /\ RobTypeOK' /\ parseBottom => RobIInv'
<1> SUFFICES ASSUME RobIInv, RobTypeOK', parseBottom PROVE RobIInv'
  OBVIOUS
<1> DEFINE rsp == Head(bottomPort)
<1>1. /\ rsp \in BottomRsp
      /\ 1 \in DOMAIN bottomPort
      /\ rsp = bottomPort[1]
      /\ \A k \in DOMAIN bottomPort' :
           \E l \in DOMAIN bottomPort : bottomPort'[k] = bottomPort[l]
  BY HeadTail DEF RobIInv, RobTypeOK, parseBottom
<1>2. /\ transactions \in Seq(Transaction)
      /\ transactions' = Attach(rsp)
      /\ below' = below
      /\ table' = table
  BY DEF RobIInv, RobTypeOK, parseBottom
<1>3. /\ DOMAIN transactions' = DOMAIN transactions
      /\ \A i \in DOMAIN transactions :
           /\ transactions'[i].reqFromTop = transactions[i].reqFromTop
           /\ transactions'[i].reqToBottom = transactions[i].reqToBottom
           /\ transactions'[i].rspFromBottom =
                IF rsp.respondTo \in table
                   /\ transactions[i].reqToBottom = rsp.respondTo
                  THEN rsp.data ELSE transactions[i].rspFromBottom
  BY <1>1, <1>2, Attached
<1> HIDE DEF rsp
<1>4. OwnData'
  BY <1>1, <1>3 DEF RobIInv, OwnData, BottomInv
<1>5. BelowInv'
  BY <1>2, <1>3 DEF RobIInv, BelowInv
<1>6. BottomInv'
  BY <1>1, <1>3 DEF RobIInv, BottomInv
<1>7. IDsUnique' /\ TableMatches'
  BY <1>2, <1>3 DEF RobIInv, IDsUnique, TableMatches
<1> QED  BY <1>4, <1>5, <1>6, <1>7 DEF RobIInv

\* Answering the oldest transaction takes it and its key away.
LEMMA BottomUpInv == RobIInv /\ RobTypeOK' /\ bottomUp => RobIInv'
<1> SUFFICES ASSUME RobIInv, RobTypeOK', bottomUp PROVE RobIInv'
  OBVIOUS
<1>1. /\ transactions \in Seq(Transaction)
      /\ transactions # <<>>
      /\ transactions' = Tail(transactions)
      /\ table' = table \ {Head(transactions).reqToBottom}
      /\ UNCHANGED <<below, bottomPort>>
  BY DEF RobIInv, RobTypeOK, bottomUp, Answerable, RemoveKey, robPortVars
<1>2. /\ Head(transactions) = transactions[1]
      /\ \A i \in DOMAIN transactions' :
           i + 1 \in DOMAIN transactions /\ transactions'[i] = transactions[i + 1]
  BY <1>1, HeadTail
<1>3. /\ DOMAIN transactions = 1..Len(transactions)
      /\ DOMAIN transactions' = 1..(Len(transactions) - 1)
      /\ Len(transactions) \in Nat
  <2>1. Tail(transactions) \in Seq(Transaction)
        /\ Len(Tail(transactions)) = Len(transactions) - 1
    BY <1>1, HeadTail
  <2> QED  BY <1>1, <2>1, LenProperties
<1>4. OwnData' /\ BelowInv' /\ BottomInv'
  BY <1>1, <1>2 DEF RobIInv, OwnData, BelowInv, BottomInv
<1>5. IDsUnique'
  <2> SUFFICES ASSUME NEW i \in DOMAIN transactions', NEW j \in DOMAIN transactions',
                      transactions'[i].reqToBottom = transactions'[j].reqToBottom
               PROVE  i = j
    BY DEF IDsUnique
  <2>1. i + 1 = j + 1
    BY <1>2 DEF RobIInv, IDsUnique
  <2> QED  BY <2>1, <1>3
<1>6. TableMatches'
  <2>1. \A x : x \in table' <=>
               \E i \in DOMAIN transactions' : x = transactions'[i].reqToBottom
    <3>1. ASSUME NEW i \in DOMAIN transactions'
          PROVE  transactions'[i].reqToBottom \in table'
      <4>1. i + 1 \in DOMAIN transactions /\ i + 1 # 1 /\ 1 \in DOMAIN transactions
        BY <1>2, <1>3, <3>1
      <4>2. transactions[i + 1].reqToBottom # transactions[1].reqToBottom
        BY <4>1 DEF RobIInv, IDsUnique
      <4> QED  BY <1>1, <1>2, <4>1, <4>2 DEF RobIInv, TableMatches
    <3>2. ASSUME NEW x \in table'
          PROVE  \E i \in DOMAIN transactions' : x = transactions'[i].reqToBottom
      <4>1. PICK j \in DOMAIN transactions : x = transactions[j].reqToBottom
        BY <1>1 DEF RobIInv, TableMatches
      <4>2. j # 1
        BY <1>1, <1>2, <4>1
      <4>3. j - 1 \in DOMAIN transactions' /\ (j - 1) + 1 = j
        BY <1>3, <4>1, <4>2
      <4> QED  BY <1>2, <4>1, <4>3
    <3> QED  BY <3>1, <3>2
  <2> QED  BY <2>1 DEF TableMatches
<1> QED  BY <1>4, <1>5, <1>6 DEF RobIInv

\* A response of the memory is about the request it answers.
LEMMA BelowReplyInv ==
  ASSUME NEW id \in BottomID, RobIInv, RobTypeOK', BelowReply(id)
  PROVE  RobIInv'
<1>1. PICK m \in below :
        /\ bottomPort' = Append(bottomPort, [respondTo |-> m.id, data |-> m.req])
        /\ below' = below \ {m}
  BY DEF BelowReply
<1>2. UNCHANGED <<transactions, table>>
  BY DEF BelowReply, bufferVars
<1>3. \A k \in DOMAIN bottomPort' :
        \/ k \in DOMAIN bottomPort /\ bottomPort'[k] = bottomPort[k]
        \/ bottomPort'[k] = [respondTo |-> m.id, data |-> m.req]
  <2>1. bottomPort \in Seq(BottomRsp) /\ [respondTo |-> m.id, data |-> m.req] \in BottomRsp
    BY DEF RobIInv, RobTypeOK, BottomReq, BottomRsp
  <2>2. Len(bottomPort) \in Nat /\ DOMAIN bottomPort = 1..Len(bottomPort)
    BY <2>1, LenProperties
  <2>3. /\ DOMAIN bottomPort' = 1..(Len(bottomPort) + 1)
        /\ \A k \in DOMAIN bottomPort : bottomPort'[k] = bottomPort[k]
        /\ bottomPort'[Len(bottomPort) + 1] = [respondTo |-> m.id, data |-> m.req]
    BY <1>1, <2>1, Appended
  <2> TAKE k \in DOMAIN bottomPort'
  <2>4. k \in DOMAIN bottomPort \/ k = Len(bottomPort) + 1
    BY <2>2, <2>3
  <2> QED  BY <2>3, <2>4
<1>4. BottomInv'
  BY <1>2, <1>3 DEF RobIInv, BottomInv, BelowInv
<1>5. OwnData' /\ BelowInv' /\ IDsUnique' /\ TableMatches'
  BY <1>1, <1>2 DEF RobIInv, OwnData, BelowInv, IDsUnique, TableMatches
<1> QED  BY <1>4, <1>5 DEF RobIInv

\* Every step keeps the invariant.
LEMMA StepInv == RobIInv /\ [RobNext]_robVars => RobIInv'
<1> SUFFICES ASSUME RobIInv, [RobNext]_robVars PROVE RobIInv'
  OBVIOUS
<1>1. RobTypeOK'
  BY TypeStep DEF RobIInv
<1>2. CASE topDown
  BY <1>1, <1>2, TopDownInv
<1>3. CASE parseBottom
  BY <1>1, <1>3, ParseBottomInv
<1>4. CASE bottomUp
  BY <1>1, <1>4, BottomUpInv
<1>5. CASE Control
  BY <1>1, <1>5, Emptied DEF Control, discardTransactions, restart
<1>6. ASSUME NEW id \in BottomID, BelowReply(id) PROVE RobIInv'
  BY <1>1, <1>6, BelowReplyInv
<1>7. CASE /\ UNCHANGED <<transactions, table, bottomPort>>
           /\ below' \subseteq below
  BY <1>1, <1>7, Frame
<1>8. ASSUME NEW id \in BottomID, BelowDrop(id) PROVE RobIInv'
  BY <1>7, <1>8 DEF BelowDrop, robPortVars, bufferVars
<1>9. ASSUME NEW r \in TopReq, Issue(r) PROVE RobIInv'
  BY <1>7, <1>9 DEF Issue, robPortVars, bufferVars
<1>10. CASE DeliverDown \/ DeliverUp
  BY <1>7, <1>10 DEF DeliverDown, DeliverUp, robPortVars, bufferVars
<1>11. CASE SendDiscard \/ SendRestart \/ ReceiveDone
  BY <1>7, <1>11 DEF SendDiscard, SendRestart, SendControl, ReceiveDone,
                     robPortVars, bufferVars
<1>12. CASE UNCHANGED robVars
  BY <1>7, <1>12 DEF robVars, robPortVars, bufferVars
<1> QED
  BY <1>2, <1>3, <1>4, <1>5, <1>6, <1>8, <1>9, <1>10, <1>11, <1>12 DEF RobNext

\* The invariant is one.
LEMMA Invariance == RobSpec => []RobIInv
  BY InitInv, StepInv, PTL DEF RobSpec

-----------------------------------------------------------------------------
(* The theorems.                                                           *)

\* Ports, list and table keep their types; the pipeline only answers a
\* transaction that has its response.
THEOREM RobTypeCorrect == RobSpec => []RobTypeOK
  BY Invariance, PTL DEF RobIInv

\* A response is never attached to another transaction, even when the memory
\* answers duplicates from before a flush.
THEOREM ResponsesStayWithTheirRequest == RobSpec => []OwnData
  BY Invariance, PTL DEF RobIInv

\* The table of identifiers always describes the list of transactions.
THEOREM TableAgreesWithList == RobSpec => []TableMatches
  BY Invariance, PTL DEF RobIInv

\* The buffer starts as the abstract memory starts.
LEMMA PromiseInit == RobInit => Promise!Init
<1> SUFFICES ASSUME RobInit PROVE Promise!Init
  OBVIOUS
<1>1. Accepted(transactions) = <<>>
  <2>1. transactions \in Seq(Transaction) /\ Len(transactions) = 0
    BY NoTransactions, EmptySeq DEF RobInit
  <2>2. Accepted(transactions) \in Seq(TopReq) /\ Len(Accepted(transactions)) = 0
    BY <2>1, AcceptedElements
  <2> QED  BY <2>2, EmptySeq
<1> QED  BY <1>1 DEF RobInit, Promise!Init

\* Every step is a step of the abstract memory or none that it sees.
LEMMA PromiseStep == RobIInv /\ [RobNext]_robVars => [Promise!Next]_(Promise!vars)
<1> SUFFICES ASSUME RobIInv, [RobNext]_robVars PROVE [Promise!Next]_(Promise!vars)
  OBVIOUS
<1> USE DEF Promise!Next, Promise!vars
<1>1. transactions \in Seq(Transaction) /\ BufferSize \in Nat
  BY SizeAssumption DEF RobIInv, RobTypeOK
<1>2. CASE topDown
  <2> DEFINE req == Head(topPort)
  <2>1. PICK id \in BottomID :
          transactions' =
            Append(transactions, [reqFromTop |-> req, reqToBottom |-> id,
                                  rspFromBottom |-> None])
    BY <1>2 DEF topDown
  <2>2. req \in TopReq
    BY <1>2, HeadTail DEF RobIInv, RobTypeOK, topDown
  <2> HIDE DEF req
  <2>3. [reqFromTop |-> req, reqToBottom |-> id, rspFromBottom |-> None]
          \in Transaction
    BY <2>2 DEF Transaction
  <2>4. Accepted(transactions') = Append(Accepted(transactions), req)
    BY <1>1, <2>1, <2>3, AcceptedAppend
  <2>5. Len(Accepted(transactions)) < BufferSize
    <3>1. Len(Accepted(transactions)) = Len(transactions)
      BY <1>1, AcceptedElements
    <3>2. Len(transactions) \in Nat
      BY <1>1, LenProperties
    <3> QED  BY <1>1, <1>2, <3>1, <3>2 DEF topDown, isFull
  <2>6. Promise!Accept(req)
    BY <1>2, <2>4, <2>5 DEF topDown, Promise!Accept
  <2> QED  BY <2>2, <2>6
<1>3. CASE parseBottom
  <2>1. Head(bottomPort) \in BottomRsp
    BY <1>3, HeadTail DEF RobIInv, RobTypeOK, parseBottom
  <2>2. /\ transactions' \in Seq(Transaction)
        /\ DOMAIN transactions' = DOMAIN transactions
        /\ \A i \in DOMAIN transactions :
             transactions'[i].reqFromTop = transactions[i].reqFromTop
    BY <1>1, <1>3, <2>1, Attached DEF parseBottom
  <2>3. Accepted(transactions') = Accepted(transactions)
    BY <2>2 DEF Accepted
  <2> QED  BY <1>3, <2>3 DEF parseBottom
<1>4. CASE bottomUp
  <2> DEFINE trans == Head(transactions)
  <2>1. /\ transactions # <<>>
        /\ trans.rspFromBottom # None
        /\ transactions' = Tail(transactions)
        /\ topOut' = Append(topOut, [rspTo |-> trans.reqFromTop,
                                     data |-> trans.rspFromBottom])
        /\ ~ isFlushing
        /\ UNCHANGED isFlushing
    BY <1>4 DEF bottomUp, Answerable
  <2>2. trans.rspFromBottom = trans.reqFromTop
    <3>1. trans = transactions[1] /\ 1 \in DOMAIN transactions
      BY <1>1, <2>1, HeadTail
    <3> QED  BY <2>1, <3>1 DEF RobIInv, OwnData
  <2>3. /\ Accepted(transactions) # <<>>
        /\ Head(Accepted(transactions)) = trans.reqFromTop
        /\ Accepted(transactions') = Tail(Accepted(transactions))
    BY <1>1, <2>1, AcceptedTail
  <2> HIDE DEF trans
  <2>4. Promise!Answer
    BY <2>1, <2>2, <2>3 DEF Promise!Answer
  <2> QED  BY <2>4
<1>5. ASSUME transactions' = <<>>
      PROVE  Accepted(transactions') = <<>>
  <2>1. transactions' \in Seq(Transaction) /\ Len(transactions') = 0
    BY <1>5, NoTransactions, EmptySeq
  <2>2. Accepted(transactions') \in Seq(TopReq) /\ Len(Accepted(transactions')) = 0
    BY <2>1, AcceptedElements
  <2> QED  BY <2>2, EmptySeq
<1>6. CASE discardTransactions
  <2>1. Promise!Flush
    BY <1>5, <1>6 DEF discardTransactions, Promise!Flush
  <2> QED  BY <2>1
<1>7. CASE restart
  <2>1. Promise!Restart
    BY <1>5, <1>7 DEF restart, Promise!Restart
  <2> QED  BY <2>1
<1>8. CASE DeliverUp
  <2>1. Promise!Take
    BY <1>8 DEF DeliverUp, bufferVars, Promise!Take
  <2> QED  BY <2>1
<1>9. CASE UNCHANGED <<transactions, topOut, isFlushing>>
  BY <1>9
<1>10. ASSUME NEW id \in BottomID, BelowReply(id) \/ BelowDrop(id)
       PROVE  UNCHANGED Promise!vars
  BY <1>9, <1>10 DEF BelowReply, BelowDrop, bufferVars
<1>11. ASSUME NEW r \in TopReq, Issue(r) PROVE UNCHANGED Promise!vars
  BY <1>9, <1>11 DEF Issue, bufferVars
<1>12. CASE DeliverDown \/ SendDiscard \/ SendRestart \/ ReceiveDone
  BY <1>9, <1>12 DEF DeliverDown, SendDiscard, SendRestart, SendControl,
                     ReceiveDone, bufferVars
<1>13. CASE UNCHANGED robVars
  BY <1>9, <1>13 DEF robVars, bufferVars
<1> QED
  BY <1>2, <1>3, <1>4, <1>6, <1>7, <1>8, <1>10, <1>11, <1>12, <1>13
     DEF RobNext, Control

\* The reorder buffer implements the abstract memory: accepted requests are
\* answered in order, once, with their own data; a flush drops the others.
THEOREM Refinement == RobSpec => InOrder
<1>1. RobInit => Promise!Init
  BY PromiseInit
<1>2. RobIInv /\ [RobNext]_robVars => [Promise!Next]_(Promise!vars)
  BY PromiseStep
<1> QED  BY <1>1, <1>2, Invariance, PTL DEF RobSpec, InOrder, Promise!Spec

-----------------------------------------------------------------------------
(* The RDMA engines.                                                       *)

USE DEF l1Vars, netVars, l2Vars, portVars, engVars, tabVars, agtVars

LEMMA InitTypeOK == Init => TypeOK
  BY HomeAssumption DEF Init, TypeOK

\* Every message the handlers build has the fields its port expects.
LEMMA BuildTypes ==
  /\ \A id \in ID, s \in Engine, d \in Engine :
       MkReq(id, s, d) \in Req /\ MkRsp(id, s, d) \in Rsp
  /\ \A req \in Req : req.id \in ID /\ req.id[1] \in Txn /\ req.src \in Engine
  /\ \A rsp \in Rsp : rsp.id \in ID /\ rsp.id[1] \in Txn /\ rsp.src \in Engine
  /\ \A t \in Txn, h \in {"L1", "out", "L2"} : <<t, h>> \in ID
  BY DEF MkReq, MkRsp, Req, Rsp, ID

LEMMA NextTypeOK == TypeOK /\ [Next]_vars => TypeOK'
<1> SUFFICES ASSUME TypeOK, [Next]_vars
             PROVE  TypeOK'
  OBVIOUS
<1> USE DEF TypeOK
<1>1. ASSUME NEW e \in Engine, EngineStep(e)
      PROVE  TypeOK'
  <2>1. CASE ProcessDrainReq(e)
    BY <2>1 DEF ProcessDrainReq
  <2>2. CASE ProcessRDMARestartReq(e)
    BY <2>2 DEF ProcessRDMARestartReq
  <2>3. CASE DrainRDMA(e)
    BY <2>3 DEF DrainRDMA
  <2>4. CASE ProcessReqFromL1(e)
    <3>1. PICK dst \in Engine \ {e} :
            LET cloned == MkReq(<<toL1[e].id[1], "out">>, e, dst)
            IN  /\ net' = net \cup {cloned}
                /\ transactionsFromInside' =
                     [transactionsFromInside EXCEPT
                        ![e] = @ \cup {[fromInside |-> toL1[e],
                                        toOutside  |-> cloned]}]
      BY <2>4 DEF ProcessReqFromL1
    <3>2. toL1[e] \in Req
      BY <2>4 DEF ProcessReqFromL1
    <3>3. MkReq(<<toL1[e].id[1], "out">>, e, dst) \in Req
      BY <3>2, BuildTypes
    <3>4. [fromInside |-> toL1[e],
           toOutside  |-> MkReq(<<toL1[e].id[1], "out">>, e, dst)] \in TransIn
      BY <3>2, <3>3 DEF TransIn
    <3> QED
      BY <2>4, <3>1, <3>3, <3>4 DEF ProcessReqFromL1, Msg
  <2>5. CASE ProcessRspFromL2(e)
    <3>1. PICK trans \in transactionsFromOutside[e] :
            /\ net' = net \cup {Answer(trans.fromOutside, e)}
            /\ transactionsFromOutside' =
                 [transactionsFromOutside EXCEPT ![e] = Remove(@, trans)]
      BY <2>5 DEF ProcessRspFromL2
    <3>2. Answer(trans.fromOutside, e) \in Rsp
      BY BuildTypes DEF TransOut, Answer
    <3> QED
      BY <2>5, <3>1, <3>2 DEF ProcessRspFromL2, Remove, Msg
  <2>6. CASE ProcessReqFromOutside(e)
    <3>1. toOutside[e] \in Req
      BY <2>6 DEF ProcessReqFromOutside, Msg, Rsp, Req
    <3>2. MkReq(<<toOutside[e].id[1], "L2">>, e, e) \in Req
      BY <3>1, BuildTypes
    <3>3. [fromOutside |-> toOutside[e],
           toInside |-> MkReq(<<toOutside[e].id[1], "L2">>, e, e)] \in TransOut
      BY <3>1, <3>2 DEF TransOut
    <3> QED
      BY <2>6, <3>2, <3>3 DEF ProcessReqFromOutside
  <2>7. CASE ProcessRspFromOutside(e)
    <3>1. PICK trans \in transactionsFromInside[e] :
            /\ l1Rsp' = [l1Rsp EXCEPT ![e] = @ \cup {Answer(trans.fromInside, e)}]
            /\ transactionsFromInside' =
                 [transactionsFromInside EXCEPT ![e] = Remove(@, trans)]
      BY <2>7 DEF ProcessRspFromOutside
    <3>2. Answer(trans.fromInside, e) \in Rsp
      BY BuildTypes DEF TransIn, Answer
    <3> QED
      BY <2>7, <3>1, <3>2 DEF ProcessRspFromOutside, Remove
  <2> QED
    BY <1>1, <2>1, <2>2, <2>3, <2>4, <2>5, <2>6, <2>7 DEF EngineStep
<1>2. ASSUME NEW e \in Engine, NEW t \in Txn, MemoryStep(e, t)
      PROVE  TypeOK'
  <2>1. CASE L1Receive(e, t)
    BY <2>1, BuildTypes DEF L1Receive
  <2>2. CASE Deliver(e, t)
    BY <2>2 DEF Deliver
  <2>3. CASE L2Reply(e, t)
    BY <2>3, BuildTypes DEF L2Reply
  <2> QED
    BY <1>2, <2>1, <2>2, <2>3 DEF MemoryStep
<1>3. ASSUME NEW e \in Engine, Ask(e)
      PROVE  TypeOK'
  BY <1>3 DEF Ask
<1>4. ASSUME NEW e \in Engine, Ack(e)
      PROVE  TypeOK'
  BY <1>4 DEF Ack
<1>5. ASSUME NEW t \in Txn, L1Issue(t)
      PROVE  TypeOK'
  <2>1. MkReq(<<t, "L1">>, Home[t], Home[t]) \in Req
    BY HomeAssumption, BuildTypes
  <2> QED
    BY <1>5, <2>1 DEF L1Issue
<1>6. CASE InitiateDrain
  BY <1>6 DEF InitiateDrain
<1>7. CASE InitiateRestart
  BY <1>7 DEF InitiateRestart
<1>8. CASE UNCHANGED vars
  BY <1>8 DEF vars
<1> QED
  BY <1>1, <1>2, <1>3, <1>4, <1>5, <1>6, <1>7, <1>8 DEF Next

\* Ports, tables and the agent only ever hold values of their types, for any
\* set of engines and any routing of the requests.
THEOREM TypeCorrect == Spec => []TypeOK
  BY InitTypeOK, NextTypeOK, PTL DEF Spec

-----------------------------------------------------------------------------
(* The invariant of the agent and the control ports.                       *)

LEMMA InitIInv == Init => IInv
  BY NoMsgAssumption DEF Init, IInv, MemInv, AgentInv, AskingInv, AnsweredInv, TableShape, TableUnique,
     FlightInv, RemoteShape, RemoteAlone, RemoteUnique, L2Inv

\* The steps that leave the control state alone and let no table of own
\* requests grow while its engine is paused.
LEMMA AgentFrame ==
  ASSUME TypeOK, AgentInv,
         UNCHANGED <<portVars, engVars, agtVars>>,
         \A e \in Engine :
           pauseIncomingReqsFromL1[e] =>
             transactionsFromInside'[e] \subseteq transactionsFromInside[e]
  PROVE  AgentInv'
  BY DEF AgentInv, DrainedSide

LEMMA AgentStep == TypeOK /\ AgentInv /\ [Next]_vars => AgentInv'
<1> SUFFICES ASSUME TypeOK, AgentInv, [Next]_vars
             PROVE  AgentInv'
  OBVIOUS
<1>1. ASSUME NEW e \in Engine, EngineStep(e)
      PROVE  AgentInv'
  <2>1. CASE ProcessDrainReq(e)
    BY <2>1, NoMsgAssumption
       DEF ProcessDrainReq, TypeOK, AgentInv, DrainedSide
  <2>2. CASE ProcessRDMARestartReq(e)
    BY <2>2, NoMsgAssumption
       DEF ProcessRDMARestartReq, CanSendCtrl, TypeOK, AgentInv, DrainedSide
  <2>3. CASE DrainRDMA(e)
    BY <2>3, NoMsgAssumption
       DEF DrainRDMA, FullyDrained, CanSendCtrl, TypeOK, AgentInv, DrainedSide
  <2>4. CASE ProcessReqFromL1(e)
    BY <2>4, AgentFrame DEF ProcessReqFromL1, TypeOK
  <2>5. CASE ProcessRspFromL2(e)
    BY <2>5, AgentFrame DEF ProcessRspFromL2
  <2>6. CASE ProcessReqFromOutside(e)
    BY <2>6, AgentFrame DEF ProcessReqFromOutside
  <2>7. CASE ProcessRspFromOutside(e)
    BY <2>7, AgentFrame DEF ProcessRspFromOutside, Remove, TypeOK
  <2> QED
    BY <1>1, <2>1, <2>2, <2>3, <2>4, <2>5, <2>6, <2>7 DEF EngineStep
<1>2. ASSUME NEW e \in Engine, NEW t \in Txn, MemoryStep(e, t)
      PROVE  AgentInv'
  BY <1>2, AgentFrame DEF MemoryStep, L1Receive, Deliver, L2Reply
<1>3. ASSUME NEW e \in Engine, Ask(e)
      PROVE  AgentInv'
  BY <1>3, NoMsgAssumption DEF Ask, TypeOK, AgentInv, DrainedSide
<1>4. ASSUME NEW e \in Engine, Ack(e)
      PROVE  AgentInv'
  BY <1>4, NoMsgAssumption DEF Ack, TypeOK, AgentInv, DrainedSide
<1>5. ASSUME NEW t \in Txn, L1Issue(t)
      PROVE  AgentInv'
  BY <1>5, AgentFrame DEF L1Issue
<1>6. CASE InitiateDrain
  BY <1>6, NoMsgAssumption DEF InitiateDrain, TypeOK, AgentInv, DrainedSide
<1>7. CASE InitiateRestart
  BY <1>7, NoMsgAssumption DEF InitiateRestart, TypeOK, AgentInv, DrainedSide
<1>8. CASE UNCHANGED vars
  BY <1>8, AgentFrame DEF vars
<1> QED
  BY <1>1, <1>2, <1>3, <1>4, <1>5, <1>6, <1>7, <1>8 DEF Next

-----------------------------------------------------------------------------
(* The invariant of the requests and responses, one lemma per action.      *)

\* What a table entry and a backed message look like, field by field.
LEMMA TableFields ==
  ASSUME TypeOK, TableShape,
         NEW e \in Engine, NEW tr \in transactionsFromInside[e]
  PROVE  \E t \in Txn :
           /\ tr.fromInside.id = <<t, "L1">> /\ tr.fromInside.id[1] = t
           /\ tr.fromInside.src = e
           /\ tr.toOutside.id = <<t, "out">> /\ tr.toOutside.src = e
           /\ Home[t] = e /\ l1[t] = "waiting" /\ t \in Forwarded[e]
<1>1. PICK t \in Txn :
        /\ tr.fromInside.id = <<t, "L1">> /\ tr.fromInside.src = e
        /\ tr.toOutside.id = <<t, "out">> /\ tr.toOutside.src = e
        /\ Home[t] = e /\ l1[t] = "waiting"
  BY DEF TableShape
<1>2. t \in Forwarded[e]
  BY <1>1 DEF Forwarded
<1> QED
  BY <1>1, <1>2

LEMMA BackedFields ==
  ASSUME TypeOK, TableShape, NEW m \in Msg, m \in Backed
  PROVE  \E t \in Txn :
           m.id = <<t, "out">> /\ m.id[1] = t /\ t \in Forwarded[Home[t]]
<1>1. CASE m.kind = "req"
  <2>1. m.src \in Engine
    BY DEF Msg, Req, Rsp
  <2>2. PICK tr \in transactionsFromInside[m.src] : tr.toOutside = m
    BY <1>1 DEF Backed
  <2> QED
    BY <2>1, <2>2, TableFields
<1>2. CASE m.kind = "rsp"
  <2>1. m.dst \in Engine
    BY DEF Msg, Req, Rsp
  <2>2. PICK tr \in transactionsFromInside[m.dst] : tr.toOutside.id = m.id
    BY <1>2 DEF Backed
  <2> QED
    BY <2>1, <2>2, TableFields
<1> QED
  BY <1>1, <1>2 DEF Backed

\* The identifier a request is given leaves no room for confusion: while the
\* request is not forwarded no message and no peer carries it.
LEMMA NotBacked ==
  ASSUME TypeOK, TableShape, NEW t \in Txn, t \notin Forwarded[Home[t]],
         NEW m \in Msg, m \in Backed
  PROVE  m.id # <<t, "out">>
  BY BackedFields

LEMMA ProcessReqFromL1Step ==
  ASSUME TypeOK, MemInv, NEW e \in Engine, ProcessReqFromL1(e)
  PROVE  MemInv'
<1>1. PICK dst \in Engine \ {e} :
        LET cloned == MkReq(<<toL1[e].id[1], "out">>, e, dst)
        IN  /\ net' = net \cup {cloned}
            /\ transactionsFromInside' =
                 [transactionsFromInside EXCEPT
                    ![e] = @ \cup {[fromInside |-> toL1[e],
                                    toOutside  |-> cloned]}]
  BY DEF ProcessReqFromL1
<1>2. PICK t \in Txn : /\ toL1[e].id = <<t, "L1">> /\ toL1[e].src = e
                       /\ Home[t] = e /\ l1[t] = "waiting"
                       /\ t \notin Forwarded[e]
  BY DEF ProcessReqFromL1, MemInv, AskingInv
<1> DEFINE c   == MkReq(<<t, "out">>, e, dst)
           new == [fromInside |-> toL1[e], toOutside |-> c]
<1>3. /\ toL1[e].id = <<t, "L1">> /\ toL1[e].id[1] = t
      /\ c.id = <<t, "out">> /\ c.src = e /\ c.kind = "req" /\ c \in Msg
      /\ new.fromInside.id = <<t, "L1">> /\ new.fromInside.id[1] = t
      /\ new.fromInside.src = e /\ new.toOutside = c
  <2>1. c \in Msg
    BY <1>2, BuildTypes DEF Msg
  <2> QED
    BY <1>2, <2>1 DEF MkReq
<1>4. /\ net' = net \cup {c}
      /\ transactionsFromInside'[e] = transactionsFromInside[e] \cup {new}
      /\ \A f \in Engine \ {e} :
           transactionsFromInside'[f] = transactionsFromInside[f]
  BY <1>1, <1>3 DEF TypeOK
<1> HIDE DEF c, new
<1>5. /\ toL1' = [toL1 EXCEPT ![e] = NoMsg]
      /\ UNCHANGED <<l1, l1Rsp, toOutside, l2, toL2, transactionsFromOutside>>
  BY DEF ProcessReqFromL1
<1>6. /\ Forwarded'[e] = Forwarded[e] \cup {t}
      /\ \A f \in Engine \ {e} : Forwarded'[f] = Forwarded[f]
  <2>1. {tr.fromInside.id[1] : tr \in transactionsFromInside'[e]}
          = {tr.fromInside.id[1] : tr \in transactionsFromInside[e]} \cup {t}
    BY <1>3, <1>4
  <2> QED
    BY <1>4, <2>1 DEF Forwarded
<1>7. ASSUME NEW m \in Msg, m \in Backed
      PROVE  m \in Backed' /\ m.id # <<t, "out">>
  <2>1. m.src \in Engine /\ m.dst \in Engine
    BY DEF Msg, Req, Rsp
  <2> QED
    BY <1>2, <1>4, <1>7, <2>1, NotBacked DEF Backed, MemInv
<1>8. AskingInv'
  <2>1. ASSUME NEW f \in Engine, toL1'[f] # NoMsg
        PROVE  f # e /\ toL1'[f] = toL1[f]
    BY <1>5, <2>1 DEF TypeOK
  <2> QED
    BY <1>5, <1>6, <2>1 DEF MemInv, AskingInv
<1>17. AnsweredInv'
  <2>1. toL1[e] # NoMsg
    BY DEF ProcessReqFromL1
  <2>2. \A f \in Engine : toL1'[f] # NoMsg => toL1'[f] = toL1[f]
    BY <1>5 DEF TypeOK
  <2>3. ASSUME NEW f \in Engine, NEW m \in l1Rsp[f]
        PROVE  \E s \in Txn : /\ m.id = <<s, "L1">>
                              /\ Home[s] = f /\ l1[s] = "waiting"
                              /\ s \notin Forwarded'[f]
    <3>1. PICK s \in Txn : /\ m.id = <<s, "L1">>
                           /\ Home[s] = f /\ l1[s] = "waiting"
                           /\ s \notin Forwarded[f]
      BY DEF MemInv, AnsweredInv
    <3>2. f = e => s # t
      BY <1>3, <2>1, <3>1 DEF MemInv, AnsweredInv
    <3> QED
      BY <1>6, <3>1, <3>2
  <2> QED
    BY <1>5, <2>2, <2>3 DEF MemInv, AnsweredInv
<1>9. TableShape'
  BY <1>2, <1>3, <1>4, <1>5 DEF MemInv, TableShape
<1>10. TableUnique'
  <2>1. ASSUME NEW tr \in transactionsFromInside[e]
        PROVE  tr.toOutside.id # <<t, "out">>
    BY <1>2, TableFields DEF MemInv
  <2> QED
    BY <1>3, <1>4, <2>1 DEF MemInv, TableUnique
<1>11. FlightInv'
  <2>1. c \in Backed'
    BY <1>3, <1>4 DEF Backed
  <2>2. \A m \in net : m \in Backed' /\ m.id # <<t, "out">>
    BY <1>7 DEF MemInv, FlightInv, TypeOK
  <2>3. \A f \in Engine : toOutside[f] # NoMsg =>
          toOutside[f] \in Backed' /\ toOutside[f].id # <<t, "out">>
    BY <1>7 DEF MemInv, FlightInv, TypeOK
  <2> QED
    BY <1>3, <1>4, <1>5, <2>1, <2>2, <2>3 DEF MemInv, FlightInv
<1>12. ASSUME NEW f \in Engine, NEW x \in transactionsFromOutside[f]
       PROVE  x.fromOutside \in Backed' /\ x.fromOutside.id # <<t, "out">>
  <2>1. x.fromOutside \in Msg
    BY DEF TypeOK, TransOut, Msg
  <2>2. x.fromOutside \in Backed
    BY DEF MemInv, RemoteShape
  <2> QED
    BY <1>7, <2>1, <2>2
<1>13. RemoteShape'
  BY <1>5, <1>12 DEF MemInv, RemoteShape
<1>14. RemoteAlone'
  BY <1>3, <1>4, <1>5, <1>12 DEF MemInv, RemoteAlone
<1>15. RemoteUnique'
  BY <1>5 DEF MemInv, RemoteUnique
<1>16. L2Inv'
  BY <1>5 DEF MemInv, L2Inv
<1> QED
  BY <1>8, <1>17, <1>9, <1>10, <1>11, <1>13, <1>14, <1>15, <1>16 DEF MemInv

LEMMA ProcessRspFromOutsideStep ==
  ASSUME TypeOK, MemInv, NEW e \in Engine, ProcessRspFromOutside(e)
  PROVE  MemInv'
<1> DEFINE r == toOutside[e]
<1>1. PICK trans \in transactionsFromInside[e] :
        /\ trans.toOutside.id = r.id
        /\ l1Rsp' = [l1Rsp EXCEPT ![e] = @ \cup {Answer(trans.fromInside, e)}]
        /\ transactionsFromInside' =
             [transactionsFromInside EXCEPT ![e] = @ \ {trans}]
  BY DEF ProcessRspFromOutside, Remove
<1>2. PICK t \in Txn :
        /\ trans.fromInside.id = <<t, "L1">> /\ trans.fromInside.id[1] = t
        /\ trans.fromInside.src = e
        /\ trans.toOutside.id = <<t, "out">>
        /\ Home[t] = e /\ l1[t] = "waiting" /\ t \in Forwarded[e]
  BY TableFields DEF MemInv
<1> DEFINE a == MkRsp(<<t, "L1">>, e, e)
<1>3. Answer(trans.fromInside, e) = a /\ a.id = <<t, "L1">>
  BY <1>2 DEF Answer, MkRsp
<1>4. /\ l1Rsp' = [l1Rsp EXCEPT ![e] = @ \cup {a}]
      /\ toOutside' = [toOutside EXCEPT ![e] = NoMsg]
      /\ transactionsFromInside'[e] = transactionsFromInside[e] \ {trans}
      /\ \A f \in Engine \ {e} :
           transactionsFromInside'[f] = transactionsFromInside[f]
      /\ \A f \in Engine :
           transactionsFromInside'[f] \subseteq transactionsFromInside[f]
      /\ UNCHANGED <<l1, toL1, net, l2, toL2, transactionsFromOutside>>
      /\ r # NoMsg
  BY <1>1, <1>3 DEF ProcessRspFromOutside, TypeOK
<1>5. /\ Forwarded'[e] = Forwarded[e] \ {t}
      /\ \A f \in Engine \ {e} : Forwarded'[f] = Forwarded[f]
  <2>1. ASSUME NEW tr \in transactionsFromInside[e], tr.fromInside.id[1] = t
        PROVE  tr = trans
    <3>1. tr.toOutside.id = <<t, "out">>
      BY <2>1, TableFields DEF MemInv
    <3> QED
      BY <1>2, <3>1 DEF MemInv, TableUnique
  <2> QED
    BY <1>2, <1>4, <2>1 DEF Forwarded
<1>6. ASSUME NEW m \in Msg, m \in Backed, m.id # r.id
      PROVE  m \in Backed'
  <2>1. m.src \in Engine /\ m.dst \in Engine
    BY DEF Msg, Req, Rsp
  <2> QED
    BY <1>1, <1>4, <1>6, <2>1 DEF Backed
<1>7. AskingInv'
  BY <1>4, <1>5 DEF MemInv, AskingInv
<1>16. AnsweredInv'
  <2>1. toL1[e] # NoMsg => toL1[e].id # a.id
    BY <1>2, <1>3 DEF MemInv, AskingInv
  <2>2. \A m \in l1Rsp[e] : m.id # a.id
    BY <1>2, <1>3 DEF MemInv, AnsweredInv
  <2>3. t \notin Forwarded'[e] /\ \A f \in Engine : Forwarded'[f] \subseteq Forwarded[f]
    BY <1>5
  <2>4. l1Rsp'[e] = l1Rsp[e] \cup {a} /\ \A f \in Engine \ {e} : l1Rsp'[f] = l1Rsp[f]
    BY <1>4 DEF TypeOK
  <2> HIDE DEF a
  <2> QED
    BY <1>2, <1>3, <1>4, <2>1, <2>2, <2>3, <2>4 DEF MemInv, AnsweredInv
<1>8. TableShape'
  BY <1>4 DEF MemInv, TableShape
<1>9. TableUnique'
  BY <1>4 DEF MemInv, TableUnique
<1>10. \A f \in Engine : toOutside'[f] # NoMsg =>
         f # e /\ toOutside'[f] = toOutside[f]
  BY <1>4 DEF TypeOK
<1>11. FlightInv'
  <2>1. \A m \in net : m \in Backed'
    BY <1>4, <1>6 DEF MemInv, FlightInv, TypeOK
  <2>2. \A f \in Engine \ {e} : toOutside[f] # NoMsg => toOutside[f] \in Backed'
    BY <1>4, <1>6 DEF MemInv, FlightInv, TypeOK
  <2> QED
    BY <1>4, <1>10, <2>1, <2>2 DEF MemInv, FlightInv
<1>12. RemoteShape'
  <2>1. ASSUME NEW f \in Engine, NEW x \in transactionsFromOutside[f]
        PROVE  x.fromOutside \in Backed'
    <3>1. x.fromOutside \in Msg
      BY DEF TypeOK, TransOut, Msg
    <3>2. x.fromOutside \in Backed /\ x.fromOutside.id # r.id
      BY <1>4 DEF MemInv, RemoteShape, RemoteAlone
    <3> QED
      BY <1>6, <3>1, <3>2
  <2> QED
    BY <1>4, <2>1 DEF MemInv, RemoteShape
<1>13. RemoteAlone'
  BY <1>4, <1>10 DEF MemInv, RemoteAlone
<1>14. RemoteUnique'
  BY <1>4 DEF MemInv, RemoteUnique
<1>15. L2Inv'
  BY <1>4 DEF MemInv, L2Inv
<1> QED
  BY <1>7, <1>16, <1>8, <1>9, <1>11, <1>12, <1>13, <1>14, <1>15 DEF MemInv

LEMMA ProcessReqFromOutsideStep ==
  ASSUME TypeOK, MemInv, NEW e \in Engine, ProcessReqFromOutside(e)
  PROVE  MemInv'
<1> DEFINE r == toOutside[e]
           c == MkReq(<<r.id[1], "L2">>, e, e)
           x == [fromOutside |-> r, toInside |-> c]
<1>1. /\ l2' = [l2 EXCEPT ![e] = @ \cup {c}]
      /\ transactionsFromOutside' =
           [transactionsFromOutside EXCEPT ![e] = @ \cup {x}]
      /\ toOutside' = [toOutside EXCEPT ![e] = NoMsg]
      /\ UNCHANGED <<l1Vars, net, toL2, transactionsFromInside>>
      /\ r # NoMsg
  BY DEF ProcessReqFromOutside
<1>2. r \in Msg /\ r \in Backed
  BY <1>1 DEF TypeOK, MemInv, FlightInv
<1>3. PICK t \in Txn : r.id = <<t, "out">> /\ r.id[1] = t
  BY <1>2, BackedFields DEF MemInv
<1>4. c.id = <<t, "L2">> /\ x.fromOutside = r /\ x.toInside = c
  BY <1>3 DEF MkReq
<1>5. /\ l2'[e] = l2[e] \cup {c}
      /\ transactionsFromOutside'[e] = transactionsFromOutside[e] \cup {x}
      /\ \A f \in Engine \ {e} :
           /\ l2'[f] = l2[f]
           /\ transactionsFromOutside'[f] = transactionsFromOutside[f]
      /\ \A f \in Engine : toOutside'[f] # NoMsg =>
           f # e /\ toOutside'[f] = toOutside[f]
  BY <1>1 DEF TypeOK
<1>6. Backed' = Backed /\ Forwarded' = Forwarded
  BY <1>1 DEF Backed, Forwarded
\* No entry of any peer stands for the same transaction yet.
<1>7. ASSUME NEW f \in Engine, NEW y \in transactionsFromOutside[f]
      PROVE  y.fromOutside.id # r.id
  BY <1>1 DEF MemInv, RemoteAlone
<1>8. ASSUME NEW y \in transactionsFromOutside[e]
      PROVE  y.toInside.id # c.id
  <2>1. y.fromOutside \in Msg
    BY DEF TypeOK, TransOut, Msg
  <2>2. /\ y.fromOutside \in Backed
        /\ y.toInside.id = <<y.fromOutside.id[1], "L2">>
    BY DEF MemInv, RemoteShape
  <2>3. PICK s \in Txn :
          y.fromOutside.id = <<s, "out">> /\ y.fromOutside.id[1] = s
    BY <2>1, <2>2, BackedFields DEF MemInv
  <2>4. s # t
    BY <1>3, <1>7, <2>3
  <2> QED
    BY <1>4, <2>2, <2>3, <2>4
<1> HIDE DEF c, x
<1>9. AskingInv' /\ AnsweredInv'
  BY <1>1, <1>6 DEF MemInv, AskingInv, AnsweredInv
<1>10. TableShape' /\ TableUnique'
  BY <1>1 DEF MemInv, TableShape, TableUnique
<1>11. FlightInv'
  BY <1>1, <1>5, <1>6 DEF MemInv, FlightInv
<1>12. RemoteShape'
  BY <1>2, <1>3, <1>4, <1>5, <1>6 DEF MemInv, RemoteShape
<1>13. RemoteAlone'
  <2>1. \A m \in net : m.id # r.id
    BY <1>1 DEF MemInv, FlightInv
  <2>2. \A f \in Engine \ {e} : toOutside[f] # NoMsg => toOutside[f].id # r.id
    BY <1>1 DEF MemInv, FlightInv
  <2> QED
    BY <1>1, <1>4, <1>5, <2>1, <2>2 DEF MemInv, RemoteAlone
<1>14. RemoteUnique'
  BY <1>4, <1>5, <1>7 DEF MemInv, RemoteUnique
<1>15. L2Inv'
  <2>1. toL2[e] # NoMsg => toL2[e].id # c.id
    BY <1>8 DEF MemInv, L2Inv
  <2>2. \A m \in l2[e] : m.id # c.id
    BY <1>8 DEF MemInv, L2Inv
  <2> QED
    BY <1>1, <1>4, <1>5, <2>1, <2>2 DEF MemInv, L2Inv
<1> QED
  BY <1>9, <1>10, <1>11, <1>12, <1>13, <1>14, <1>15 DEF MemInv

LEMMA ProcessRspFromL2Step ==
  ASSUME TypeOK, MemInv, NEW e \in Engine, ProcessRspFromL2(e)
  PROVE  MemInv'
<1>1. PICK trans \in transactionsFromOutside[e] :
        /\ trans.toInside.id = toL2[e].id
        /\ net' = net \cup {Answer(trans.fromOutside, e)}
        /\ transactionsFromOutside' =
             [transactionsFromOutside EXCEPT ![e] = @ \ {trans}]
  BY DEF ProcessRspFromL2, Remove
<1> DEFINE q == trans.fromOutside
           a == Answer(q, e)
<1>2. /\ toL2' = [toL2 EXCEPT ![e] = NoMsg]
      /\ UNCHANGED <<l1Vars, toOutside, l2, transactionsFromInside>>
      /\ toL2[e] # NoMsg
  BY DEF ProcessRspFromL2
<1>3. q \in Req /\ q \in Msg /\ q \in Backed
  BY DEF TypeOK, TransOut, Msg, MemInv, RemoteShape
<1>4. /\ a.id = q.id /\ a.kind = "rsp" /\ a.dst = q.src
      /\ a \in Msg
  <2>1. q.src \in Engine /\ q.id \in ID
    BY <1>3 DEF Req
  <2> QED
    BY <2>1, BuildTypes DEF Answer, MkRsp, Msg
<1>5. /\ transactionsFromOutside'[e] = transactionsFromOutside[e] \ {trans}
      /\ \A f \in Engine \ {e} :
           transactionsFromOutside'[f] = transactionsFromOutside[f]
      /\ \A f \in Engine :
           transactionsFromOutside'[f] \subseteq transactionsFromOutside[f]
      /\ \A f \in Engine : toL2'[f] # NoMsg => f # e /\ toL2'[f] = toL2[f]
      /\ net' = net \cup {a}
  BY <1>1, <1>2 DEF TypeOK
<1>6. Backed' = Backed /\ Forwarded' = Forwarded
  BY <1>2 DEF Backed, Forwarded
<1>7. a \in Backed
  <2>1. PICK tr \in transactionsFromInside[q.src] : tr.toOutside = q
    BY <1>3 DEF Backed, Req
  <2> QED
    BY <1>4, <2>1 DEF Backed
<1> HIDE DEF a, q
<1>8. AskingInv' /\ AnsweredInv'
  BY <1>2, <1>6 DEF MemInv, AskingInv, AnsweredInv
<1>9. TableShape' /\ TableUnique'
  BY <1>2 DEF MemInv, TableShape, TableUnique
<1>10. /\ \A m \in net : m.id # a.id
       /\ \A f \in Engine : toOutside[f] # NoMsg => toOutside[f].id # a.id
  BY <1>4 DEF MemInv, RemoteAlone, q
<1>11. FlightInv'
  BY <1>2, <1>5, <1>6, <1>7, <1>10 DEF MemInv, FlightInv
<1>12. RemoteShape'
  BY <1>5, <1>6 DEF MemInv, RemoteShape
<1>13. RemoteAlone'
  <2>1. ASSUME NEW f \in Engine, NEW y \in transactionsFromOutside'[f]
        PROVE  y.fromOutside.id # a.id
    <3>1. y \in transactionsFromOutside[f] /\ (f = e => y # trans)
      BY <1>5
    <3> QED
      BY <1>4, <3>1 DEF MemInv, RemoteUnique, q
  <2> QED
    BY <1>2, <1>5, <2>1 DEF MemInv, RemoteAlone
<1>14. RemoteUnique'
  BY <1>5 DEF MemInv, RemoteUnique
<1>15. L2Inv'
  <2>1. ASSUME NEW m \in l2[e]
        PROVE  \E y \in transactionsFromOutside'[e] : y.toInside.id = m.id
    <3>1. m.id # toL2[e].id
      BY <1>2 DEF MemInv, L2Inv
    <3>2. PICK y \in transactionsFromOutside[e] : y.toInside.id = m.id
      BY DEF MemInv, L2Inv
    <3> QED
      BY <1>1, <1>5, <3>1, <3>2
  <2>2. ASSUME NEW f \in Engine \ {e}
        PROVE  transactionsFromOutside'[f] = transactionsFromOutside[f]
    BY <1>5
  <2> QED
    BY <1>2, <1>5, <2>1, <2>2 DEF MemInv, L2Inv
<1> QED
  BY <1>8, <1>9, <1>11, <1>12, <1>13, <1>14, <1>15 DEF MemInv

LEMMA DeliverStep ==
  ASSUME TypeOK, MemInv, NEW e \in Engine, NEW t \in Txn, Deliver(e, t)
  PROVE  MemInv'
<1>1. PICK m \in net : /\ m.dst = e
                       /\ net' = net \ {m}
                       /\ toOutside' = [toOutside EXCEPT ![e] = m]
  BY DEF Deliver
<1>2. /\ UNCHANGED <<l1Vars, l2Vars, tabVars>>
      /\ toOutside[e] = NoMsg
  BY DEF Deliver
<1>3. /\ toOutside'[e] = m
      /\ \A f \in Engine \ {e} : toOutside'[f] = toOutside[f]
  BY <1>1 DEF TypeOK
<1>4. Backed' = Backed /\ Forwarded' = Forwarded
  BY <1>2 DEF Backed, Forwarded
<1>5. AskingInv' /\ AnsweredInv'
  BY <1>2, <1>4 DEF MemInv, AskingInv, AnsweredInv
<1>6. TableShape' /\ TableUnique'
  BY <1>2 DEF MemInv, TableShape, TableUnique
<1>7. FlightInv'
  BY <1>1, <1>2, <1>3, <1>4 DEF MemInv, FlightInv
<1>8. RemoteShape' /\ RemoteUnique'
  BY <1>2, <1>4 DEF MemInv, RemoteShape, RemoteUnique
<1>9. RemoteAlone'
  BY <1>1, <1>2, <1>3 DEF MemInv, RemoteAlone
<1>10. L2Inv'
  BY <1>2 DEF MemInv, L2Inv
<1> QED
  BY <1>5, <1>6, <1>7, <1>8, <1>9, <1>10 DEF MemInv

LEMMA L2ReplyStep ==
  ASSUME TypeOK, MemInv, NEW e \in Engine, NEW t \in Txn, L2Reply(e, t)
  PROVE  MemInv'
<1>1. PICK m \in l2[e] : /\ l2' = [l2 EXCEPT ![e] = @ \ {m}]
                         /\ toL2' = [toL2 EXCEPT ![e] = MkRsp(m.id, e, e)]
  BY DEF L2Reply
<1>2. UNCHANGED <<l1Vars, netVars, tabVars>> /\ toL2[e] = NoMsg
  BY DEF L2Reply
<1>3. /\ toL2'[e].id = m.id
      /\ l2'[e] = l2[e] \ {m}
      /\ \A f \in Engine \ {e} : l2'[f] = l2[f] /\ toL2'[f] = toL2[f]
  BY <1>1 DEF TypeOK, MkRsp
<1>4. Backed' = Backed /\ Forwarded' = Forwarded
  BY <1>2 DEF Backed, Forwarded
<1>5. AskingInv' /\ AnsweredInv'
  BY <1>2, <1>4 DEF MemInv, AskingInv, AnsweredInv
<1>6. TableShape' /\ TableUnique'
  BY <1>2 DEF MemInv, TableShape, TableUnique
<1>7. FlightInv'
  BY <1>2, <1>4 DEF MemInv, FlightInv
<1>8. RemoteShape' /\ RemoteAlone' /\ RemoteUnique'
  BY <1>2, <1>4 DEF MemInv, RemoteShape, RemoteAlone, RemoteUnique
<1>9. L2Inv'
  BY <1>2, <1>3 DEF MemInv, L2Inv
<1> QED
  BY <1>5, <1>6, <1>7, <1>8, <1>9 DEF MemInv

LEMMA L1ReceiveStep ==
  ASSUME TypeOK, MemInv, NEW e \in Engine, NEW t \in Txn, L1Receive(e, t)
  PROVE  MemInv'
<1>1. PICK m \in l1Rsp[e] : /\ m.id[1] = t
                            /\ l1' = [l1 EXCEPT ![m.id[1]] = "idle"]
                            /\ l1Rsp' = [l1Rsp EXCEPT ![e] = @ \ {m}]
  BY DEF L1Receive
<1>2. UNCHANGED <<toL1, netVars, l2Vars, tabVars>>
  BY DEF L1Receive
<1>3. /\ m.id = <<t, "L1">> /\ Home[t] = e /\ t \notin Forwarded[e]
      /\ toL1[e] # NoMsg => toL1[e].id # m.id
      /\ \A n \in l1Rsp[e] : n.id = m.id => n = m
  BY <1>1 DEF MemInv, AnsweredInv
<1>4. /\ \A s \in Txn \ {t} : l1'[s] = l1[s]
      /\ l1Rsp'[e] = l1Rsp[e] \ {m}
      /\ \A f \in Engine \ {e} : l1Rsp'[f] = l1Rsp[f]
  BY <1>1 DEF TypeOK
<1>5. Backed' = Backed /\ Forwarded' = Forwarded
  BY <1>2 DEF Backed, Forwarded
<1>6. AskingInv'
  BY <1>2, <1>3, <1>4, <1>5 DEF MemInv, AskingInv
<1>7. AnsweredInv'
  BY <1>2, <1>3, <1>4, <1>5 DEF MemInv, AnsweredInv
<1>8. TableShape'
  <2>1. ASSUME NEW f \in Engine, NEW tr \in transactionsFromInside[f]
        PROVE  tr.fromInside.id # <<t, "L1">>
    BY <1>3, TableFields DEF MemInv
  <2> QED
    BY <1>2, <1>4, <2>1 DEF MemInv, TableShape
<1>9. TableUnique'
  BY <1>2 DEF MemInv, TableUnique
<1>10. FlightInv'
  BY <1>2, <1>5 DEF MemInv, FlightInv
<1>11. RemoteShape' /\ RemoteAlone' /\ RemoteUnique'
  BY <1>2, <1>5 DEF MemInv, RemoteShape, RemoteAlone, RemoteUnique
<1>12. L2Inv'
  BY <1>2 DEF MemInv, L2Inv
<1> QED
  BY <1>6, <1>7, <1>8, <1>9, <1>10, <1>11, <1>12 DEF MemInv

LEMMA L1IssueStep ==
  ASSUME TypeOK, MemInv, NEW t \in Txn, L1Issue(t)
  PROVE  MemInv'
<1> DEFINE e == Home[t]
           r == MkReq(<<t, "L1">>, e, e)
<1>1. /\ l1[t] = "idle" /\ toL1[e] = NoMsg
      /\ l1' = [l1 EXCEPT ![t] = "waiting"]
      /\ toL1' = [toL1 EXCEPT ![e] = r]
      /\ UNCHANGED <<l1Rsp, netVars, l2Vars, tabVars>>
  BY DEF L1Issue
<1>2. e \in Engine /\ r.id = <<t, "L1">> /\ r.src = e
  BY HomeAssumption DEF MkReq
<1> HIDE DEF r
<1>3. /\ \A s \in Txn \ {t} : l1'[s] = l1[s]
      /\ l1'[t] = "waiting"
      /\ toL1'[e] = r
      /\ \A f \in Engine \ {e} : toL1'[f] = toL1[f]
  BY <1>1, <1>2 DEF TypeOK
<1>4. Backed' = Backed /\ Forwarded' = Forwarded
  BY <1>1 DEF Backed, Forwarded
<1>5. t \notin Forwarded[e]
  <2>1. ASSUME NEW tr \in transactionsFromInside[e]
        PROVE  tr.fromInside.id[1] # t
    BY <1>1, <1>2, <2>1, TableFields DEF MemInv
  <2> QED
    BY <1>2, <2>1 DEF Forwarded
<1>6. AskingInv'
  BY <1>1, <1>2, <1>3, <1>4, <1>5 DEF MemInv, AskingInv
<1>7. AnsweredInv'
  <2>1. ASSUME NEW f \in Engine, NEW m \in l1Rsp[f]
        PROVE  m.id # <<t, "L1">>
    BY <1>1 DEF MemInv, AnsweredInv
  <2> QED
    BY <1>1, <1>2, <1>3, <1>4, <2>1 DEF MemInv, AnsweredInv
<1>8. TableShape'
  BY <1>1, <1>3 DEF MemInv, TableShape
<1>9. TableUnique'
  BY <1>1 DEF MemInv, TableUnique
<1>10. FlightInv'
  BY <1>1, <1>4 DEF MemInv, FlightInv
<1>11. RemoteShape' /\ RemoteAlone' /\ RemoteUnique'
  BY <1>1, <1>4 DEF MemInv, RemoteShape, RemoteAlone, RemoteUnique
<1>12. L2Inv'
  BY <1>1 DEF MemInv, L2Inv
<1> QED
  BY <1>6, <1>7, <1>8, <1>9, <1>10, <1>11, <1>12 DEF MemInv

\* The control messages and the agent touch no request or response.
LEMMA MemFrame ==
  ASSUME MemInv, UNCHANGED <<l1Vars, netVars, l2Vars, tabVars>>
  PROVE  MemInv'
<1>1. Backed' = Backed /\ Forwarded' = Forwarded
  BY DEF Backed, Forwarded
<1>2. AskingInv' /\ AnsweredInv'
  BY <1>1 DEF MemInv, AskingInv, AnsweredInv
<1>3. TableShape' /\ TableUnique'
  BY DEF MemInv, TableShape, TableUnique
<1>4. FlightInv'
  BY <1>1 DEF MemInv, FlightInv
<1>5. RemoteShape' /\ RemoteAlone' /\ RemoteUnique'
  BY <1>1 DEF MemInv, RemoteShape, RemoteAlone, RemoteUnique
<1>6. L2Inv'
  BY DEF MemInv, L2Inv
<1> QED
  BY <1>2, <1>3, <1>4, <1>5, <1>6 DEF MemInv

LEMMA MemStep == TypeOK /\ MemInv /\ [Next]_vars => MemInv'
<1> SUFFICES ASSUME TypeOK, MemInv, [Next]_vars
             PROVE  MemInv'
  OBVIOUS
<1>1. ASSUME NEW e \in Engine, EngineStep(e)
      PROVE  MemInv'
  <2>1. CASE ProcessDrainReq(e)
    BY <2>1, MemFrame DEF ProcessDrainReq
  <2>2. CASE ProcessRDMARestartReq(e)
    BY <2>2, MemFrame DEF ProcessRDMARestartReq
  <2>3. CASE DrainRDMA(e)
    BY <2>3, MemFrame DEF DrainRDMA
  <2> QED
    BY <1>1, <2>1, <2>2, <2>3, ProcessReqFromL1Step, ProcessRspFromL2Step,
       ProcessReqFromOutsideStep, ProcessRspFromOutsideStep DEF EngineStep
<1>2. ASSUME NEW e \in Engine, NEW t \in Txn, MemoryStep(e, t)
      PROVE  MemInv'
  BY <1>2, L1ReceiveStep, DeliverStep, L2ReplyStep DEF MemoryStep
<1>3. ASSUME NEW e \in Engine, Ask(e) \/ Ack(e)
      PROVE  MemInv'
  BY <1>3, MemFrame DEF Ask, Ack
<1>4. CASE InitiateDrain \/ InitiateRestart
  BY <1>4, MemFrame DEF InitiateDrain, InitiateRestart
<1>5. CASE UNCHANGED vars
  BY <1>5, MemFrame DEF vars
<1> QED
  BY <1>1, <1>2, <1>3, <1>4, <1>5, L1IssueStep DEF Next

-----------------------------------------------------------------------------
(* The safety properties, for every number of engines and requests.        *)

LEMMA Invariant == Spec => [](TypeOK /\ IInv)
<1>1. Init => TypeOK /\ IInv
  BY InitTypeOK, InitIInv
<1>2. TypeOK /\ IInv /\ [Next]_vars => (TypeOK /\ IInv)'
  BY NextTypeOK, AgentStep, MemStep DEF IInv
<1> QED
  BY <1>1, <1>2, PTL DEF Spec

LEMMA IInvQuiescent == TypeOK /\ IInv => Quiescent
<1> SUFFICES ASSUME TypeOK, IInv, phase = "quiet"
             PROVE  /\ net = {}
                    /\ \A e \in Engine :
                         /\ toOutside[e] = NoMsg /\ toL2[e] = NoMsg
                         /\ l2[e] = {} /\ FullyDrained(e)
  BY DEF Quiescent
<1>1. \A e \in Engine : transactionsFromInside[e] = {}
  BY DEF IInv, AgentInv, DrainedSide
<1>2. Backed = {}
  <2> SUFFICES ASSUME NEW m \in Backed PROVE FALSE
    OBVIOUS
  <2>1. m.src \in Engine /\ m.dst \in Engine
    BY DEF Backed, Msg, Req, Rsp
  <2> QED
    BY <1>1, <2>1 DEF Backed
<1>3. net = {} /\ \A e \in Engine : toOutside[e] = NoMsg
  BY <1>2 DEF IInv, MemInv, FlightInv
<1>4. \A e \in Engine : transactionsFromOutside[e] = {}
  BY <1>2 DEF IInv, MemInv, RemoteShape
<1>5. \A e \in Engine : l2[e] = {} /\ toL2[e] = NoMsg
  BY <1>4 DEF IInv, MemInv, L2Inv
<1> QED
  BY <1>1, <1>3, <1>4, <1>5 DEF FullyDrained

\* Once every engine acknowledged its drain nothing is left of any remote
\* access, in any table, port, cache or network, until the restart.
THEOREM DrainIsGlobal == Spec => []Quiescent
  BY Invariant, IInvQuiescent, PTL

LEMMA IInvNoLost == TypeOK /\ IInv => NoLostTransaction
<1> SUFFICES ASSUME TypeOK, IInv, NEW e \in Engine
             PROVE  /\ toL2[e] # NoMsg =>
                         \E tr \in transactionsFromOutside[e] :
                           tr.toInside.id = toL2[e].id
                    /\ (toOutside[e] # NoMsg /\ toOutside[e].kind = "rsp") =>
                         \E tr \in transactionsFromInside[e] :
                           tr.toOutside.id = toOutside[e].id
  BY DEF NoLostTransaction
<1>1. toL2[e] # NoMsg =>
        \E tr \in transactionsFromOutside[e] : tr.toInside.id = toL2[e].id
  BY DEF IInv, MemInv, L2Inv
<1>2. ASSUME toOutside[e] # NoMsg, toOutside[e].kind = "rsp"
      PROVE  \E tr \in transactionsFromInside[e] :
               tr.toOutside.id = toOutside[e].id
  <2>1. toOutside[e] \in Backed /\ toOutside[e].dst = e
    BY <1>2 DEF IInv, MemInv, FlightInv
  <2> QED
    BY <1>2, <2>1 DEF Backed
<1> QED
  BY <1>1, <1>2

\* No response ever arrives for which the engine has no transaction.
THEOREM ResponsesFindTheirTransaction == Spec => []NoLostTransaction
  BY Invariant, IInvNoLost, PTL

LEMMA IInvAnswered == TypeOK /\ IInv => AnsweredOnce
<1> SUFFICES ASSUME TypeOK, IInv, NEW e \in Engine, NEW m \in l1Rsp[e]
             PROVE  /\ m.id = <<m.id[1], "L1">>
                    /\ Home[m.id[1]] = e
                    /\ l1[m.id[1]] = "waiting"
                    /\ m.id[1] \notin Forwarded[e]
                    /\ \A n \in l1Rsp[e] \ {m} : n.id # m.id
  BY DEF AnsweredOnce
<1>1. PICK t \in Txn : /\ m.id = <<t, "L1">>
                       /\ Home[t] = e /\ l1[t] = "waiting"
                       /\ t \notin Forwarded[e]
  BY DEF IInv, MemInv, AnsweredInv
<1>2. \A n \in l1Rsp[e] : n.id = m.id => n = m
  BY DEF IInv, MemInv, AnsweredInv
<1> QED
  BY <1>1, <1>2

\* Every response reaches the L1 that asked, once, under its own identifier.
THEOREM ResponsesAnswerOnce == Spec => []AnsweredOnce
  BY Invariant, IInvAnswered, PTL

LEMMA IInvRestart == TypeOK /\ IInv => RestartCanBeAnswered
  BY NoMsgAssumption
     DEF TypeOK, IInv, AgentInv, DrainedSide, RestartCanBeAnswered

\* A restart always finds the control port free and a drain to answer.
THEOREM RestartIsNeverLost == Spec => []RestartCanBeAnswered
  BY Invariant, IInvRestart, PTL

\* What a step adds to the network: a request of an engine that is not
\* paused, or a response.
LEMMA StepSends ==
  ASSUME TypeOK, [Next]_vars, NEW m \in net' \ net
  PROVE  \/ m.kind = "rsp"
         \/ m.src \in Engine /\ ~ pauseIncomingReqsFromL1[m.src]
<1>1. ASSUME NEW e \in Engine, EngineStep(e)
      PROVE  \/ m.kind = "rsp"
             \/ m.src \in Engine /\ ~ pauseIncomingReqsFromL1[m.src]
  <2>1. CASE ProcessReqFromL1(e)
    BY <2>1 DEF ProcessReqFromL1, MkReq
  <2>2. CASE ProcessRspFromL2(e)
    BY <2>2 DEF ProcessRspFromL2, Answer, MkRsp
  <2>3. CASE net' = net
    BY <2>3
  <2> QED
    BY <1>1, <2>1, <2>2, <2>3
       DEF EngineStep, ProcessDrainReq, ProcessRDMARestartReq, DrainRDMA,
           ProcessReqFromOutside, ProcessRspFromOutside
<1>2. ASSUME NEW e \in Engine, NEW t \in Txn, MemoryStep(e, t)
      PROVE  FALSE
  BY <1>2 DEF MemoryStep, L1Receive, Deliver, L2Reply
<1>3. CASE net' = net
  BY <1>3
<1> QED
  BY <1>1, <1>2, <1>3
     DEF Next, Ask, Ack, L1Issue, InitiateDrain, InitiateRestart, vars

\* No request leaves a drained engine before its own restart.
THEOREM NothingLeaves == Spec => NothingLeavesWhileQuiet
<1>1. TypeOK /\ IInv /\ [Next]_vars =>
        [\A e \in Engine :
           (phase = "quiet" \/ (phase = "restart" /\ e \notin asked)) =>
             \A m \in net' \ net : m.src # e \/ m.kind = "rsp"]_vars
  <2> SUFFICES ASSUME TypeOK, IInv, [Next]_vars, NEW e \in Engine,
                      phase = "quiet" \/ (phase = "restart" /\ e \notin asked),
                      NEW m \in net' \ net
               PROVE  m.src # e \/ m.kind = "rsp"
    OBVIOUS
  <2>1. pauseIncomingReqsFromL1[e]
    BY DEF IInv, AgentInv, DrainedSide
  <2> QED
    BY <2>1, StepSends
<1> QED
  BY <1>1, Invariant, PTL DEF Spec, NothingLeavesWhileQuiet
=============================================================================
