----------------------- MODULE CommandProcessorProofs -----------------------
(***************************************************************************)
(* Proofs about the command processor of a GPU and its DMA engine, for     *)
(* every number of units, dispatchers, queues, migrations and copies.      *)
(*                                                                         *)
(* First: the stages of a stop and of a restart of the GPU come in their   *)
(* order, if the driver does not flush while it stops or restarts it.  The *)
(* invariant says which orders are under way.  At any moment they are all  *)
(* for one kind of unit, each unit has at most one, and the counter of the *)
(* stage is how many; so the step that brings a counter to zero finds      *)
(* every unit done.                                                        *)
(*                                                                         *)
(* Then the copies.  The pieces that a copy is cut into cover it and do    *)
(* not meet; a launch or a copy is in one place, and its queue waits for   *)
(* it alone; so the memory and the buffer of the queue hold at any moment  *)
(* what the answered pieces brought, and a copy ends exact.  And its queue *)
(* has nothing left in a cache, since the flush before it is taken first.  *)
(***************************************************************************)
EXTENDS CommandProcessor, SequenceTheorems, FiniteSetTheorems, WellFoundedInduction, TLAPS

-----------------------------------------------------------------------------
(* The invariant.                                                          *)

MigKind == {"drain", "shootdown", "migrate", "restart", "rdmaRestart"}
Flush(q) == [kind |-> "flush", queue |-> q]
Control(r) == r.kind \in MigKind \cup {"flush"}

In(r, s) == \E i \in DOMAIN s : s[i] = r
Once(s) == \A i, j \in DOMAIN s : Control(s[i]) /\ s[i] = s[j] => i = j

Asked(r) == In(r, ToDriver)
Told(r) == In(r, toDriverSender)
Relaying(kind) == <<kind, "down">> \in relay \/ <<kind, "up">> \in relay

CPType ==
  /\ ToDriver \in Seq(Request) /\ toDriverSender \in Seq(Request)
  /\ waitsFor \in [Queue -> SUBSET Request]
  /\ mode \in [Unit -> {"run", "stopped"}]
  /\ relay \subseteq Relayed \X {"down", "up"}
  /\ currFlushRequest \in {Flush(q) : q \in Queue} \cup {None}
  /\ bottomMemCopy \subseteq Copies

\* A command of the migration procedure is in one place, and is the one the
\* procedure waits for.
PlaceInv ==
  /\ Once(ToDriver) /\ Once(toDriverSender)
  /\ \A k \in MigKind :
       /\ Asked(Alone(k)) \/ Told(Alone(k)) \/ Relaying(k) => migration = k
       /\ ~ (Asked(Alone(k)) /\ Told(Alone(k)))
       /\ ~ (Asked(Alone(k)) /\ Relaying(k))
       /\ ~ (Told(Alone(k)) /\ Relaying(k))
       /\ ~ (<<k, "down">> \in relay /\ <<k, "up">> \in relay)

\* So is a flush, and its queue waits for it.
FlushInv ==
  \A q \in Queue :
    /\ Asked(Flush(q)) \/ Told(Flush(q)) \/ currFlushRequest = Flush(q)
         => Flush(q) \in waitsFor[q]
    /\ ~ (Asked(Flush(q)) /\ Told(Flush(q)))
    /\ ~ (Asked(Flush(q)) /\ currFlushRequest = Flush(q))
    /\ ~ (Told(Flush(q)) /\ currFlushRequest = Flush(q))

\* All the orders under way are for these units, and n of them are missing.
Pending == sent \cup acked
Waiting(units, order) == {u \in units : <<u, order>> \in Pending}
Round(units, order, n) ==
  /\ Pending \subseteq units \X {order}
  /\ sent \cap acked = {}
  /\ n = Cardinality(Waiting(units, order))

Are(units, m) == \A u \in units : mode[u] = m
Stage(units, order, n, from, to) ==
  /\ Round(units, order, n) /\ n # 0
  /\ \A u \in units : mode[u] = IF <<u, order>> \in sent THEN from ELSE to
  /\ currFlushRequest = None

Counters == <<numCUAck, numAddrTranslationFlushAck,
              numAddrTranslationRestartAck, numTLBAck, numCacheACK>>

\* Nothing but a flush is under way.
Resting(m) ==
  /\ Are(Unit, m)
  /\ Round(Cache, "flush", numCacheACK)
  /\ Counters = <<0, 0, 0, 0, numCacheACK>>
  /\ numCacheACK # 0 <=> currFlushRequest # None
  /\ ~ shootDownInProcess

CUStop ==
  /\ Stage(CU, "stop", numCUAck, "run", "stopped")
  /\ Are(AT \cup Cache \cup TLB, "run")
  /\ Counters = <<numCUAck, 0, 0, 0, 0>> /\ shootDownInProcess
ATStop ==
  /\ Stage(AT, "stop", numAddrTranslationFlushAck, "run", "stopped")
  /\ Are(CU, "stopped") /\ Are(Cache \cup TLB, "run")
  /\ Counters = <<0, numAddrTranslationFlushAck, 0, 0, 0>> /\ shootDownInProcess
CacheStop ==
  /\ Stage(Cache, "stop", numCacheACK, "run", "stopped")
  /\ Are(CU \cup AT, "stopped") /\ Are(TLB, "run")
  /\ Counters = <<0, 0, 0, 0, numCacheACK>> /\ shootDownInProcess
TLBStop ==
  /\ Stage(TLB, "stop", numTLBAck, "run", "stopped")
  /\ Are(CU \cup AT \cup Cache, "stopped")
  /\ Counters = <<0, 0, 0, numTLBAck, 0>> /\ shootDownInProcess

CacheRestart ==
  /\ Stage(Cache, "restart", numCacheACK, "stopped", "run")
  /\ Are(CU \cup AT \cup TLB, "stopped")
  /\ Counters = <<0, 0, 0, 0, numCacheACK>> /\ ~ shootDownInProcess
TLBRestart ==
  /\ Stage(TLB, "restart", numTLBAck, "stopped", "run")
  /\ Are(CU \cup AT, "stopped") /\ Are(Cache, "run")
  /\ Counters = <<0, 0, 0, numTLBAck, 0>> /\ ~ shootDownInProcess
ATRestart ==
  /\ Stage(AT, "restart", numAddrTranslationRestartAck, "stopped", "run")
  /\ Are(CU, "stopped") /\ Are(Cache \cup TLB, "run")
  /\ Counters = <<0, 0, numAddrTranslationRestartAck, 0, 0>> /\ ~ shootDownInProcess
CURestart ==
  /\ Stage(CU, "restart", numCUAck, "stopped", "run")
  /\ Are(AT \cup Cache \cup TLB, "run")
  /\ Counters = <<numCUAck, 0, 0, 0, 0>> /\ ~ shootDownInProcess

Stop == CUStop \/ ATStop \/ CacheStop \/ TLBStop
Restart == CacheRestart \/ TLBRestart \/ ATRestart \/ CURestart

\* A round through the stages, from where the command is asked to its answer.
Through(kind, from, stages, to) ==
  /\ ~ Flushing
  /\ \/ Asked(Alone(kind)) /\ ~ Told(Alone(kind)) /\ Resting(from)
     \/ ~ Asked(Alone(kind)) /\ ~ Told(Alone(kind)) /\ stages
     \/ ~ Asked(Alone(kind)) /\ Told(Alone(kind)) /\ Resting(to)

PhaseInv ==
  \/ migration \in {"none", "drain", "drained", "restarted", "rdmaRestart"} /\ Resting("run")
  \/ migration \in {"shot", "migrate", "migrated"} /\ ~ shot /\ Resting("run")
  \/ migration \in {"shot", "migrate", "migrated"} /\ shot /\ Resting("stopped")
  \/ migration = "shootdown" /\ shot /\ Through("shootdown", "run", Stop, "stopped")
  \/ migration = "restart" /\ shot /\ Through("restart", "stopped", Restart, "run")

IInv == ~ Overlap /\ CPType /\ PlaceInv /\ FlushInv /\ PhaseInv

-----------------------------------------------------------------------------
(* Sequences of requests.                                                  *)

\* The elements of a sequence that is one after another.
LEMMA ConcatIn ==
  ASSUME NEW S, NEW s \in Seq(S), NEW t \in Seq(S)
  PROVE  /\ s \o t \in Seq(S)
         /\ \A r : In(r, s \o t) <=> In(r, s) \/ In(r, t)
         /\ Once(s) /\ Once(t) /\ (\A r : Control(r) => ~ (In(r, s) /\ In(r, t)))
              => Once(s \o t)
<1> DEFINE u == s \o t
           m == Len(s)
           n == Len(t)
<1>1. /\ m \in Nat /\ n \in Nat /\ u \in Seq(S) /\ Len(u) = m + n
      /\ \A i \in 1 .. m + n : u[i] = IF i <= m THEN s[i] ELSE t[i - m]
      /\ DOMAIN s = 1 .. m /\ DOMAIN t = 1 .. n
  BY ConcatProperties, LenProperties
<1>2. DOMAIN u = 1 .. m + n
  BY <1>1, LenProperties
<1> HIDE DEF u, m, n
<1>3. /\ \A i \in DOMAIN s : i \in DOMAIN u /\ i <= m /\ u[i] = s[i]
      /\ \A i \in DOMAIN t : m + i \in DOMAIN u /\ u[m + i] = t[i]
  <2> SUFFICES ASSUME NEW i \in DOMAIN t
               PROVE  m + i \in DOMAIN u /\ u[m + i] = t[i]
    BY <1>1, <1>2
  <2>1. m + i \in 1 .. m + n /\ ~ (m + i <= m) /\ (m + i) - m = i
    BY <1>1
  <2> QED  BY <1>1, <1>2, <2>1
<1>4. \A i \in DOMAIN u : \/ i \in DOMAIN s /\ i <= m /\ u[i] = s[i]
                          \/ ~ (i <= m) /\ i - m \in DOMAIN t /\ u[i] = t[i - m]
  BY <1>1, <1>2
<1>5. \A r : In(r, u) <=> In(r, s) \/ In(r, t)
  BY <1>3, <1>4 DEF In
<1>6. ASSUME Once(s), Once(t), \A r : Control(r) => ~ (In(r, s) /\ In(r, t))
      PROVE  Once(u)
  <2> SUFFICES ASSUME NEW i \in DOMAIN u, NEW j \in DOMAIN u, Control(u[i]), u[i] = u[j]
               PROVE  i = j
    BY DEF Once
  <2>1. CASE i <= m /\ j <= m
    BY <1>4, <1>6, <2>1 DEF Once
  <2>2. CASE ~ (i <= m) /\ ~ (j <= m)
    <3>1. i - m = j - m
      BY <1>4, <1>6, <2>2 DEF Once
    <3> QED  BY <1>1, <1>2, <3>1
  <2>3. CASE i <= m /\ ~ (j <= m)
    BY <1>4, <1>6, <2>3 DEF In
  <2>4. CASE ~ (i <= m) /\ j <= m
    BY <1>4, <1>6, <2>4 DEF In
  <2> QED  BY <2>1, <2>2, <2>3, <2>4
<1> QED  BY <1>1, <1>5, <1>6 DEF u

\* A sequence of one request.
LEMMA SingleIn ==
  ASSUME NEW S, NEW e \in S
  PROVE  <<e>> \in Seq(S) /\ (\A r : In(r, <<e>>) <=> r = e) /\ Once(<<e>>)
<1>1. <<e>> \in Seq(S) /\ DOMAIN <<e>> = {1} /\ <<e>>[1] = e
  OBVIOUS
<1> QED  BY <1>1 DEF In, Once

\* One more request.
LEMMA AppendIn ==
  ASSUME NEW S, NEW s \in Seq(S), NEW e \in S
  PROVE  /\ Append(s, e) \in Seq(S)
         /\ \A r : In(r, Append(s, e)) <=> In(r, s) \/ r = e
         /\ Once(s) /\ (Control(e) => ~ In(e, s)) => Once(Append(s, e))
<1>1. Append(s, e) = s \o <<e>>
  BY AppendIsConcat
<1> DEFINE t == <<e>>
<1>2. t \in Seq(S) /\ (\A r : In(r, t) <=> r = e) /\ Once(t)
  BY SingleIn
<1> HIDE DEF t
<1>3. /\ s \o t \in Seq(S)
      /\ \A r : In(r, s \o t) <=> In(r, s) \/ In(r, t)
      /\ Once(s) /\ (Control(e) => ~ In(e, s)) => Once(s \o t)
  BY <1>2, ConcatIn
<1>4. \A r : In(r, s \o t) <=> In(r, s) \/ r = e
  BY <1>2, <1>3
<1> QED  BY <1>1, <1>3, <1>4 DEF t

\* The first request is taken.
LEMMA TailIn ==
  ASSUME NEW S, NEW s \in Seq(S), s # <<>>, Once(s)
  PROVE  /\ Head(s) \in S /\ In(Head(s), s) /\ Tail(s) \in Seq(S) /\ Once(Tail(s))
         /\ \A r : Control(r) => (In(r, Tail(s)) <=> In(r, s) /\ r # Head(s))
<1> DEFINE t == Tail(s)
           h == Head(s)
           n == Len(s)
<1>1. /\ n \in Nat /\ n # 0 /\ DOMAIN s = 1 .. n
  BY LenProperties, EmptySeq
<1>2. /\ h \in S /\ h = s[1] /\ t \in Seq(S) /\ Len(t) = n - 1
      /\ \A i \in 1 .. (n - 1) : t[i] = s[i + 1]
  BY HeadTailProperties
<1>3. DOMAIN t = 1 .. (n - 1)
  BY <1>2, LenProperties
<1> HIDE DEF t, h, n
<1>4. 1 \in DOMAIN s
  BY <1>1
<1>5. \A i \in DOMAIN t : i \in Nat /\ i + 1 \in DOMAIN s /\ i + 1 # 1 /\ t[i] = s[i + 1]
  BY <1>1, <1>2, <1>3
<1>6. \A i \in DOMAIN s : i = 1 \/ (i - 1 \in DOMAIN t /\ t[i - 1] = s[i])
  <2> SUFFICES ASSUME NEW i \in DOMAIN s, i # 1
               PROVE  i - 1 \in DOMAIN t /\ t[i - 1] = s[i]
    OBVIOUS
  <2>1. i - 1 \in 1 .. (n - 1) /\ (i - 1) + 1 = i
    BY <1>1
  <2> QED  BY <1>2, <1>3, <2>1
<1>7. Once(t)
  <2> SUFFICES ASSUME NEW i \in DOMAIN t, NEW j \in DOMAIN t, Control(t[i]), t[i] = t[j]
               PROVE  i = j
    BY DEF Once
  <2>1. i + 1 = j + 1
    BY <1>5 DEF Once
  <2> QED  BY <1>5, <2>1
<1>8. \A r : Control(r) => (In(r, t) <=> In(r, s) /\ r # h)
  <2> SUFFICES ASSUME NEW r, Control(r)  PROVE In(r, t) <=> In(r, s) /\ r # h
    OBVIOUS
  <2>1. In(r, t) => In(r, s) /\ r # h
    BY <1>2, <1>4, <1>5 DEF In, Once
  <2>2. In(r, s) /\ r # h => In(r, t)
    BY <1>2, <1>6 DEF In
  <2> QED  BY <2>1, <2>2
<1>9. In(h, s)
  BY <1>2, <1>4 DEF In
<1> QED  BY <1>2, <1>7, <1>8, <1>9 DEF t, h

\* A request of the migration procedure has nothing but its kind, and a flush
\* its queue.
LEMMA RequestKinds ==
  /\ \A r \in Request : r.kind \in MigKind => r = Alone(r.kind)
  /\ \A r \in Request : r.kind = "flush" => \E q \in Queue : r = Flush(q)
  /\ \A k \in MigKind : Alone(k) \in Request /\ Alone(k).kind = k /\ Control(Alone(k))
  /\ \A q \in Queue : /\ Flush(q) \in Request /\ Flush(q).kind = "flush"
                      /\ Flush(q).queue = q /\ Control(Flush(q)) /\ Flush(q) # None
  /\ \A k, l \in MigKind : Alone(k) = Alone(l) => k = l
  /\ \A p, q \in Queue : Flush(p) = Flush(q) => p = q
  /\ \A k \in MigKind, q \in Queue : Alone(k) # Flush(q)
<1> USE DEF Request, MigKind, Alone, Flush, Control
<1>1. \A r \in Request : r.kind \in MigKind => r = Alone(r.kind)
  OBVIOUS
<1>2. \A r \in Request : r.kind = "flush" => \E q \in Queue : r = Flush(q)
  <2> SUFFICES ASSUME NEW r \in Request, r.kind = "flush"
               PROVE  r.queue \in Queue /\ r = Flush(r.queue)
    OBVIOUS
  <2> QED  OBVIOUS
<1>3. \A k \in MigKind : Alone(k) \in Request /\ Alone(k).kind = k /\ Control(Alone(k))
  OBVIOUS
<1>4. \A q \in Queue : /\ Flush(q) \in Request /\ Flush(q).kind = "flush"
                      /\ Flush(q).queue = q /\ Control(Flush(q))
  OBVIOUS
<1>5. \A q \in Queue : Flush(q) # None
  BY <1>4, NoneAssumption
<1>6. \A k, l \in MigKind : Alone(k) = Alone(l) => k = l
  BY <1>3
<1>7. \A p, q \in Queue : Flush(p) = Flush(q) => p = q
  BY <1>4
<1>8. \A k \in MigKind, q \in Queue : Alone(k) # Flush(q)
  <2> SUFFICES ASSUME NEW k \in MigKind, NEW q \in Queue, Alone(k) = Flush(q)  PROVE FALSE
    OBVIOUS
  <2>1. k = "flush"
    BY <1>3, <1>4
  <2> QED  BY <2>1
<1> QED  BY <1>1, <1>2, <1>3, <1>4, <1>5, <1>6, <1>7, <1>8

-----------------------------------------------------------------------------
(* Rounds of orders.                                                       *)

LEMMA FiniteUnits ==
  ASSUME NEW units \in SUBSET Unit
  PROVE  /\ IsFiniteSet(units) /\ Cardinality(units) \in Nat
         /\ Cardinality(units) = 0 <=> units = {}
BY UnitAssumption, FS_Subset, FS_CardinalityType, FS_EmptySet

\* A new round begins when nothing is under way.
LEMMA RoundBegins ==
  ASSUME NEW units \in SUBSET Unit, units # {}, NEW order,
         sent \cup acked' = {}, Tell(units, order)
  PROVE  Round(units, order, Cardinality(units))' /\ Cardinality(units) # 0
         /\ sent' = units \X {order}
<1>1. sent' = units \X {order} /\ acked' = {}
  BY DEF Tell, Orders
<1>2. Waiting(units, order)' = units /\ Pending' = units \X {order}
  BY <1>1 DEF Waiting, Pending
<1> QED  BY <1>1, <1>2, FiniteUnits DEF Round

\* An acknowledgement ends its part of a round, and the last one all of it.
LEMMA RoundGoesOn ==
  ASSUME NEW units \in SUBSET Unit, NEW order, NEW n, Round(units, order, n),
         NEW u \in units, <<u, order>> \in acked, acked' = acked \ {<<u, order>>}
  PROVE  /\ n \in Nat /\ n # 0
         /\ n - 1 = 0 <=> sent \cup acked' = {}
         /\ sent' = sent => Round(units, order, n - 1)'
<1> DEFINE W == Waiting(units, order)
           V == {v \in units : <<v, order>> \in sent \cup acked'}
<1>1. W \in SUBSET Unit /\ u \in W /\ V = W \ {u} /\ V \in SUBSET Unit
  BY DEF Waiting, Pending, Round
<1>2. /\ sent \cup acked' \subseteq units \X {order} /\ sent \cap acked' = {}
      /\ n = Cardinality(W)
  BY DEF Round, Pending
<1>3. sent \cup acked' = {} <=> V = {}
  BY <1>2
<1> HIDE DEF W, V
<1>4. n \in Nat /\ n # 0
  BY <1>1, <1>2, FiniteUnits
<1>5. Cardinality(V) = n - 1
  BY <1>1, <1>2, FiniteUnits, FS_RemoveElement
<1>6. Cardinality(V) = 0 <=> V = {}
  BY <1>1, FiniteUnits
<1>7. ASSUME sent' = sent  PROVE Round(units, order, n - 1)'
  <2>1. Pending' = sent \cup acked' /\ Waiting(units, order)' = V
    BY <1>7 DEF Pending, Waiting, V
  <2> QED  BY <1>2, <1>5, <1>7, <2>1 DEF Round
<1> QED  BY <1>3, <1>4, <1>5, <1>6, <1>7

\* A round in which nothing is missing has nothing under way.
LEMMA RoundOver ==
  ASSUME NEW units \in SUBSET Unit, NEW order, NEW n, Round(units, order, n)
  PROVE  n \in Nat /\ (n = 0 <=> Pending = {})
<1>1. Waiting(units, order) \in SUBSET Unit /\ (Waiting(units, order) = {} <=> Pending = {})
  BY DEF Waiting, Round
<1> QED  BY <1>1, FiniteUnits DEF Round

\* A unit that obeys stays in the round.
LEMMA RoundObeys ==
  ASSUME NEW units, NEW order, NEW n, Round(units, order, n), NEW o \in sent,
         sent' = sent \ {o}, acked' = acked \cup {o}
  PROVE  Round(units, order, n)'
<1>1. Pending' = Pending
  BY DEF Pending
<1> QED  BY <1>1 DEF Round, Waiting

-----------------------------------------------------------------------------
(* Steps and what they leave alone.                                        *)

unitState == <<mode, sent, acked, cntVars, shootDownInProcess, currFlushRequest>>

\* The stage is known from the units and the counters.
LEMMA SameUnits ==
  ASSUME UNCHANGED unitState
  PROVE  /\ Resting("run")' <=> Resting("run")
         /\ Resting("stopped")' <=> Resting("stopped")
         /\ Stop' <=> Stop
         /\ Restart' <=> Restart
<1> USE DEF unitState, cntVars, Round, Stage, Are, Waiting, Pending, Counters
<1>1. /\ Resting("run")' <=> Resting("run")
      /\ Resting("stopped")' <=> Resting("stopped")
  BY DEF Resting
<1>2. Stop' <=> Stop
  BY DEF Stop, CUStop, ATStop, CacheStop, TLBStop
<1>3. Restart' <=> Restart
  BY DEF Restart, CURestart, ATRestart, CacheRestart, TLBRestart
<1> QED  BY <1>1, <1>2, <1>3

\* A step that has no part in the stages.
LEMMA QuietStep ==
  ASSUME PhaseInv, UNCHANGED <<unitState, migration, shot>>,
         migration \in {"shootdown", "restart"} /\ Flushing' => Flushing,
         \A k \in {"shootdown", "restart"} :
           (Asked(Alone(k))' <=> Asked(Alone(k))) /\ (Told(Alone(k))' <=> Told(Alone(k)))
  PROVE  PhaseInv'
BY SameUnits DEF PhaseInv, Through

\* A flush under way is one its queue waits for.
LEMMA NoFlush ==
  ASSUME CPType, FlushInv, ~ Flushing
  PROVE  /\ currFlushRequest = None
         /\ \A q \in Queue : ~ Asked(Flush(q)) /\ ~ Told(Flush(q))
BY RequestKinds DEF CPType, FlushInv, Flushing, Flush

\* A step of no consequence to flushes and migrations.
LEMMA AsideStep ==
  ASSUME IInv,
         Once(ToDriver)', Once(toDriverSender)',
         \A x : Control(x) => (Asked(x)' <=> Asked(x)) /\ (Told(x)' <=> Told(x)),
         \A q \in Queue : Flush(q) \in waitsFor'[q] <=> Flush(q) \in waitsFor[q],
         UNCHANGED <<unitState, relay, migration, shot>>
  PROVE  PlaceInv' /\ FlushInv' /\ PhaseInv'
<1>1. PlaceInv'
  BY RequestKinds DEF IInv, PlaceInv, Relaying
<1>2. FlushInv'
  BY RequestKinds DEF IInv, FlushInv, unitState
<1>3. Flushing' <=> Flushing
  BY DEF Flushing, Flush
<1>4. \A k \in {"shootdown", "restart"} :
        (Asked(Alone(k))' <=> Asked(Alone(k))) /\ (Told(Alone(k))' <=> Told(Alone(k)))
  BY RequestKinds DEF MigKind
<1>5. PhaseInv'
  BY <1>3, <1>4, QuietStep DEF IInv
<1> QED  BY <1>1, <1>2, <1>5

\* The command processor takes a request.
LEMMA TakeStep ==
  ASSUME IInv, NEW kind, Takes(kind)
  PROVE  /\ Head(ToDriver) \in Request /\ Head(ToDriver).kind = kind /\ Asked(Head(ToDriver))
         /\ (ToDriver \in Seq(Request))' /\ Once(ToDriver)'
         /\ \A x : Control(x) => (Asked(x)' <=> Asked(x) /\ x # Head(ToDriver))
BY TailIn DEF Takes, IInv, CPType, PlaceInv, Asked

\* It answers one.
LEMMA RespondStep ==
  ASSUME IInv, NEW r \in Request, Control(r) => ~ Told(r), Respond(r)
  PROVE  /\ (toDriverSender \in Seq(Request))' /\ Once(toDriverSender)'
         /\ \A x : Told(x)' <=> Told(x) \/ x = r
BY AppendIn DEF Respond, IInv, CPType, PlaceInv, Told

\* The driver asks this GPU for the next step of the migration.
LEMMA AskStep ==
  ASSUME IInv, NEW from, from \notin MigKind, NEW k \in MigKind, Ask(from, k),
         UNCHANGED <<toDriverSender, relay, waitsFor, mode, currFlushRequest, bottomMemCopy>>
  PROVE  /\ CPType' /\ PlaceInv' /\ FlushInv'
         /\ Asked(Alone(k))' /\ ~ Told(Alone(k))' /\ (Flushing' <=> Flushing)
<1>1. /\ (ToDriver \in Seq(Request))'
      /\ \A x : Asked(x)' <=> Asked(x) \/ x = Alone(k)
      /\ ~ Asked(Alone(k)) => Once(ToDriver)'
  BY AppendIn, RequestKinds DEF Ask, IInv, CPType, PlaceInv, Asked
<1>2. /\ migration = from /\ migration' = k
      /\ \A x : Told(x)' <=> Told(x)
  BY DEF Ask, Told
<1>3. \A l \in MigKind : ~ Asked(Alone(l)) /\ ~ Told(Alone(l)) /\ ~ Relaying(l)
  BY <1>2 DEF IInv, PlaceInv
<1>4. CPType'
  BY <1>1 DEF IInv, CPType
<1>5. PlaceInv'
  BY <1>1, <1>2, <1>3, RequestKinds DEF IInv, PlaceInv, Relaying
<1>6. FlushInv'
  BY <1>1, <1>2, RequestKinds DEF IInv, FlushInv
<1>7. Flushing' <=> Flushing
  BY DEF Flushing
<1> QED  BY <1>1, <1>2, <1>3, <1>4, <1>5, <1>6, <1>7

\* The step concerns other GPUs only.
LEMMA OthersStep ==
  ASSUME IInv, NEW from, from \notin MigKind, NEW next, Others(from, next),
         UNCHANGED <<toDriverSender, relay, waitsFor, mode, currFlushRequest, bottomMemCopy>>
  PROVE  CPType' /\ PlaceInv' /\ FlushInv'
<1>1. \A x : (Asked(x)' <=> Asked(x)) /\ (Told(x)' <=> Told(x))
  BY DEF Others, Asked, Told
<1>2. migration = from /\ \A l \in MigKind : ~ Asked(Alone(l)) /\ ~ Told(Alone(l)) /\ ~ Relaying(l)
  BY DEF IInv, PlaceInv, Others
<1>3. PlaceInv'
  BY <1>1, <1>2 DEF IInv, PlaceInv, Relaying, Others
<1> QED  BY <1>1, <1>3 DEF IInv, CPType, FlushInv, Others

-----------------------------------------------------------------------------
(* The driver.                                                             *)

\* A queue begins a command; a flush is asked for only if the GPU is neither
\* being stopped nor restarted.
LEMMA BeginStep ==
  ASSUME IInv, NEW q \in Queue, NEW reqs \in Seq(Request), Begin(q, reqs),
         Once(reqs), \A x : In(x, reqs) /\ Control(x) => x = Flush(q) /\ ~ Stopping,
         UNCHANGED <<toDriverSender, relay, migration, shot, unitState, bottomMemCopy>>
  PROVE  IInv'
<1>1. /\ waitsFor[q] = {} /\ waitsFor' = [waitsFor EXCEPT ![q] = ToSet(reqs)]
      /\ ToDriver' = ToDriver \o reqs
  BY DEF Begin
<1>2. ToSet(reqs) \in SUBSET Request /\ \A x : x \in ToSet(reqs) <=> In(x, reqs)
  <2>1. \A i \in DOMAIN reqs : reqs[i] \in Request
    BY ElementOfSeq, LenProperties
  <2> QED  BY <2>1 DEF ToSet, In
<1>3. ~ Asked(Flush(q)) /\ ~ Told(Flush(q)) /\ currFlushRequest # Flush(q)
  BY <1>1 DEF IInv, FlushInv
<1>4. /\ (ToDriver \in Seq(Request))' /\ Once(ToDriver)'
      /\ \A x : Asked(x)' <=> Asked(x) \/ In(x, reqs)
  BY <1>1, <1>3, ConcatIn DEF IInv, CPType, PlaceInv, Asked
<1>5. \A x : Told(x)' <=> Told(x)
  BY DEF Told
<1>6. /\ waitsFor' \in [Queue -> SUBSET Request] /\ waitsFor'[q] = ToSet(reqs)
      /\ \A p \in Queue : p # q => waitsFor'[p] = waitsFor[p]
  BY <1>1, <1>2 DEF IInv, CPType
<1>7. CPType'
  BY <1>4, <1>6 DEF IInv, CPType, unitState
<1>8. PlaceInv'
  BY <1>4, <1>5, RequestKinds DEF IInv, PlaceInv, Relaying
<1>9. FlushInv'
  <2> SUFFICES ASSUME NEW p \in Queue
               PROVE  (/\ Asked(Flush(p)) \/ Told(Flush(p)) \/ currFlushRequest = Flush(p)
                            => Flush(p) \in waitsFor[p]
                       /\ ~ (Asked(Flush(p)) /\ Told(Flush(p)))
                       /\ ~ (Asked(Flush(p)) /\ currFlushRequest = Flush(p))
                       /\ ~ (Told(Flush(p)) /\ currFlushRequest = Flush(p)))'
    BY DEF FlushInv
  <2>1. CASE p = q
    BY <1>2, <1>3, <1>4, <1>5, <1>6, <2>1 DEF unitState
  <2>2. CASE p # q
    <3>1. ~ In(Flush(p), reqs)
      BY <2>2, RequestKinds
    <3> QED  BY <1>4, <1>5, <1>6, <2>2, <3>1 DEF unitState, IInv, FlushInv
  <2> QED  BY <2>1, <2>2
<1>10. PhaseInv'
  <2>1. migration \in {"shootdown", "restart"} /\ Flushing' => Flushing
    <3> SUFFICES ASSUME Stopping, NEW p \in Queue, Flush(p) \in waitsFor'[p]
                 PROVE  Flush(p) \in waitsFor[p]
      BY DEF Stopping, Flushing, Flush
    <3>1. p # q
      BY <1>2, <1>6, RequestKinds
    <3> QED  BY <1>6, <3>1
  <2>2. \A k \in {"shootdown", "restart"} :
          (Asked(Alone(k))' <=> Asked(Alone(k))) /\ (Told(Alone(k))' <=> Told(Alone(k)))
    BY <1>4, <1>5, RequestKinds DEF MigKind
  <2> QED  BY <2>1, <2>2, QuietStep DEF IInv
<1> QED  BY <1>7, <1>8, <1>9, <1>10 DEF IInv

LEMMA ProcessLaunchKernelCommandInv ==
  ASSUME IInv, NEW q \in Queue, ProcessLaunchKernelCommand(q)
  PROVE  IInv'
<1> DEFINE r == [kind |-> "launch", queue |-> q]
<1>1. r \in Request /\ ~ Control(r)
  BY DEF Request, Control, MigKind
<1>2. Begin(q, <<r>>)
  BY DEF ProcessLaunchKernelCommand
<1> HIDE DEF r
<1>3. <<r>> \in Seq(Request) /\ (\A x : In(x, <<r>>) <=> x = r) /\ Once(<<r>>)
  BY <1>1, SingleIn
<1>4. UNCHANGED <<toDriverSender, relay, migration, shot, unitState, bottomMemCopy>>
  BY DEF ProcessLaunchKernelCommand, unitState, migVars, cpVars, unitVars, gpuVars
<1> QED  BY <1>1, <1>2, <1>3, <1>4, BeginStep

LEMMA ProcessMemCopyCommandInv ==
  ASSUME IInv, NEW q \in Queue, ProcessMemCopyCommand(q)
  PROVE  IInv'
<1>1. PICK c \in Copies :
        /\ c.queue = q /\ (q \in l2Dirty => ~ Stopping)
        /\ Begin(q, (IF q \in l2Dirty THEN <<[kind |-> "flush", queue |-> q]>> ELSE <<>>)
                    \o <<[kind |-> "copy", queue |-> q, copy |-> c]>>)
  BY DEF ProcessMemCopyCommand, IInv
<1>2. UNCHANGED <<toDriverSender, relay, migration, shot, unitState, bottomMemCopy>>
  BY DEF ProcessMemCopyCommand, unitState, migVars, cpVars, unitVars, gpuVars
<1> DEFINE r == [kind |-> "copy", queue |-> q, copy |-> c]
           first == IF q \in l2Dirty THEN <<Flush(q)>> ELSE <<>>
           reqs == first \o <<r>>
<1>3. r \in Request /\ ~ Control(r)
  BY DEF Request, Control, MigKind
<1>4. Begin(q, reqs)
  BY <1>1 DEF Flush
<1> HIDE DEF r
<1>5. <<r>> \in Seq(Request) /\ (\A x : In(x, <<r>>) <=> x = r) /\ Once(<<r>>)
  BY <1>3, SingleIn
<1>6. /\ first \in Seq(Request) /\ Once(first)
      /\ \A x : In(x, first) => x = Flush(q) /\ ~ Stopping
  <2>1. CASE q \in l2Dirty
    <3>1. /\ <<Flush(q)>> \in Seq(Request) /\ Once(<<Flush(q)>>)
          /\ \A x : In(x, <<Flush(q)>>) <=> x = Flush(q)
      BY RequestKinds, SingleIn
    <3> QED  BY <1>1, <2>1, <3>1
  <2>2. CASE q \notin l2Dirty
    <3>1. <<>> \in Seq(Request) /\ Once(<<>>) /\ \A x : ~ In(x, <<>>)
      BY DEF Once, In
    <3> QED  BY <2>2, <3>1
  <2> QED  BY <2>1, <2>2
<1> HIDE DEF first
<1> DEFINE last == <<r>>
<1> HIDE DEF last
<1>7. /\ reqs \in Seq(Request) /\ Once(reqs)
      /\ \A x : In(x, reqs) <=> In(x, first) \/ x = r
  <2>1. last \in Seq(Request) /\ (\A x : In(x, last) <=> x = r) /\ Once(last)
    BY <1>5 DEF last
  <2>2. \A x : Control(x) => ~ (In(x, first) /\ In(x, last))
    BY <1>3, <2>1
  <2> QED  BY <1>6, <2>1, <2>2, ConcatIn DEF last
<1> HIDE DEF reqs
<1> QED  BY <1>2, <1>3, <1>4, <1>6, <1>7, BeginStep

\* A kernel needs a page.
LEMMA InitiateRDMADrainInv == IInv /\ InitiateRDMADrain => IInv'
<1> SUFFICES ASSUME IInv, InitiateRDMADrain  PROVE IInv'
  OBVIOUS
<1>1. /\ Ask("none", "drain") /\ shot' = shot
      /\ UNCHANGED <<toDriverSender, waitsFor, relay, bottomMemCopy, unitState>>
  BY DEF InitiateRDMADrain, DriverUnchanged, unitState, cpVars, unitVars, gpuVars
<1>2. CPType' /\ PlaceInv' /\ FlushInv'
  BY <1>1, AskStep DEF MigKind, unitState
<1>3. PhaseInv'
  BY <1>1, SameUnits DEF IInv, PhaseInv, Ask
<1> QED  BY <1>2, <1>3 DEF IInv

LEMMA SendShootDownReqsInv == IInv /\ SendShootDownReqs => IInv'
<1> SUFFICES ASSUME IInv, SendShootDownReqs  PROVE IInv'
  OBVIOUS
<1>1. UNCHANGED <<toDriverSender, waitsFor, relay, bottomMemCopy, unitState>>
  BY DEF SendShootDownReqs, DriverUnchanged, unitState, cpVars, unitVars, gpuVars
<1>2. CASE ~ Flushing /\ shot' = TRUE /\ Ask("drained", "shootdown")
  <2>1. /\ CPType' /\ PlaceInv' /\ FlushInv' /\ ~ Flushing'
        /\ Asked(Alone("shootdown"))' /\ ~ Told(Alone("shootdown"))'
    BY <1>1, <1>2, AskStep DEF MigKind, unitState
  <2>2. PhaseInv'
    BY <1>1, <1>2, <2>1, SameUnits DEF IInv, PhaseInv, Ask, Through
  <2> QED  BY <2>1, <2>2 DEF IInv
<1>3. CASE shot' = FALSE /\ Others("drained", "shot")
  <2>1. CPType' /\ PlaceInv' /\ FlushInv'
    BY <1>1, <1>3, OthersStep DEF MigKind, unitState
  <2>2. PhaseInv'
    BY <1>1, <1>3, SameUnits DEF IInv, PhaseInv, Others
  <2> QED  BY <2>1, <2>2 DEF IInv
<1> QED  BY <1>2, <1>3 DEF SendShootDownReqs, IInv

LEMMA SendMigrationReqToCPInv == IInv /\ SendMigrationReqToCP => IInv'
<1> SUFFICES ASSUME IInv, SendMigrationReqToCP  PROVE IInv'
  OBVIOUS
<1>1. UNCHANGED <<shot, toDriverSender, waitsFor, relay, bottomMemCopy, unitState>>
  BY DEF SendMigrationReqToCP, DriverUnchanged, unitState, cpVars, unitVars, gpuVars
<1>2. CPType' /\ PlaceInv' /\ FlushInv'
  BY <1>1, AskStep, OthersStep DEF SendMigrationReqToCP, MigKind, unitState
<1>3. PhaseInv'
  BY <1>1, SameUnits DEF IInv, PhaseInv, Ask, Others, SendMigrationReqToCP
<1> QED  BY <1>2, <1>3 DEF IInv

LEMMA PrepareGPURestartReqsInv == IInv /\ PrepareGPURestartReqs => IInv'
<1> SUFFICES ASSUME IInv, PrepareGPURestartReqs  PROVE IInv'
  OBVIOUS
<1>1. UNCHANGED <<shot, toDriverSender, waitsFor, relay, bottomMemCopy, unitState>>
  BY DEF PrepareGPURestartReqs, DriverUnchanged, unitState, cpVars, unitVars, gpuVars
<1>2. CASE shot /\ ~ Flushing /\ Ask("migrated", "restart")
  <2>1. /\ CPType' /\ PlaceInv' /\ FlushInv' /\ ~ Flushing'
        /\ Asked(Alone("restart"))' /\ ~ Told(Alone("restart"))'
    BY <1>1, <1>2, AskStep DEF MigKind, unitState
  <2>2. PhaseInv'
    BY <1>1, <1>2, <2>1, SameUnits DEF IInv, PhaseInv, Ask, Through
  <2> QED  BY <2>1, <2>2 DEF IInv
<1>3. CASE ~ shot /\ Others("migrated", "restarted")
  <2>1. CPType' /\ PlaceInv' /\ FlushInv'
    BY <1>1, <1>3, OthersStep DEF MigKind, unitState
  <2>2. PhaseInv'
    BY <1>1, <1>3, SameUnits DEF IInv, PhaseInv, Others
  <2> QED  BY <2>1, <2>2 DEF IInv
<1> QED  BY <1>2, <1>3 DEF PrepareGPURestartReqs, IInv

LEMMA PrepareRDMARestartReqsInv == IInv /\ PrepareRDMARestartReqs => IInv'
<1> SUFFICES ASSUME IInv, PrepareRDMARestartReqs  PROVE IInv'
  OBVIOUS
<1>1. /\ Ask("restarted", "rdmaRestart") /\ shot' = shot
      /\ UNCHANGED <<toDriverSender, waitsFor, relay, bottomMemCopy, unitState>>
  BY DEF PrepareRDMARestartReqs, DriverUnchanged, unitState, cpVars, unitVars, gpuVars
<1>2. CPType' /\ PlaceInv' /\ FlushInv'
  BY <1>1, AskStep DEF MigKind, unitState
<1>3. PhaseInv'
  BY <1>1, SameUnits DEF IInv, PhaseInv, Ask
<1> QED  BY <1>2, <1>3 DEF IInv

\* The driver takes an answer: it goes on with the migration, or forgets a
\* request of a queue.
LEMMA ProcessReturnReqInv == IInv /\ ProcessReturnReq => IInv'
<1> SUFFICES ASSUME IInv, ProcessReturnReq  PROVE IInv'
  OBVIOUS
<1> DEFINE r == Head(toDriverSender)
<1>1. /\ toDriverSender # <<>> /\ toDriverSender' = Tail(toDriverSender)
      /\ UNCHANGED <<shot, ToDriver, relay, bottomMemCopy, unitState>>
      /\ \/ /\ r.kind \in DOMAIN After /\ migration' = After[r.kind] /\ UNCHANGED waitsFor
         \/ /\ r.kind \notin DOMAIN After
            /\ waitsFor' = [waitsFor EXCEPT ![r.queue] = @ \ {r}] /\ UNCHANGED migration
  BY DEF ProcessReturnReq, unitState, cpVars, unitVars, gpuVars
<1>2. /\ r \in Request /\ Told(r) /\ (toDriverSender \in Seq(Request))' /\ Once(toDriverSender)'
      /\ \A x : Control(x) => (Told(x)' <=> Told(x) /\ x # r)
  BY <1>1, TailIn DEF IInv, CPType, PlaceInv, Told
<1> HIDE DEF r
<1>3. \A x : Asked(x)' <=> Asked(x)
  BY <1>1 DEF Asked
<1>4. DOMAIN After = MigKind
  BY DEF After, MigKind
<1>5. CASE r.kind \in MigKind
  <2>1. PICK k \in MigKind : r = Alone(k) /\ r.kind = k
    BY <1>2, <1>5, RequestKinds
  <2>2. migration = k /\ migration' = After[k] /\ UNCHANGED waitsFor
    BY <1>1, <1>2, <1>4, <2>1 DEF IInv, PlaceInv
  <2>3. \A l \in MigKind : ~ Asked(Alone(l))' /\ ~ Told(Alone(l))' /\ ~ Relaying(l)'
    BY <1>1, <1>2, <1>3, <2>1, <2>2, RequestKinds DEF IInv, PlaceInv, Relaying
  <2>4. PlaceInv'
    BY <1>1, <1>2, <2>3 DEF IInv, PlaceInv, Relaying
  <2>5. FlushInv'
    BY <1>1, <1>2, <1>3, <2>2, RequestKinds DEF IInv, FlushInv, unitState
  <2>6. CPType'
    BY <1>1, <1>2, <2>2 DEF IInv, CPType, unitState
  <2>7. Told(Alone(k))
    BY <1>2, <2>1
  <2>8. PhaseInv'
    <3> USE <1>1, <2>2, <2>7, SameUnits DEF IInv, PhaseInv, After
    <3>1. CASE k = "drain"
      BY <3>1
    <3>2. CASE k = "shootdown"
      BY <3>2 DEF Through
    <3>3. CASE k = "migrate"
      BY <3>3
    <3>4. CASE k = "restart"
      BY <3>4 DEF Through
    <3>5. CASE k = "rdmaRestart"
      BY <3>5
    <3> QED  BY <3>1, <3>2, <3>3, <3>4, <3>5 DEF MigKind
  <2> QED  BY <2>4, <2>5, <2>6, <2>8 DEF IInv
<1>6. CASE r.kind \notin MigKind
  <2>1. /\ waitsFor' = [waitsFor EXCEPT ![r.queue] = @ \ {r}] /\ UNCHANGED migration
        /\ waitsFor' \in [Queue -> SUBSET Request]
    BY <1>1, <1>4, <1>6 DEF IInv, CPType
  <2>2. \A q \in Queue, x \in Request : /\ x \in waitsFor'[q] => x \in waitsFor[q]
                                        /\ x # r /\ x \in waitsFor[q] => x \in waitsFor'[q]
    BY <2>1 DEF IInv, CPType
  <2>3. \A k \in MigKind : Alone(k) # r
    BY <1>6, RequestKinds
  <2>4. CPType'
    BY <1>1, <1>2, <2>1 DEF IInv, CPType, unitState
  <2>5. PlaceInv'
    BY <1>1, <1>2, <1>3, <2>1, <2>3, RequestKinds DEF IInv, PlaceInv, Relaying
  <2>6. FlushInv'
    BY <1>1, <1>2, <1>3, <2>2, RequestKinds DEF IInv, FlushInv, unitState
  <2>7. Flushing' => Flushing
    BY <2>2, RequestKinds DEF Flushing, Flush
  <2>8. \A k \in {"shootdown", "restart"} :
          (Asked(Alone(k))' <=> Asked(Alone(k))) /\ (Told(Alone(k))' <=> Told(Alone(k)))
    BY <1>2, <1>3, <2>3, RequestKinds DEF MigKind
  <2>9. PhaseInv'
    BY <1>1, <2>1, <2>7, <2>8, QuietStep DEF IInv
  <2> QED  BY <2>4, <2>5, <2>6, <2>9 DEF IInv
<1> QED  BY <1>5, <1>6

-----------------------------------------------------------------------------
(* Requests that are only passed on.                                       *)

LEMMA ProcessLaunchKernelReqInv == IInv /\ ProcessLaunchKernelReq => IInv'
<1> SUFFICES ASSUME IInv, ProcessLaunchKernelReq  PROVE IInv'
  OBVIOUS
<1>1. /\ Takes("launch")
      /\ UNCHANGED <<waitsFor, toDriverSender, bottomMemCopy, relay, migration, shot, unitState>>
  BY DEF ProcessLaunchKernelReq, unitState, drvVars, migVars, cpVars
<1>2. /\ (ToDriver \in Seq(Request))' /\ Once(ToDriver)'
      /\ \A x : Control(x) => (Asked(x)' <=> Asked(x)) /\ (Told(x)' <=> Told(x))
  BY <1>1, TakeStep DEF Control, MigKind, Told
<1>3. CPType' /\ Once(toDriverSender)'
  BY <1>1, <1>2 DEF IInv, CPType, PlaceInv, unitState
<1> QED  BY <1>1, <1>2, <1>3, AsideStep DEF IInv

LEMMA ProcessMemCopyReqInv == IInv /\ ProcessMemCopyReq => IInv'
<1> SUFFICES ASSUME IInv, ProcessMemCopyReq  PROVE IInv'
  OBVIOUS
<1>1. /\ Takes("copy") /\ bottomMemCopy' = bottomMemCopy \cup {Head(ToDriver).copy}
      /\ UNCHANGED <<waitsFor, toDriverSender, relay, migration, shot, unitState>>
  BY DEF ProcessMemCopyReq, unitState, drvVars, migVars, unitVars, gpuVars
<1>2. /\ (ToDriver \in Seq(Request))' /\ Once(ToDriver)'
      /\ Head(ToDriver) \in Request /\ Head(ToDriver).kind = "copy"
      /\ \A x : Control(x) => (Asked(x)' <=> Asked(x)) /\ (Told(x)' <=> Told(x))
  BY <1>1, TakeStep DEF Control, MigKind, Told
<1>3. \A r \in Request : r.kind = "copy" => r.copy \in Copies
  BY DEF Request
<1>4. CPType' /\ Once(toDriverSender)'
  BY <1>1, <1>2, <1>3 DEF IInv, CPType, PlaceInv, unitState
<1> QED  BY <1>1, <1>2, <1>4, AsideStep DEF IInv

\* An answer that has nothing to do with stages.
LEMMA AnswerAside ==
  ASSUME IInv, NEW r \in Request, ~ Control(r), Respond(r), bottomMemCopy' \subseteq Copies,
         UNCHANGED <<ToDriver, waitsFor, relay, migration, shot, unitState>>
  PROVE  IInv'
<1>1. /\ (toDriverSender \in Seq(Request))' /\ Once(toDriverSender)'
      /\ \A x : Control(x) => (Asked(x)' <=> Asked(x)) /\ (Told(x)' <=> Told(x))
  BY RespondStep DEF Asked
<1>2. CPType' /\ Once(ToDriver)'
  BY <1>1 DEF IInv, CPType, PlaceInv, unitState
<1> QED  BY <1>1, <1>2, AsideStep DEF IInv

LEMMA ProcessMemCopyRspInv == IInv /\ ProcessMemCopyRsp => IInv'
<1> SUFFICES ASSUME IInv, ProcessMemCopyRsp  PROVE IInv'
  OBVIOUS
<1> DEFINE r == [kind |-> "copy", queue |-> ToDMA.queue, copy |-> ToDMA]
<1>1. /\ ToDMA \in bottomMemCopy /\ bottomMemCopy' = bottomMemCopy \ {ToDMA} /\ Respond(r)
      /\ UNCHANGED <<ToDriver, waitsFor, relay, migration, shot, unitState>>
  BY DEF ProcessMemCopyRsp, unitState, drvVars, migVars, unitVars, gpuVars
<1>2. ToDMA \in Copies /\ bottomMemCopy' \subseteq Copies
  BY <1>1 DEF IInv, CPType
<1>3. ToDMA.queue \in Queue
  BY <1>2, CopiesAssumption
<1>4. r \in Request /\ ~ Control(r)
  BY <1>2, <1>3 DEF Request, Control, MigKind
<1> HIDE DEF r
<1> QED  BY <1>1, <1>2, <1>4, AnswerAside

LEMMA KernelEndsInv ==
  ASSUME IInv, NEW q \in Queue, KernelEnds(q)
  PROVE  IInv'
<1> DEFINE r == [kind |-> "launch", queue |-> q]
<1>1. /\ Respond(r)
      /\ UNCHANGED <<ToDriver, waitsFor, relay, migration, shot, unitState, bottomMemCopy>>
  BY DEF KernelEnds, unitState, drvVars, migVars, cpVars
<1>2. r \in Request /\ ~ Control(r)
  BY DEF Request, Control, MigKind
<1> HIDE DEF r
<1> QED  BY <1>1, <1>2, AnswerAside DEF IInv, CPType

\* Steps that touch nothing the invariant speaks of.
LEMMA NoStep ==
  ASSUME IInv, UNCHANGED <<ToDriver, toDriverSender, waitsFor, relay, migration, shot, unitState,
                           bottomMemCopy>>
  PROVE  IInv'
<1>1. \A x : (Asked(x)' <=> Asked(x)) /\ (Told(x)' <=> Told(x))
  BY DEF Asked, Told
<1>2. CPType' /\ Once(ToDriver)' /\ Once(toDriverSender)'
  BY DEF IInv, CPType, PlaceInv, unitState
<1> QED  BY <1>1, <1>2, AsideStep DEF IInv

\* Commands for an RDMA engine or the page migration controller.
LEMMA RelayDownInv ==
  ASSUME IInv, NEW kind \in Relayed, RelayDown(kind)
  PROVE  IInv'
<1>1. /\ Takes(kind) /\ relay' = relay \cup {<<kind, "down">>}
      /\ UNCHANGED <<waitsFor, toDriverSender, migration, shot, unitState, bottomMemCopy>>
  BY DEF RelayDown, unitState, drvVars, migVars, cpVars, gpuVars
<1>2. kind \in MigKind /\ kind \notin {"shootdown", "restart", "flush"}
  BY DEF Relayed, MigKind
<1>3. /\ Head(ToDriver) = Alone(kind) /\ Asked(Alone(kind))
      /\ (ToDriver \in Seq(Request))' /\ Once(ToDriver)'
      /\ \A x : Control(x) => (Asked(x)' <=> Asked(x) /\ x # Alone(kind))
  <2> DEFINE h == Head(ToDriver)
  <2>1. /\ h \in Request /\ h.kind = kind /\ Asked(h)
        /\ (ToDriver \in Seq(Request))' /\ Once(ToDriver)'
        /\ \A x : Control(x) => (Asked(x)' <=> Asked(x) /\ x # h)
    BY <1>1, TakeStep
  <2> HIDE DEF h
  <2>2. h = Alone(kind)
    BY <1>2, <2>1, RequestKinds
  <2> QED  BY <2>1, <2>2 DEF h
<1>4. \A x : Told(x)' <=> Told(x)
  BY <1>1 DEF Told
<1>5. CPType'
  BY <1>1, <1>3 DEF IInv, CPType, unitState
<1>6. PlaceInv'
  BY <1>1, <1>2, <1>3, <1>4, RequestKinds DEF IInv, PlaceInv, Relaying
<1>7. FlushInv'
  BY <1>1, <1>2, <1>3, <1>4, RequestKinds DEF IInv, FlushInv, unitState
<1>8. Flushing' <=> Flushing
  BY <1>1 DEF Flushing
<1>9. PhaseInv'
  BY <1>1, <1>2, <1>3, <1>4, <1>8, QuietStep, RequestKinds DEF IInv, MigKind
<1> QED  BY <1>5, <1>6, <1>7, <1>9 DEF IInv

LEMMA RelayUpInv ==
  ASSUME IInv, NEW kind \in Relayed, RelayUp(kind)
  PROVE  IInv'
<1>1. /\ <<kind, "up">> \in relay /\ relay' = relay \ {<<kind, "up">>}
      /\ Respond(Alone(kind))
      /\ UNCHANGED <<ToDriver, waitsFor, migration, shot, unitState, bottomMemCopy>>
  BY DEF RelayUp, unitState, drvVars, migVars, cpVars, gpuVars
<1>2. kind \in MigKind /\ kind \notin {"shootdown", "restart", "flush"}
  BY DEF Relayed, MigKind
<1>3. ~ Told(Alone(kind)) /\ Alone(kind) \in Request
  BY <1>1, <1>2, RequestKinds DEF IInv, PlaceInv, Relaying
<1>4. /\ (toDriverSender \in Seq(Request))' /\ Once(toDriverSender)'
      /\ \A x : Told(x)' <=> Told(x) \/ x = Alone(kind)
  BY <1>1, <1>3, RespondStep
<1>5. \A x : Asked(x)' <=> Asked(x)
  BY <1>1 DEF Asked
<1>6. CPType'
  BY <1>1, <1>4 DEF IInv, CPType, unitState
<1>7. PlaceInv'
  BY <1>1, <1>2, <1>4, <1>5, RequestKinds DEF IInv, PlaceInv, Relaying
<1>8. FlushInv'
  BY <1>1, <1>2, <1>4, <1>5, RequestKinds DEF IInv, FlushInv, unitState
<1>9. Flushing' <=> Flushing
  BY <1>1 DEF Flushing
<1>10. PhaseInv'
  BY <1>1, <1>2, <1>4, <1>5, <1>9, QuietStep, RequestKinds DEF IInv, MigKind
<1> QED  BY <1>6, <1>7, <1>8, <1>10 DEF IInv

LEMMA ServeRelayedInv ==
  ASSUME IInv, NEW kind \in Relayed, ServeRelayed(kind)
  PROVE  IInv'
<1>1. /\ <<kind, "down">> \in relay
      /\ relay' = (relay \ {<<kind, "down">>}) \cup {<<kind, "up">>}
      /\ UNCHANGED <<ToDriver, toDriverSender, waitsFor, migration, shot, unitState, bottomMemCopy>>
  BY DEF ServeRelayed, unitState, drvVars, migVars, cpVars, gpuVars
<1>2. \A x : (Asked(x)' <=> Asked(x)) /\ (Told(x)' <=> Told(x))
  BY <1>1 DEF Asked, Told
<1>3. CPType'
  BY <1>1 DEF IInv, CPType, unitState
<1>4. \A k \in MigKind : /\ Relaying(k)' <=> Relaying(k)
                         /\ ~ (<<k, "down">> \in relay' /\ <<k, "up">> \in relay')
  BY <1>1 DEF Relaying, IInv, PlaceInv
<1>5. PlaceInv'
  BY <1>1, <1>2, <1>4 DEF IInv, PlaceInv
<1>6. FlushInv'
  BY <1>1, <1>2 DEF IInv, FlushInv, unitState
<1>7. Flushing' <=> Flushing
  BY <1>1 DEF Flushing
<1>8. PhaseInv'
  BY <1>1, <1>2, <1>7, QuietStep DEF IInv
<1> QED  BY <1>3, <1>5, <1>6, <1>8 DEF IInv

-----------------------------------------------------------------------------
(* The stages.                                                             *)

\* A stage of a stop or of a restart is between its command and its answer.
LEMMA InStages ==
  ASSUME IInv
  PROVE  /\ Stop \/ Restart \/ Resting("run") \/ Resting("stopped")
         /\ Stop => /\ migration = "shootdown" /\ shot /\ ~ Flushing
                    /\ ~ Asked(Alone("shootdown")) /\ ~ Told(Alone("shootdown"))
                    /\ currFlushRequest = None
         /\ Restart => /\ migration = "restart" /\ shot /\ ~ Flushing
                       /\ ~ Asked(Alone("restart")) /\ ~ Told(Alone("restart"))
                       /\ currFlushRequest = None
<1>1. Stop => shootDownInProcess /\ currFlushRequest = None
  BY DEF Stop, CUStop, ATStop, CacheStop, TLBStop, Stage
<1>2. Restart => /\ ~ shootDownInProcess /\ currFlushRequest = None
                 /\ ~ Resting("run") /\ ~ Resting("stopped")
  BY DEF Restart, CURestart, ATRestart, CacheRestart, TLBRestart, Stage, Resting, Counters
<1>3. ~ (shootDownInProcess /\ (Resting("run") \/ Resting("stopped")))
  BY DEF Resting
<1> QED  BY <1>1, <1>2, <1>3 DEF IInv, PhaseInv, Through

\* An order under way tells the stage.
LEMMA StageOf ==
  ASSUME IInv, NEW u, NEW order, <<u, order>> \in Pending
  PROVE  \/ u \in CU /\ order = "stop" /\ CUStop
         \/ u \in AT /\ order = "stop" /\ ATStop
         \/ u \in Cache /\ order = "stop" /\ CacheStop
         \/ u \in TLB /\ order = "stop" /\ TLBStop
         \/ u \in Cache /\ order = "restart" /\ CacheRestart
         \/ u \in TLB /\ order = "restart" /\ TLBRestart
         \/ u \in AT /\ order = "restart" /\ ATRestart
         \/ u \in CU /\ order = "restart" /\ CURestart
         \/ u \in Cache /\ order = "flush" /\ Resting("run")
         \/ u \in Cache /\ order = "flush" /\ Resting("stopped")
<1>1. CASE Stop
  BY <1>1 DEF Stop, CUStop, ATStop, CacheStop, TLBStop, Stage, Round
<1>2. CASE Restart
  BY <1>2 DEF Restart, CURestart, ATRestart, CacheRestart, TLBRestart, Stage, Round
<1>3. CASE Resting("run") \/ Resting("stopped")
  BY <1>3 DEF Resting, Round
<1> QED  BY <1>1, <1>2, <1>3, InStages

outside == <<ToDriver, toDriverSender, waitsFor, migration, shot, relay, bottomMemCopy>>

\* From stage to stage.
LEMMA StopGoesOn ==
  ASSUME IInv, Stop, Stop', mode' \in [Unit -> {"run", "stopped"}], UNCHANGED outside
  PROVE  IInv'
<1>1. currFlushRequest' = None
  BY DEF Stop, CUStop, ATStop, CacheStop, TLBStop, Stage
<1>2. \A x : (Asked(x)' <=> Asked(x)) /\ (Told(x)' <=> Told(x))
  BY DEF Asked, Told, outside
<1>3. CPType' /\ PlaceInv'
  BY <1>1, <1>2 DEF IInv, CPType, PlaceInv, Relaying, outside
<1>4. FlushInv'
  BY <1>1, <1>2, RequestKinds DEF IInv, FlushInv, outside
<1>5. PhaseInv'
  BY <1>2, InStages DEF PhaseInv, Through, Flushing, outside
<1> QED  BY <1>3, <1>4, <1>5 DEF IInv

LEMMA RestartGoesOn ==
  ASSUME IInv, Restart, Restart', mode' \in [Unit -> {"run", "stopped"}], UNCHANGED outside
  PROVE  IInv'
<1>1. currFlushRequest' = None
  BY DEF Restart, CURestart, ATRestart, CacheRestart, TLBRestart, Stage
<1>2. \A x : (Asked(x)' <=> Asked(x)) /\ (Told(x)' <=> Told(x))
  BY DEF Asked, Told, outside
<1>3. CPType' /\ PlaceInv'
  BY <1>1, <1>2 DEF IInv, CPType, PlaceInv, Relaying, outside
<1>4. FlushInv'
  BY <1>1, <1>2, RequestKinds DEF IInv, FlushInv, outside
<1>5. PhaseInv'
  BY <1>2, InStages DEF PhaseInv, Through, Flushing, outside
<1> QED  BY <1>3, <1>4, <1>5 DEF IInv

\* The kinds of units are apart and none is empty.
LEMMA Units ==
  /\ CU \in SUBSET Unit /\ AT \in SUBSET Unit /\ Cache \in SUBSET Unit /\ TLB \in SUBSET Unit
  /\ Unit = CU \cup AT \cup Cache \cup TLB
  /\ CU # {} /\ AT # {} /\ Cache # {} /\ TLB # {}
  /\ CU \cap AT = {} /\ CU \cap Cache = {} /\ CU \cap TLB = {}
  /\ AT \cap Cache = {} /\ AT \cap TLB = {} /\ Cache \cap TLB = {}
BY UnitAssumption DEF Unit

\* A command of the procedure is taken and its first stage begins.
LEMMA StageCommand ==
  ASSUME IInv, NEW k \in {"shootdown", "restart"}, Takes(k),
         currFlushRequest' = currFlushRequest, mode' = mode,
         UNCHANGED <<toDriverSender, waitsFor, migration, shot, relay, bottomMemCopy>>
  PROVE  /\ k = "shootdown" => Resting("run")
         /\ k = "restart" => Resting("stopped")
         /\ currFlushRequest = None /\ Pending = {}
         /\ (k = "shootdown" /\ Stop') \/ (k = "restart" /\ Restart') => IInv'
<1>1. k \in MigKind /\ k # "flush"
  BY DEF MigKind
<1>2. /\ Asked(Alone(k)) /\ (ToDriver \in Seq(Request))' /\ Once(ToDriver)'
      /\ \A x : Control(x) => (Asked(x)' <=> Asked(x) /\ x # Alone(k))
  <2> DEFINE h == Head(ToDriver)
  <2>1. /\ h \in Request /\ h.kind = k /\ Asked(h)
        /\ (ToDriver \in Seq(Request))' /\ Once(ToDriver)'
        /\ \A x : Control(x) => (Asked(x)' <=> Asked(x) /\ x # h)
    BY TakeStep
  <2> HIDE DEF h
  <2>2. h = Alone(k)
    BY <1>1, <2>1, RequestKinds
  <2> QED  BY <2>1, <2>2 DEF h
<1>3. /\ migration = k /\ shot /\ ~ Flushing /\ ~ Told(Alone(k))
      /\ k = "shootdown" => Resting("run")
      /\ k = "restart" => Resting("stopped")
  BY <1>1, <1>2 DEF IInv, PlaceInv, PhaseInv, Through
<1>4. currFlushRequest = None
  BY <1>3, NoFlush DEF IInv
<1>5. Pending = {}
  BY <1>3, <1>4, Units, RoundOver DEF Resting
<1>6. \A x : Told(x)' <=> Told(x)
  BY DEF Told
<1>7. CPType'
  BY <1>2 DEF IInv, CPType
<1>8. PlaceInv'
  BY <1>2, <1>6, RequestKinds DEF IInv, PlaceInv, Relaying
<1>9. FlushInv'
  BY <1>2, <1>4, <1>6, RequestKinds DEF IInv, FlushInv
<1>10. ASSUME (k = "shootdown" /\ Stop') \/ (k = "restart" /\ Restart')  PROVE PhaseInv'
  <2>1. ~ Asked(Alone(k))' /\ ~ Told(Alone(k))' /\ ~ Flushing'
    BY <1>1, <1>2, <1>3, <1>6, RequestKinds DEF Flushing
  <2> QED  BY <1>3, <1>10, <2>1 DEF PhaseInv, Through
<1> QED  BY <1>3, <1>4, <1>5, <1>7, <1>8, <1>9, <1>10 DEF IInv

LEMMA ProcessShootdownCommandInv == IInv /\ ProcessShootdownCommand => IInv'
<1> SUFFICES ASSUME IInv, ProcessShootdownCommand  PROVE IInv'
  OBVIOUS
<1>1. /\ Takes("shootdown") /\ shootDownInProcess' = TRUE /\ Tell(CU, "stop")
      /\ numCUAck' = numCUAck + Cardinality(CU)
      /\ UNCHANGED <<toDriverSender, waitsFor, migration, shot, relay, bottomMemCopy, mode, acked,
                     currFlushRequest, numAddrTranslationFlushAck, numAddrTranslationRestartAck,
                     numTLBAck, numCacheACK>>
  BY DEF ProcessShootdownCommand, drvVars, migVars, gpuVars
<1>2. Resting("run") /\ currFlushRequest = None /\ Pending = {} /\ (Stop' => IInv')
  BY <1>1, StageCommand
<1>3. /\ Round(CU, "stop", Cardinality(CU))' /\ Cardinality(CU) # 0 /\ sent' = CU \X {"stop"}
  BY <1>1, <1>2, Units, RoundBegins DEF Pending
<1>4. numCUAck' = Cardinality(CU)
  BY <1>1, <1>2, Units, FiniteUnits DEF Resting, Counters
<1>5. Stage(CU, "stop", numCUAck, "run", "stopped")'
  <2>1. Round(CU, "stop", numCUAck)'
    BY <1>3, <1>4 DEF Round
  <2> QED  BY <1>1, <1>2, <1>3, <1>4, <2>1, Units DEF Stage, Resting, Are
<1>6. Counters' = <<numCUAck', 0, 0, 0, 0>>
  <2>1. numCacheACK = 0
    BY <1>2 DEF Resting
  <2> QED  BY <1>1, <1>2, <2>1 DEF Resting, Counters
<1>7. CUStop'
  BY <1>1, <1>2, <1>5, <1>6, Units DEF CUStop, Resting, Are
<1> QED  BY <1>2, <1>7 DEF Stop

LEMMA ProcessGPURestartReqInv == IInv /\ ProcessGPURestartReq => IInv'
<1> SUFFICES ASSUME IInv, ProcessGPURestartReq  PROVE IInv'
  OBVIOUS
<1>1. /\ Takes("restart") /\ Tell(Cache, "restart")
      /\ numCacheACK' = numCacheACK + Cardinality(Cache)
      /\ UNCHANGED <<toDriverSender, waitsFor, migration, shot, relay, bottomMemCopy, mode, acked,
                     currFlushRequest, numAddrTranslationFlushAck, numAddrTranslationRestartAck,
                     numTLBAck, numCUAck, shootDownInProcess>>
  BY DEF ProcessGPURestartReq, drvVars, migVars, gpuVars
<1>2. Resting("stopped") /\ currFlushRequest = None /\ Pending = {} /\ (Restart' => IInv')
  BY <1>1, StageCommand
<1>3. /\ Round(Cache, "restart", Cardinality(Cache))' /\ Cardinality(Cache) # 0
      /\ sent' = Cache \X {"restart"}
  BY <1>1, <1>2, Units, RoundBegins DEF Pending
<1>4. numCacheACK' = Cardinality(Cache)
  BY <1>1, <1>2, Units, FiniteUnits DEF Resting
<1>5. Stage(Cache, "restart", numCacheACK, "stopped", "run")'
  <2>1. Round(Cache, "restart", numCacheACK)'
    BY <1>3, <1>4 DEF Round
  <2> QED  BY <1>1, <1>2, <1>3, <1>4, <2>1, Units DEF Stage, Resting, Are
<1>6. Counters' = <<0, 0, 0, 0, numCacheACK'>> /\ ~ shootDownInProcess'
  BY <1>1, <1>2 DEF Resting, Counters
<1>7. CacheRestart'
  BY <1>1, <1>2, <1>5, <1>6, Units DEF CacheRestart, Resting, Are
<1> QED  BY <1>2, <1>7 DEF Restart

\* A flush begins when no cache has anything to do.
LEMMA ProcessFlushReqInv == IInv /\ ProcessFlushReq => IInv'
<1> SUFFICES ASSUME IInv, ProcessFlushReq  PROVE IInv'
  OBVIOUS
<1>1. /\ numCacheACK = 0 /\ Takes("flush") /\ Tell(Cache, "flush")
      /\ numCacheACK' = numCacheACK + Cardinality(Cache)
      /\ currFlushRequest' = Head(ToDriver)
      /\ UNCHANGED <<toDriverSender, waitsFor, migration, shot, relay, bottomMemCopy, mode, acked,
                     numAddrTranslationFlushAck, numAddrTranslationRestartAck,
                     numTLBAck, numCUAck, shootDownInProcess>>
  BY DEF ProcessFlushReq, drvVars, migVars, gpuVars
<1>2. PICK q \in Queue :
        /\ currFlushRequest' = Flush(q) /\ Asked(Flush(q))
        /\ (ToDriver \in Seq(Request))' /\ Once(ToDriver)'
        /\ \A x : Control(x) => (Asked(x)' <=> Asked(x) /\ x # Flush(q))
  <2> DEFINE h == Head(ToDriver)
  <2>1. /\ h \in Request /\ h.kind = "flush" /\ Asked(h)
        /\ (ToDriver \in Seq(Request))' /\ Once(ToDriver)'
        /\ \A x : Control(x) => (Asked(x)' <=> Asked(x) /\ x # h)
    BY <1>1, TakeStep
  <2>2. currFlushRequest' = h
    BY <1>1
  <2> HIDE DEF h
  <2>3. PICK q \in Queue : h = Flush(q)
    BY <2>1, RequestKinds
  <2> QED  BY <2>1, <2>2, <2>3
<1>3. \A x : Told(x)' <=> Told(x)
  BY <1>1 DEF Told
<1>4. Flushing /\ Flush(q) \in waitsFor[q]
  BY <1>2 DEF IInv, FlushInv, Flushing, Flush
<1>5. /\ migration \notin {"shootdown", "restart"}
      /\ Resting("run") \/ Resting("stopped")
  BY <1>4 DEF IInv, PhaseInv, Through
<1>6. Pending = {} /\ currFlushRequest = None
  BY <1>1, <1>5, Units, RoundOver DEF Resting
<1>7. /\ Round(Cache, "flush", Cardinality(Cache))' /\ Cardinality(Cache) # 0
  BY <1>1, <1>6, Units, RoundBegins DEF Pending
<1>8. numCacheACK' = Cardinality(Cache)
  BY <1>1, Units, FiniteUnits
<1>9. Round(Cache, "flush", numCacheACK)' /\ currFlushRequest' # None
  BY <1>2, <1>7, <1>8, RequestKinds DEF Round
<1>10. (Resting("run") => Resting("run")') /\ (Resting("stopped") => Resting("stopped")')
  BY <1>1, <1>7, <1>8, <1>9 DEF Resting, Are, Counters
<1>11. PhaseInv'
  BY <1>1, <1>5, <1>10 DEF IInv, PhaseInv
<1>12. CPType'
  BY <1>1, <1>2 DEF IInv, CPType
<1>13. PlaceInv'
  BY <1>1, <1>2, <1>3, RequestKinds DEF IInv, PlaceInv, Relaying
<1>14. FlushInv'
  BY <1>1, <1>2, <1>3, <1>6, RequestKinds DEF IInv, FlushInv
<1> QED  BY <1>11, <1>12, <1>13, <1>14 DEF IInv

-----------------------------------------------------------------------------
(* Acknowledgements.                                                       *)

LEMMA ProcessCUPipelineFlushRspInv == IInv /\ ProcessCUPipelineFlushRsp => IInv'
<1> SUFFICES ASSUME IInv, ProcessCUPipelineFlushRsp  PROVE IInv'
  OBVIOUS
<1>1. PICK u \in CU : <<u, "stop">> \in acked /\ acked' = acked \ {<<u, "stop">>}
  BY DEF ProcessCUPipelineFlushRsp, Acked
<1>2. /\ numCUAck' = numCUAck - 1 /\ mode' = mode
      /\ numCUAck' = 0 =>
           /\ Tell(AT, "stop")
           /\ numAddrTranslationFlushAck' = numAddrTranslationFlushAck + Cardinality(AT)
      /\ numCUAck' # 0 => UNCHANGED <<sent, numAddrTranslationFlushAck>>
      /\ UNCHANGED <<outside, numAddrTranslationRestartAck, numTLBAck, numCacheACK,
                     shootDownInProcess, currFlushRequest>>
  BY DEF ProcessCUPipelineFlushRsp, AckUnchanged, outside, drvVars, migVars, gpuVars
<1>3. CUStop
  BY <1>1, StageOf, Units DEF Pending
<1>n. PICK n : n = numCUAck
  OBVIOUS
<1>4. /\ n \in Nat /\ n # 0
      /\ n - 1 = 0 <=> sent \cup acked' = {}
      /\ sent' = sent => Round(CU, "stop", n - 1)'
  <2>1. Round(CU, "stop", n)
    BY <1>3, <1>n DEF CUStop, Stage
  <2> QED  BY <1>1, <1>3, <2>1, Units, RoundGoesOn
<1>5. CASE numCUAck' # 0
  <2>0. Round(CU, "stop", n - 1)' /\ numCUAck' = n - 1
    BY <1>2, <1>4, <1>5, <1>n
  <2>1. Round(CU, "stop", numCUAck)'
    BY <2>0 DEF Round
  <2>2. CUStop'
    BY <1>2, <1>3, <1>5, <2>1 DEF CUStop, Stage, Are, Counters
  <2> QED  BY <1>2, <1>3, <2>2, StopGoesOn DEF Stop, IInv, CPType
<1>6. CASE numCUAck' = 0
  <2>1. sent \cup acked' = {}
    BY <1>2, <1>4, <1>6, <1>n
  <2>2. /\ Round(AT, "stop", Cardinality(AT))' /\ Cardinality(AT) # 0
        /\ sent' = AT \X {"stop"}
    BY <1>2, <1>6, <2>1, Units, RoundBegins
  <2>c. Cardinality(AT) \in Nat /\ numAddrTranslationFlushAck = 0
    BY <1>3, Units, FiniteUnits DEF CUStop, Counters
  <2>d. numAddrTranslationFlushAck' = numAddrTranslationFlushAck + Cardinality(AT)
    BY <1>2, <1>6
  <2>3. numAddrTranslationFlushAck' = Cardinality(AT)
    BY <2>c, <2>d
  <2>4. Round(AT, "stop", numAddrTranslationFlushAck)'
    BY <2>2, <2>3 DEF Round
  <2>5. Are(CU, "stopped")
    BY <1>3, <2>1 DEF CUStop, Stage, Are
  <2>6. ATStop'
    BY <1>2, <1>3, <1>6, <2>2, <2>3, <2>4, <2>5 DEF ATStop, CUStop, Stage, Are, Counters
  <2> QED  BY <1>2, <1>3, <2>6, StopGoesOn DEF Stop, IInv, CPType
<1> QED  BY <1>5, <1>6

\* The counters tell what the acknowledgements of translators are for.
LEMMA ProcessAddressTranslatorFlushRspInv == IInv /\ ProcessAddressTranslatorFlushRsp => IInv'
<1> SUFFICES ASSUME IInv, ProcessAddressTranslatorFlushRsp  PROVE IInv'
  OBVIOUS
<1>1. PICK order \in {"stop", "restart"}, u \in AT :
        <<u, order>> \in acked /\ acked' = acked \ {<<u, order>>}
  BY DEF ProcessAddressTranslatorFlushRsp, Acked
<1>2. /\ numAddrTranslationFlushAck > 0 /\ mode' = mode
      /\ numAddrTranslationFlushAck' = numAddrTranslationFlushAck - 1
      /\ numAddrTranslationFlushAck' = 0 =>
           Tell(Cache, "stop") /\ numCacheACK' = numCacheACK + Cardinality(Cache)
      /\ numAddrTranslationFlushAck' # 0 => UNCHANGED <<sent, numCacheACK>>
      /\ UNCHANGED <<outside, numAddrTranslationRestartAck, numTLBAck, numCUAck,
                     shootDownInProcess, currFlushRequest>>
  BY DEF ProcessAddressTranslatorFlushRsp, AckUnchanged, outside, drvVars, migVars, gpuVars
<1>3. ATStop /\ order = "stop"
  <2>1. ~ ATRestart
    BY <1>2 DEF ATRestart, Counters
  <2> QED  BY <1>1, <2>1, StageOf, Units DEF Pending
<1>n. PICK n : n = numAddrTranslationFlushAck
  OBVIOUS
<1>4. /\ n \in Nat /\ n # 0
      /\ n - 1 = 0 <=> sent \cup acked' = {}
      /\ sent' = sent => Round(AT, "stop", n - 1)'
  <2>1. Round(AT, "stop", n)
    BY <1>3, <1>n DEF ATStop, Stage
  <2> QED  BY <1>1, <1>3, <2>1, Units, RoundGoesOn
<1>5. CASE numAddrTranslationFlushAck' # 0
  <2>0. Round(AT, "stop", n - 1)' /\ numAddrTranslationFlushAck' = n - 1
    BY <1>2, <1>4, <1>5, <1>n
  <2>1. Round(AT, "stop", numAddrTranslationFlushAck)'
    BY <2>0 DEF Round
  <2>2. ATStop'
    BY <1>2, <1>3, <1>5, <2>1 DEF ATStop, Stage, Are, Counters
  <2> QED  BY <1>2, <1>3, <2>2, StopGoesOn DEF Stop, IInv, CPType
<1>6. CASE numAddrTranslationFlushAck' = 0
  <2>1. sent \cup acked' = {}
    BY <1>2, <1>4, <1>6, <1>n
  <2>2. /\ Round(Cache, "stop", Cardinality(Cache))' /\ Cardinality(Cache) # 0
        /\ sent' = Cache \X {"stop"}
    BY <1>2, <1>6, <2>1, Units, RoundBegins
  <2>c. Cardinality(Cache) \in Nat /\ numCacheACK = 0
    BY <1>3, Units, FiniteUnits DEF ATStop, Counters
  <2>d. numCacheACK' = numCacheACK + Cardinality(Cache)
    BY <1>2, <1>6
  <2>3. numCacheACK' = Cardinality(Cache)
    BY <2>c, <2>d
  <2>4. Round(Cache, "stop", numCacheACK)'
    BY <2>2, <2>3 DEF Round
  <2>5. Are(AT, "stopped")
    BY <1>3, <2>1 DEF ATStop, Stage, Are
  <2>6. CacheStop'
    BY <1>2, <1>3, <1>6, <2>2, <2>3, <2>4, <2>5 DEF ATStop, CacheStop, Stage, Are, Counters
  <2> QED  BY <1>2, <1>3, <2>6, StopGoesOn DEF Stop, IInv, CPType
<1> QED  BY <1>5, <1>6

LEMMA ProcessAddressTranslatorRestartRspInv ==
  IInv /\ ProcessAddressTranslatorRestartRsp => IInv'
<1> SUFFICES ASSUME IInv, ProcessAddressTranslatorRestartRsp  PROVE IInv'
  OBVIOUS
<1>1. PICK order \in {"stop", "restart"}, u \in AT :
        <<u, order>> \in acked /\ acked' = acked \ {<<u, order>>}
  BY DEF ProcessAddressTranslatorRestartRsp, Acked
<1>2. /\ numAddrTranslationFlushAck = 0 /\ mode' = mode
      /\ numAddrTranslationRestartAck' = numAddrTranslationRestartAck - 1
      /\ numAddrTranslationRestartAck' = 0 =>
           Tell(CU, "restart") /\ numCUAck' = numCUAck + Cardinality(CU)
      /\ numAddrTranslationRestartAck' # 0 => UNCHANGED <<sent, numCUAck>>
      /\ UNCHANGED <<outside, numAddrTranslationFlushAck, numTLBAck, numCacheACK,
                     shootDownInProcess, currFlushRequest>>
  BY DEF ProcessAddressTranslatorRestartRsp, AckUnchanged, outside, drvVars, migVars, gpuVars
<1>3. ATRestart /\ order = "restart"
  <2>1. ~ ATStop
    BY <1>2 DEF ATStop, Stage
  <2> QED  BY <1>1, <2>1, StageOf, Units DEF Pending
<1>n. PICK n : n = numAddrTranslationRestartAck
  OBVIOUS
<1>4. /\ n \in Nat /\ n # 0
      /\ n - 1 = 0 <=> sent \cup acked' = {}
      /\ sent' = sent => Round(AT, "restart", n - 1)'
  <2>1. Round(AT, "restart", n)
    BY <1>3, <1>n DEF ATRestart, Stage
  <2> QED  BY <1>1, <1>3, <2>1, Units, RoundGoesOn
<1>5. CASE numAddrTranslationRestartAck' # 0
  <2>0. Round(AT, "restart", n - 1)' /\ numAddrTranslationRestartAck' = n - 1
    BY <1>2, <1>4, <1>5, <1>n
  <2>1. Round(AT, "restart", numAddrTranslationRestartAck)'
    BY <2>0 DEF Round
  <2>2. ATRestart'
    BY <1>2, <1>3, <1>5, <2>1 DEF ATRestart, Stage, Are, Counters
  <2> QED  BY <1>2, <1>3, <2>2, RestartGoesOn DEF Restart, IInv, CPType
<1>6. CASE numAddrTranslationRestartAck' = 0
  <2>1. sent \cup acked' = {}
    BY <1>2, <1>4, <1>6, <1>n
  <2>2. /\ Round(CU, "restart", Cardinality(CU))' /\ Cardinality(CU) # 0
        /\ sent' = CU \X {"restart"}
    BY <1>2, <1>6, <2>1, Units, RoundBegins
  <2>c. Cardinality(CU) \in Nat /\ numCUAck = 0
    BY <1>3, Units, FiniteUnits DEF ATRestart, Counters
  <2>d. numCUAck' = numCUAck + Cardinality(CU)
    BY <1>2, <1>6
  <2>3. numCUAck' = Cardinality(CU)
    BY <2>c, <2>d
  <2>4. Round(CU, "restart", numCUAck)'
    BY <2>2, <2>3 DEF Round
  <2>5. Are(AT, "run")
    BY <1>3, <2>1 DEF ATRestart, Stage, Are
  <2>6. CURestart'
    BY <1>2, <1>3, <1>6, <2>2, <2>3, <2>4, <2>5 DEF ATRestart, CURestart, Stage, Are, Counters
  <2> QED  BY <1>2, <1>3, <2>6, RestartGoesOn DEF Restart, IInv, CPType
<1> QED  BY <1>5, <1>6

LEMMA ProcessCacheRestartRspInv == IInv /\ ProcessCacheRestartRsp => IInv'
<1> SUFFICES ASSUME IInv, ProcessCacheRestartRsp  PROVE IInv'
  OBVIOUS
<1>1. PICK u \in Cache : <<u, "restart">> \in acked /\ acked' = acked \ {<<u, "restart">>}
  BY DEF ProcessCacheRestartRsp, Acked
<1>2. /\ numCacheACK' = numCacheACK - 1 /\ mode' = mode
      /\ numCacheACK' = 0 => Tell(TLB, "restart") /\ numTLBAck' = numTLBAck + Cardinality(TLB)
      /\ numCacheACK' # 0 => UNCHANGED <<sent, numTLBAck>>
      /\ UNCHANGED <<outside, numAddrTranslationFlushAck, numAddrTranslationRestartAck, numCUAck,
                     shootDownInProcess, currFlushRequest>>
  BY DEF ProcessCacheRestartRsp, AckUnchanged, outside, drvVars, migVars, gpuVars
<1>3. CacheRestart
  BY <1>1, StageOf, Units DEF Pending
<1>n. PICK n : n = numCacheACK
  OBVIOUS
<1>4. /\ n \in Nat /\ n # 0
      /\ n - 1 = 0 <=> sent \cup acked' = {}
      /\ sent' = sent => Round(Cache, "restart", n - 1)'
  <2>1. Round(Cache, "restart", n)
    BY <1>3, <1>n DEF CacheRestart, Stage
  <2> QED  BY <1>1, <1>3, <2>1, Units, RoundGoesOn
<1>5. CASE numCacheACK' # 0
  <2>0. Round(Cache, "restart", n - 1)' /\ numCacheACK' = n - 1
    BY <1>2, <1>4, <1>5, <1>n
  <2>1. Round(Cache, "restart", numCacheACK)'
    BY <2>0 DEF Round
  <2>2. CacheRestart'
    BY <1>2, <1>3, <1>5, <2>1 DEF CacheRestart, Stage, Are, Counters
  <2> QED  BY <1>2, <1>3, <2>2, RestartGoesOn DEF Restart, IInv, CPType
<1>6. CASE numCacheACK' = 0
  <2>1. sent \cup acked' = {}
    BY <1>2, <1>4, <1>6, <1>n
  <2>2. /\ Round(TLB, "restart", Cardinality(TLB))' /\ Cardinality(TLB) # 0
        /\ sent' = TLB \X {"restart"}
    BY <1>2, <1>6, <2>1, Units, RoundBegins
  <2>c. Cardinality(TLB) \in Nat /\ numTLBAck = 0
    BY <1>3, Units, FiniteUnits DEF CacheRestart, Counters
  <2>d. numTLBAck' = numTLBAck + Cardinality(TLB)
    BY <1>2, <1>6
  <2>3. numTLBAck' = Cardinality(TLB)
    BY <2>c, <2>d
  <2>4. Round(TLB, "restart", numTLBAck)'
    BY <2>2, <2>3 DEF Round
  <2>5. Are(Cache, "run")
    BY <1>3, <2>1 DEF CacheRestart, Stage, Are
  <2>6. TLBRestart'
    BY <1>2, <1>3, <1>6, <2>2, <2>3, <2>4, <2>5 DEF CacheRestart, TLBRestart, Stage, Are, Counters
  <2> QED  BY <1>2, <1>3, <2>6, RestartGoesOn DEF Restart, IInv, CPType
<1> QED  BY <1>5, <1>6

LEMMA ProcessTLBRestartRspInv == IInv /\ ProcessTLBRestartRsp => IInv'
<1> SUFFICES ASSUME IInv, ProcessTLBRestartRsp  PROVE IInv'
  OBVIOUS
<1>1. PICK u \in TLB : <<u, "restart">> \in acked /\ acked' = acked \ {<<u, "restart">>}
  BY DEF ProcessTLBRestartRsp, Acked
<1>2. /\ numTLBAck' = numTLBAck - 1 /\ mode' = mode
      /\ numTLBAck' = 0 =>
           /\ Tell(AT, "restart")
           /\ numAddrTranslationRestartAck' = numAddrTranslationRestartAck + Cardinality(AT)
      /\ numTLBAck' # 0 => UNCHANGED <<sent, numAddrTranslationRestartAck>>
      /\ UNCHANGED <<outside, numAddrTranslationFlushAck, numCacheACK, numCUAck,
                     shootDownInProcess, currFlushRequest>>
  BY DEF ProcessTLBRestartRsp, AckUnchanged, outside, drvVars, migVars, gpuVars
<1>3. TLBRestart
  BY <1>1, StageOf, Units DEF Pending
<1>n. PICK n : n = numTLBAck
  OBVIOUS
<1>4. /\ n \in Nat /\ n # 0
      /\ n - 1 = 0 <=> sent \cup acked' = {}
      /\ sent' = sent => Round(TLB, "restart", n - 1)'
  <2>1. Round(TLB, "restart", n)
    BY <1>3, <1>n DEF TLBRestart, Stage
  <2> QED  BY <1>1, <1>3, <2>1, Units, RoundGoesOn
<1>5. CASE numTLBAck' # 0
  <2>0. Round(TLB, "restart", n - 1)' /\ numTLBAck' = n - 1
    BY <1>2, <1>4, <1>5, <1>n
  <2>1. Round(TLB, "restart", numTLBAck)'
    BY <2>0 DEF Round
  <2>2. TLBRestart'
    BY <1>2, <1>3, <1>5, <2>1 DEF TLBRestart, Stage, Are, Counters
  <2> QED  BY <1>2, <1>3, <2>2, RestartGoesOn DEF Restart, IInv, CPType
<1>6. CASE numTLBAck' = 0
  <2>1. sent \cup acked' = {}
    BY <1>2, <1>4, <1>6, <1>n
  <2>2. /\ Round(AT, "restart", Cardinality(AT))' /\ Cardinality(AT) # 0
        /\ sent' = AT \X {"restart"}
    BY <1>2, <1>6, <2>1, Units, RoundBegins
  <2>c. Cardinality(AT) \in Nat /\ numAddrTranslationRestartAck = 0
    BY <1>3, Units, FiniteUnits DEF TLBRestart, Counters
  <2>d. numAddrTranslationRestartAck' = numAddrTranslationRestartAck + Cardinality(AT)
    BY <1>2, <1>6
  <2>3. numAddrTranslationRestartAck' = Cardinality(AT)
    BY <2>c, <2>d
  <2>4. Round(AT, "restart", numAddrTranslationRestartAck)'
    BY <2>2, <2>3 DEF Round
  <2>5. Are(TLB, "run")
    BY <1>3, <2>1 DEF TLBRestart, Stage, Are
  <2>6. ATRestart'
    BY <1>2, <1>3, <1>6, <2>2, <2>3, <2>4, <2>5 DEF TLBRestart, ATRestart, Stage, Are, Counters
  <2> QED  BY <1>2, <1>3, <2>6, RestartGoesOn DEF Restart, IInv, CPType
<1> QED  BY <1>5, <1>6

\* The last acknowledgement of the last stage answers the command.
LEMMA LastOfStages ==
  ASSUME IInv, NEW k \in {"shootdown", "restart"}, Respond(Alone(k)),
         \/ k = "shootdown" /\ Stop /\ Resting("stopped")'
         \/ k = "restart" /\ Restart /\ Resting("run")',
         UNCHANGED <<ToDriver, waitsFor, migration, shot, relay, bottomMemCopy, mode,
                     currFlushRequest>>
  PROVE  IInv'
<1>1. /\ k \in MigKind /\ migration = k /\ shot /\ ~ Flushing
      /\ ~ Asked(Alone(k)) /\ ~ Told(Alone(k)) /\ currFlushRequest = None
  BY InStages DEF MigKind
<1>2. /\ (toDriverSender \in Seq(Request))' /\ Once(toDriverSender)'
      /\ \A x : Told(x)' <=> Told(x) \/ x = Alone(k)
  BY <1>1, RespondStep, RequestKinds
<1>3. \A x : Asked(x)' <=> Asked(x)
  BY DEF Asked
<1>4. ~ Relaying(k) /\ ~ Relaying(k)'
  BY <1>1, InStages DEF IInv, CPType, Relaying, Relayed
<1>5. CPType'
  BY <1>2 DEF IInv, CPType
<1>6. PlaceInv'
  BY <1>1, <1>2, <1>3, <1>4, RequestKinds DEF IInv, PlaceInv, Relaying
<1>7. FlushInv'
  BY <1>1, <1>2, <1>3, RequestKinds DEF IInv, FlushInv
<1>8. Flushing' <=> Flushing
  BY DEF Flushing
<1>9. PhaseInv'
  BY <1>1, <1>2, <1>3, <1>8 DEF PhaseInv, Through
<1> QED  BY <1>5, <1>6, <1>7, <1>9 DEF IInv

\* With nothing under way there is no round.
LEMMA NoRound == Pending = {} => Round(Cache, "flush", 0)
<1> SUFFICES ASSUME Pending = {}  PROVE Round(Cache, "flush", 0)
  OBVIOUS
<1>1. Waiting(Cache, "flush") = {}
  BY DEF Waiting
<1> QED  BY <1>1, FS_EmptySet DEF Round, Pending

LEMMA ProcessTLBFlushRspInv == IInv /\ ProcessTLBFlushRsp => IInv'
<1> SUFFICES ASSUME IInv, ProcessTLBFlushRsp  PROVE IInv'
  OBVIOUS
<1>1. PICK u \in TLB : <<u, "stop">> \in acked /\ acked' = acked \ {<<u, "stop">>}
  BY DEF ProcessTLBFlushRsp, Acked
<1>2. /\ numTLBAck' = numTLBAck - 1 /\ mode' = mode
      /\ UNCHANGED <<ToDriver, waitsFor, migration, shot, relay, bottomMemCopy, sent,
                     numAddrTranslationFlushAck, numAddrTranslationRestartAck, numCacheACK,
                     numCUAck, currFlushRequest>>
  BY DEF ProcessTLBFlushRsp, AckUnchanged, drvVars, migVars, gpuVars
<1>3. TLBStop
  BY <1>1, StageOf, Units DEF Pending
<1>n. PICK n : n = numTLBAck
  OBVIOUS
<1>4. /\ n \in Nat /\ n # 0
      /\ n - 1 = 0 <=> sent \cup acked' = {}
      /\ Round(TLB, "stop", n - 1)'
  <2>1. Round(TLB, "stop", n)
    BY <1>3, <1>n DEF TLBStop, Stage
  <2> QED  BY <1>1, <1>2, <1>3, <2>1, Units, RoundGoesOn
<1>5. CASE numTLBAck' # 0
  <2>1. Round(TLB, "stop", n - 1)' /\ numTLBAck' = n - 1
    BY <1>2, <1>4, <1>n
  <2>2. Round(TLB, "stop", numTLBAck)'
    BY <2>1 DEF Round
  <2>3. shootDownInProcess' = shootDownInProcess /\ toDriverSender' = toDriverSender
    BY <1>5 DEF ProcessTLBFlushRsp
  <2>4. TLBStop'
    BY <1>2, <1>3, <1>5, <2>2, <2>3 DEF TLBStop, Stage, Are, Counters
  <2> QED  BY <1>2, <1>3, <2>3, <2>4, StopGoesOn DEF Stop, IInv, CPType, outside
<1>6. CASE numTLBAck' = 0
  <2>1. sent' = {} /\ acked' = {}
    BY <1>2, <1>4, <1>6, <1>n
  <2>2. shootDownInProcess' = FALSE
    BY <1>6 DEF ProcessTLBFlushRsp
  <2>3. Round(Cache, "flush", numCacheACK)' /\ numCacheACK' = 0
    <3>0. (Pending = {})'
      BY <2>1 DEF Pending
    <3>1. Round(Cache, "flush", 0)'
      BY <3>0, NoRound, PTL
    <3>2. numCacheACK' = 0
      BY <1>2, <1>3 DEF TLBStop, Counters
    <3> QED  BY <3>1, <3>2 DEF Round
  <2>4. Are(TLB, "stopped")
    BY <1>2, <1>3, <2>1 DEF TLBStop, Stage, Are
  <2>5. Resting("stopped")'
    <3>1. Are(Unit, "stopped")'
      BY <1>2, <1>3, <2>4, Units DEF TLBStop, Are
    <3>2. ~ shootDownInProcess'
      BY <2>2
    <3>3. currFlushRequest' = None
      BY <1>2, <1>3 DEF TLBStop, Stage
    <3>4. Counters' = <<0, 0, 0, 0, numCacheACK'>>
      BY <1>2, <1>3, <1>6, <2>3 DEF TLBStop, Counters
    <3> QED  BY <2>3, <3>1, <3>2, <3>3, <3>4 DEF Resting
  <2>6. Stop
    BY <1>3 DEF Stop
  <2>7. Respond(Alone("shootdown"))
    BY <1>6 DEF ProcessTLBFlushRsp
  <2> QED  BY <1>2, <2>5, <2>6, <2>7, LastOfStages
<1> QED  BY <1>5, <1>6

LEMMA ProcessCUPipelineRestartRspInv == IInv /\ ProcessCUPipelineRestartRsp => IInv'
<1> SUFFICES ASSUME IInv, ProcessCUPipelineRestartRsp  PROVE IInv'
  OBVIOUS
<1>1. PICK u \in CU : <<u, "restart">> \in acked /\ acked' = acked \ {<<u, "restart">>}
  BY DEF ProcessCUPipelineRestartRsp, Acked
<1>2. /\ numCUAck' = numCUAck - 1 /\ mode' = mode
      /\ UNCHANGED <<ToDriver, waitsFor, migration, shot, relay, bottomMemCopy, sent,
                     numAddrTranslationFlushAck, numAddrTranslationRestartAck, numCacheACK,
                     numTLBAck, shootDownInProcess, currFlushRequest>>
  BY DEF ProcessCUPipelineRestartRsp, AckUnchanged, drvVars, migVars, gpuVars
<1>3. CURestart
  BY <1>1, StageOf, Units DEF Pending
<1>n. PICK n : n = numCUAck
  OBVIOUS
<1>4. /\ n \in Nat /\ n # 0
      /\ n - 1 = 0 <=> sent \cup acked' = {}
      /\ Round(CU, "restart", n - 1)'
  <2>1. Round(CU, "restart", n)
    BY <1>3, <1>n DEF CURestart, Stage
  <2> QED  BY <1>1, <1>2, <1>3, <2>1, Units, RoundGoesOn
<1>5. CASE numCUAck' # 0
  <2>1. Round(CU, "restart", n - 1)' /\ numCUAck' = n - 1
    BY <1>2, <1>4, <1>n
  <2>2. Round(CU, "restart", numCUAck)'
    BY <2>1 DEF Round
  <2>3. toDriverSender' = toDriverSender
    BY <1>5 DEF ProcessCUPipelineRestartRsp
  <2>4. CURestart'
    BY <1>2, <1>3, <1>5, <2>2 DEF CURestart, Stage, Are, Counters
  <2> QED  BY <1>2, <1>3, <2>3, <2>4, RestartGoesOn DEF Restart, IInv, CPType, outside
<1>6. CASE numCUAck' = 0
  <2>1. sent' = {} /\ acked' = {}
    BY <1>2, <1>4, <1>6, <1>n
  <2>2. Respond(Alone("restart"))
    BY <1>6 DEF ProcessCUPipelineRestartRsp
  <2>3. Round(Cache, "flush", numCacheACK)' /\ numCacheACK' = 0
    <3>0. (Pending = {})'
      BY <2>1 DEF Pending
    <3>1. Round(Cache, "flush", 0)'
      BY <3>0, NoRound, PTL
    <3>2. numCacheACK' = 0
      BY <1>2, <1>3 DEF CURestart, Counters
    <3> QED  BY <3>1, <3>2 DEF Round
  <2>4. Are(CU, "run")
    BY <1>2, <1>3, <2>1 DEF CURestart, Stage, Are
  <2>5. Resting("run")'
    BY <1>2, <1>3, <1>6, <2>3, <2>4, Units DEF CURestart, Stage, Resting, Are, Counters
  <2> QED  BY <1>2, <1>3, <2>2, <2>5, LastOfStages DEF Restart
<1> QED  BY <1>5, <1>6

\* An acknowledgement of a cache for the flush of the driver.
LEMMA FlushGoesOn ==
  ASSUME IInv, ProcessCacheFlushRsp, NEW u \in Cache, <<u, "flush">> \in acked,
         acked' = acked \ {<<u, "flush">>}
  PROVE  IInv'
<1>1. /\ numCacheACK' = numCacheACK - 1 /\ mode' = mode
      /\ UNCHANGED <<ToDriver, waitsFor, migration, shot, relay, bottomMemCopy, numCUAck,
                     numAddrTranslationFlushAck, numAddrTranslationRestartAck,
                     shootDownInProcess>>
  BY DEF ProcessCacheFlushRsp, AckUnchanged, drvVars, migVars, gpuVars
<1>2. Resting("run") \/ Resting("stopped")
  BY StageOf, Units DEF Pending
<1>n. PICK n : n = numCacheACK
  OBVIOUS
<1>3. /\ n \in Nat /\ n # 0
      /\ n - 1 = 0 <=> sent \cup acked' = {}
      /\ sent' = sent => Round(Cache, "flush", n - 1)'
  <2>1. Round(Cache, "flush", n)
    BY <1>2, <1>n DEF Resting
  <2> QED  BY <2>1, Units, RoundGoesOn
<1>4. PICK q \in Queue : currFlushRequest = Flush(q)
  BY <1>2, <1>3, <1>n DEF Resting, IInv, CPType
<1>5. /\ ~ Asked(Flush(q)) /\ ~ Told(Flush(q)) /\ Flush(q) \in waitsFor[q]
      /\ Flushing
  BY <1>4 DEF IInv, FlushInv, Flushing, Flush
<1>6. /\ sent' = sent /\ numTLBAck' = numTLBAck
      /\ \/ numCacheACK' > 0 /\ UNCHANGED <<toDriverSender, currFlushRequest>>
         \/ numCacheACK' = 0 /\ Respond(Flush(q)) /\ currFlushRequest' = None
  BY <1>2, <1>4 DEF ProcessCacheFlushRsp, Resting
<1>7. Round(Cache, "flush", numCacheACK)'
  <2>1. Round(Cache, "flush", n - 1)' /\ numCacheACK' = n - 1
    BY <1>1, <1>3, <1>6, <1>n
  <2> QED  BY <2>1 DEF Round
<1>8. (numCacheACK # 0 <=> currFlushRequest # None)'
  BY <1>4, <1>6, RequestKinds
<1>9. (Resting("run") => Resting("run")') /\ (Resting("stopped") => Resting("stopped")')
  BY <1>1, <1>6, <1>7, <1>8 DEF Resting, Are, Counters
<1>10. PhaseInv'
  BY <1>1, <1>5, <1>9 DEF IInv, PhaseInv, Through
<1>11. \A x : Asked(x)' <=> Asked(x)
  BY <1>1 DEF Asked
<1>12. CASE UNCHANGED <<toDriverSender, currFlushRequest>>
  <2>1. \A x : Told(x)' <=> Told(x)
    BY <1>12 DEF Told
  <2>2. CPType' /\ PlaceInv' /\ FlushInv'
    BY <1>1, <1>11, <1>12, <2>1 DEF IInv, CPType, PlaceInv, FlushInv, Relaying
  <2> QED  BY <1>10, <2>2 DEF IInv
<1>13. CASE Respond(Flush(q)) /\ currFlushRequest' = None
  <2>1. /\ (toDriverSender \in Seq(Request))' /\ Once(toDriverSender)'
        /\ \A x : Told(x)' <=> Told(x) \/ x = Flush(q)
    BY <1>5, <1>13, RespondStep, RequestKinds
  <2>2. CPType'
    BY <1>1, <1>13, <2>1 DEF IInv, CPType
  <2>3. PlaceInv'
    BY <1>1, <1>11, <2>1, RequestKinds DEF IInv, PlaceInv, Relaying
  <2>4. FlushInv'
    BY <1>1, <1>5, <1>11, <1>13, <2>1, RequestKinds DEF IInv, FlushInv
  <2> QED  BY <1>10, <2>2, <2>3, <2>4 DEF IInv
<1> QED  BY <1>6, <1>12, <1>13

\* An acknowledgement of a cache that is being stopped.
LEMMA CacheStopGoesOn ==
  ASSUME IInv, ProcessCacheFlushRsp, NEW u \in Cache, <<u, "stop">> \in acked,
         acked' = acked \ {<<u, "stop">>}
  PROVE  IInv'
<1>1. /\ numCacheACK' = numCacheACK - 1 /\ mode' = mode
      /\ UNCHANGED <<ToDriver, waitsFor, migration, shot, relay, bottomMemCopy, numCUAck,
                     numAddrTranslationFlushAck, numAddrTranslationRestartAck,
                     shootDownInProcess>>
  BY DEF ProcessCacheFlushRsp, AckUnchanged, drvVars, migVars, gpuVars
<1>2. CacheStop
  BY StageOf, Units DEF Pending
<1>n. PICK n : n = numCacheACK
  OBVIOUS
<1>3. /\ n \in Nat /\ n # 0
      /\ n - 1 = 0 <=> sent \cup acked' = {}
      /\ sent' = sent => Round(Cache, "stop", n - 1)'
  <2>1. Round(Cache, "stop", n)
    BY <1>2, <1>n DEF CacheStop, Stage
  <2> QED  BY <2>1, Units, RoundGoesOn
<1>4. /\ toDriverSender' = toDriverSender /\ currFlushRequest' = None
      /\ \/ numCacheACK' > 0 /\ UNCHANGED <<sent, numTLBAck>>
         \/ /\ numCacheACK' = 0 /\ Tell(TLB, "stop")
            /\ numTLBAck' = numTLBAck + Cardinality(TLB)
  BY <1>2 DEF ProcessCacheFlushRsp, CacheStop, Stage
<1>5. UNCHANGED outside /\ mode' \in [Unit -> {"run", "stopped"}]
  BY <1>1, <1>4 DEF outside, IInv, CPType
<1>6. CASE numCacheACK' > 0 /\ UNCHANGED <<sent, numTLBAck>>
  <2>1. Round(Cache, "stop", n - 1)' /\ numCacheACK' = n - 1
    BY <1>1, <1>3, <1>6, <1>n
  <2>2. Round(Cache, "stop", numCacheACK)'
    BY <2>1 DEF Round
  <2>3. CacheStop'
    BY <1>1, <1>2, <1>4, <1>6, <2>2 DEF CacheStop, Stage, Are, Counters
  <2> QED  BY <1>2, <1>5, <2>3, StopGoesOn DEF Stop
<1>7. CASE /\ numCacheACK' = 0 /\ Tell(TLB, "stop")
           /\ numTLBAck' = numTLBAck + Cardinality(TLB)
  <2>1. sent \cup acked' = {}
    BY <1>1, <1>3, <1>7, <1>n
  <2>2. /\ Round(TLB, "stop", Cardinality(TLB))' /\ Cardinality(TLB) # 0
        /\ sent' = TLB \X {"stop"}
    BY <1>7, <2>1, Units, RoundBegins
  <2>3. Cardinality(TLB) \in Nat /\ numTLBAck = 0
    BY <1>2, Units, FiniteUnits DEF CacheStop, Counters
  <2>4. numTLBAck' = numTLBAck + Cardinality(TLB)
    BY <1>7
  <2>5. numTLBAck' = Cardinality(TLB)
    BY <2>3, <2>4
  <2>6. Round(TLB, "stop", numTLBAck)'
    BY <2>2, <2>5 DEF Round
  <2>7. Are(Cache, "stopped")
    BY <1>2, <2>1 DEF CacheStop, Stage, Are
  <2>8. TLBStop'
    BY <1>1, <1>2, <1>4, <1>7, <2>2, <2>5, <2>6, <2>7 DEF CacheStop, TLBStop, Stage, Are, Counters
  <2> QED  BY <1>2, <1>5, <2>8, StopGoesOn DEF Stop
<1> QED  BY <1>4, <1>6, <1>7

LEMMA ProcessCacheFlushRspInv == IInv /\ ProcessCacheFlushRsp => IInv'
<1> SUFFICES ASSUME IInv, ProcessCacheFlushRsp  PROVE IInv'
  OBVIOUS
<1>1. PICK order \in {"stop", "flush"}, u \in Cache :
        <<u, order>> \in acked /\ acked' = acked \ {<<u, order>>}
  BY DEF ProcessCacheFlushRsp, Acked
<1> QED  BY <1>1, FlushGoesOn, CacheStopGoesOn

-----------------------------------------------------------------------------
(* The units obey.                                                         *)

\* A unit that obeys comes to the mode its stage is for.
LEMMA ObeyStage ==
  ASSUME CPType, NEW units \in SUBSET Unit, NEW order, NEW n, NEW from, NEW to,
         Stage(units, order, n, from, to), NEW u \in units, <<u, order>> \in sent,
         sent' = sent \ {<<u, order>>}, acked' = acked \cup {<<u, order>>},
         mode' = [mode EXCEPT ![u] = to], currFlushRequest' = currFlushRequest
  PROVE  Stage(units, order, n, from, to)'
<1>1. Round(units, order, n)'
  BY RoundObeys DEF Stage
<1>2. /\ mode'[u] = to
      /\ \A v \in units : v # u => mode'[v] = mode[v]
  BY DEF CPType
<1>3. /\ <<u, order>> \notin sent'
      /\ \A v \in units : v # u => (<<v, order>> \in sent' <=> <<v, order>> \in sent)
  OBVIOUS
<1>4. \A v \in units : mode'[v] = IF <<v, order>> \in sent' THEN from ELSE to
  BY <1>2, <1>3 DEF Stage
<1> QED  BY <1>1, <1>4 DEF Stage

LEMMA ObeyInv ==
  ASSUME IInv, NEW u \in Unit, NEW order \in {"stop", "flush", "restart"}, Obey(u, order)
  PROVE  IInv'
<1> DEFINE to == CASE order = "stop" -> "stopped" [] order = "restart" -> "run"
                   [] OTHER -> mode[u]
<1>1. /\ <<u, order>> \in sent /\ sent' = sent \ {<<u, order>>}
      /\ acked' = acked \cup {<<u, order>>}
      /\ mode' = [mode EXCEPT ![u] = to]
      /\ UNCHANGED <<outside, cntVars, shootDownInProcess, currFlushRequest>>
  BY DEF Obey, outside, drvVars, migVars, cpVars
<1>2. /\ order = "stop" => to = "stopped"
      /\ order = "restart" => to = "run"
      /\ order = "flush" => to = mode[u]
  OBVIOUS
<1> HIDE DEF to
<1>3. /\ mode' \in [Unit -> {"run", "stopped"}]
      /\ \A v \in Unit : v # u => mode'[v] = mode[v]
      /\ order = "flush" => mode' = mode
  BY <1>1, <1>2 DEF IInv, CPType
<1>4. UNCHANGED <<numCUAck, numAddrTranslationFlushAck, numAddrTranslationRestartAck,
                  numTLBAck, numCacheACK>>
  BY <1>1 DEF cntVars
<1>5. \A units \in SUBSET Unit : \A m :
        u \notin units /\ Are(units, m) => Are(units, m)'
  BY <1>3 DEF Are
<1>6. CASE u \in CU /\ order = "stop" /\ CUStop
  <2>n. PICK n : n = numCUAck
    OBVIOUS
  <2>1. Stage(CU, "stop", n, "run", "stopped")'
    BY <1>1, <1>2, <1>6, <2>n, ObeyStage, Units DEF CUStop, IInv
  <2>2. Stage(CU, "stop", numCUAck, "run", "stopped")'
    BY <1>4, <2>n, <2>1 DEF Stage, Round
  <2>3. Are(AT \cup Cache \cup TLB, "run")'
    BY <1>5, <1>6, Units DEF CUStop
  <2>4. CUStop'
    BY <1>1, <1>4, <1>6, <2>2, <2>3 DEF CUStop, Counters
  <2> QED  BY <1>1, <1>3, <1>6, <2>4, StopGoesOn DEF Stop
<1>7. CASE u \in AT /\ order = "stop" /\ ATStop
  <2>n. PICK n : n = numAddrTranslationFlushAck
    OBVIOUS
  <2>1. Stage(AT, "stop", n, "run", "stopped")'
    BY <1>1, <1>2, <1>7, <2>n, ObeyStage, Units DEF ATStop, IInv
  <2>2. Stage(AT, "stop", numAddrTranslationFlushAck, "run", "stopped")'
    BY <1>4, <2>n, <2>1 DEF Stage, Round
  <2>3. Are(CU, "stopped")' /\ Are(Cache \cup TLB, "run")'
    BY <1>5, <1>7, Units DEF ATStop
  <2>4. ATStop'
    BY <1>1, <1>4, <1>7, <2>2, <2>3 DEF ATStop, Counters
  <2> QED  BY <1>1, <1>3, <1>7, <2>4, StopGoesOn DEF Stop
<1>8. CASE u \in Cache /\ order = "stop" /\ CacheStop
  <2>n. PICK n : n = numCacheACK
    OBVIOUS
  <2>1. Stage(Cache, "stop", n, "run", "stopped")'
    BY <1>1, <1>2, <1>8, <2>n, ObeyStage, Units DEF CacheStop, IInv
  <2>2. Stage(Cache, "stop", numCacheACK, "run", "stopped")'
    BY <1>4, <2>n, <2>1 DEF Stage, Round
  <2>3. Are(CU \cup AT, "stopped")' /\ Are(TLB, "run")'
    BY <1>5, <1>8, Units DEF CacheStop
  <2>4. CacheStop'
    BY <1>1, <1>4, <1>8, <2>2, <2>3 DEF CacheStop, Counters
  <2> QED  BY <1>1, <1>3, <1>8, <2>4, StopGoesOn DEF Stop
<1>9. CASE u \in TLB /\ order = "stop" /\ TLBStop
  <2>n. PICK n : n = numTLBAck
    OBVIOUS
  <2>1. Stage(TLB, "stop", n, "run", "stopped")'
    BY <1>1, <1>2, <1>9, <2>n, ObeyStage, Units DEF TLBStop, IInv
  <2>2. Stage(TLB, "stop", numTLBAck, "run", "stopped")'
    BY <1>4, <2>n, <2>1 DEF Stage, Round
  <2>3. Are(CU \cup AT \cup Cache, "stopped")'
    BY <1>5, <1>9, Units DEF TLBStop
  <2>4. TLBStop'
    BY <1>1, <1>4, <1>9, <2>2, <2>3 DEF TLBStop, Counters
  <2> QED  BY <1>1, <1>3, <1>9, <2>4, StopGoesOn DEF Stop
<1>10. CASE u \in Cache /\ order = "restart" /\ CacheRestart
  <2>n. PICK n : n = numCacheACK
    OBVIOUS
  <2>1. Stage(Cache, "restart", n, "stopped", "run")'
    BY <1>1, <1>2, <1>10, <2>n, ObeyStage, Units DEF CacheRestart, IInv
  <2>2. Stage(Cache, "restart", numCacheACK, "stopped", "run")'
    BY <1>4, <2>n, <2>1 DEF Stage, Round
  <2>3. Are(CU \cup AT \cup TLB, "stopped")'
    BY <1>5, <1>10, Units DEF CacheRestart
  <2>4. CacheRestart'
    BY <1>1, <1>4, <1>10, <2>2, <2>3 DEF CacheRestart, Counters
  <2> QED  BY <1>1, <1>3, <1>10, <2>4, RestartGoesOn DEF Restart
<1>11. CASE u \in TLB /\ order = "restart" /\ TLBRestart
  <2>n. PICK n : n = numTLBAck
    OBVIOUS
  <2>1. Stage(TLB, "restart", n, "stopped", "run")'
    BY <1>1, <1>2, <1>11, <2>n, ObeyStage, Units DEF TLBRestart, IInv
  <2>2. Stage(TLB, "restart", numTLBAck, "stopped", "run")'
    BY <1>4, <2>n, <2>1 DEF Stage, Round
  <2>3. Are(CU \cup AT, "stopped")' /\ Are(Cache, "run")'
    BY <1>5, <1>11, Units DEF TLBRestart
  <2>4. TLBRestart'
    BY <1>1, <1>4, <1>11, <2>2, <2>3 DEF TLBRestart, Counters
  <2> QED  BY <1>1, <1>3, <1>11, <2>4, RestartGoesOn DEF Restart
<1>12. CASE u \in AT /\ order = "restart" /\ ATRestart
  <2>n. PICK n : n = numAddrTranslationRestartAck
    OBVIOUS
  <2>1. Stage(AT, "restart", n, "stopped", "run")'
    BY <1>1, <1>2, <1>12, <2>n, ObeyStage, Units DEF ATRestart, IInv
  <2>2. Stage(AT, "restart", numAddrTranslationRestartAck, "stopped", "run")'
    BY <1>4, <2>n, <2>1 DEF Stage, Round
  <2>3. Are(CU, "stopped")' /\ Are(Cache \cup TLB, "run")'
    BY <1>5, <1>12, Units DEF ATRestart
  <2>4. ATRestart'
    BY <1>1, <1>4, <1>12, <2>2, <2>3 DEF ATRestart, Counters
  <2> QED  BY <1>1, <1>3, <1>12, <2>4, RestartGoesOn DEF Restart
<1>13. CASE u \in CU /\ order = "restart" /\ CURestart
  <2>n. PICK n : n = numCUAck
    OBVIOUS
  <2>1. Stage(CU, "restart", n, "stopped", "run")'
    BY <1>1, <1>2, <1>13, <2>n, ObeyStage, Units DEF CURestart, IInv
  <2>2. Stage(CU, "restart", numCUAck, "stopped", "run")'
    BY <1>4, <2>n, <2>1 DEF Stage, Round
  <2>3. Are(AT \cup Cache \cup TLB, "run")'
    BY <1>5, <1>13, Units DEF CURestart
  <2>4. CURestart'
    BY <1>1, <1>4, <1>13, <2>2, <2>3 DEF CURestart, Counters
  <2> QED  BY <1>1, <1>3, <1>13, <2>4, RestartGoesOn DEF Restart
<1>14. CASE u \in Cache /\ order = "flush" /\ (Resting("run") \/ Resting("stopped"))
  <2>n. PICK n : n = numCacheACK
    OBVIOUS
  <2>1. Round(Cache, "flush", n)'
    BY <1>1, <1>14, <2>n, RoundObeys DEF Resting
  <2>2. Round(Cache, "flush", numCacheACK)'
    BY <1>4, <2>n, <2>1 DEF Round
  <2>3. (Resting("run") => Resting("run")') /\ (Resting("stopped") => Resting("stopped")')
    BY <1>1, <1>3, <1>4, <1>14, <2>2 DEF Resting, Are, Counters
  <2>4. numCacheACK # 0 /\ currFlushRequest # None
    <3>1. Pending # {} /\ Round(Cache, "flush", n)
      BY <1>1, <1>14, <2>n DEF Pending, Resting
    <3>2. n # 0
      BY <3>1, Units, RoundOver
    <3> QED  BY <1>14, <2>n, <3>2 DEF Resting
  <2>5. Flushing
    BY <2>4 DEF IInv, CPType, FlushInv, Flushing, Flush
  <2>6. PhaseInv'
    BY <1>1, <2>3, <2>5 DEF IInv, PhaseInv, Through, outside
  <2>7. \A x : (Asked(x)' <=> Asked(x)) /\ (Told(x)' <=> Told(x))
    BY <1>1 DEF Asked, Told, outside
  <2>8. CPType' /\ PlaceInv' /\ FlushInv'
    BY <1>1, <1>3, <2>7 DEF IInv, CPType, PlaceInv, FlushInv, Relaying, outside
  <2> QED  BY <2>6, <2>8 DEF IInv
<1> QED
  BY <1>1, <1>6, <1>7, <1>8, <1>9, <1>10, <1>11, <1>12, <1>13, <1>14, StageOf DEF Pending

-----------------------------------------------------------------------------
(* The theorems.                                                           *)

LEMMA InitIInv == Init /\ ~ Overlap => IInv
<1> SUFFICES ASSUME Init, ~ Overlap  PROVE IInv
  OBVIOUS
<1>1. \A x : ~ Asked(x) /\ ~ Told(x)
  BY DEF Init, Asked, Told, In
<1>2. CPType
  BY DEF Init, CPType
<1>3. PlaceInv
  BY <1>1 DEF Init, PlaceInv, Relaying, Once
<1>4. FlushInv
  BY <1>1, RequestKinds DEF Init, FlushInv
<1>5. Round(Cache, "flush", numCacheACK) /\ numCacheACK = 0
  <2>1. Round(Cache, "flush", 0)
    BY NoRound DEF Init, Pending
  <2> QED  BY <2>1 DEF Init
<1>6. PhaseInv
  BY <1>5 DEF Init, PhaseInv, Resting, Are, Counters
<1> QED  BY <1>2, <1>3, <1>4, <1>6 DEF IInv

LEMMA RequestStepInv == IInv /\ RequestStep => IInv'
BY ProcessLaunchKernelReqInv, ProcessFlushReqInv, ProcessMemCopyReqInv,
   ProcessShootdownCommandInv, ProcessGPURestartReqInv, RelayDownInv DEF RequestStep

LEMMA AckStepInv == IInv /\ AckStep => IInv'
BY ProcessCUPipelineFlushRspInv, ProcessAddressTranslatorFlushRspInv,
   ProcessCacheFlushRspInv, ProcessTLBFlushRspInv, ProcessCacheRestartRspInv,
   ProcessTLBRestartRspInv, ProcessAddressTranslatorRestartRspInv,
   ProcessCUPipelineRestartRspInv, ProcessMemCopyRspInv, RelayUpInv DEF AckStep

LEMMA DriverStepInv == IInv /\ DriverStep => IInv'
BY SendShootDownReqsInv, SendMigrationReqToCPInv, PrepareGPURestartReqsInv,
   PrepareRDMARestartReqsInv, ProcessReturnReqInv DEF DriverStep

\* Copies and kernels have no part in the stages.
LEMMA CopyStepInv == IInv /\ CopyStep => IInv'
<1> SUFFICES ASSUME IInv, CopyStep  PROVE IInv'
  OBVIOUS
<1>1. UNCHANGED <<ToDriver, toDriverSender, waitsFor, relay, migration, shot, unitState,
                  bottomMemCopy>>
  BY DEF CopyStep, DMASendToCP, unitState, drvVars, migVars, cpVars, unitVars, gpuVars
<1> QED  BY <1>1, NoStep

LEMMA KernelWritesInv ==
  ASSUME IInv, NEW q \in Queue, NEW c \in Cache, KernelWrites(q, c)
  PROVE  IInv'
<1>1. UNCHANGED <<ToDriver, toDriverSender, waitsFor, relay, migration, shot, unitState,
                  bottomMemCopy>>
  BY DEF KernelWrites, unitState, drvVars, migVars, cpVars
<1> QED  BY <1>1, NoStep

LEMMA StutterInv == IInv /\ UNCHANGED vars => IInv'
<1> SUFFICES ASSUME IInv, UNCHANGED vars  PROVE IInv'
  OBVIOUS
<1>1. UNCHANGED <<ToDriver, toDriverSender, waitsFor, relay, migration, shot, unitState,
                  bottomMemCopy>>
  BY DEF vars, unitState, drvVars, migVars, cpVars, unitVars, gpuVars
<1> QED  BY <1>1, NoStep

LEMMA NextIInv == IInv /\ [Next]_vars => IInv'
<1> SUFFICES ASSUME IInv, [Next]_vars  PROVE IInv'
  OBVIOUS
<1>1. CASE \E q \in Queue : ProcessLaunchKernelCommand(q) \/ ProcessMemCopyCommand(q)
  BY <1>1, ProcessLaunchKernelCommandInv, ProcessMemCopyCommandInv
<1>2. CASE InitiateRDMADrain \/ DriverStep
  BY <1>2, InitiateRDMADrainInv, DriverStepInv
<1>3. CASE CPStep
  BY <1>3, RequestStepInv, AckStepInv DEF CPStep
<1>4. CASE CopyStep
  BY <1>4, CopyStepInv
<1>5. CASE UnitStep
  BY <1>5, ObeyInv, ServeRelayedInv DEF UnitStep
<1>6. CASE \E q \in Queue : KernelEnds(q) \/ \E c \in Cache : KernelWrites(q, c)
  BY <1>6, KernelEndsInv, KernelWritesInv
<1>7. CASE UNCHANGED vars
  BY <1>7, StutterInv
<1> QED  BY <1>1, <1>2, <1>3, <1>4, <1>5, <1>6, <1>7 DEF Next

\* The invariant: the orders under way are for one kind of unit, their number
\* is the counter of that stage, and the stage is the one between the command
\* of the driver and its answer.
THEOREM Invariance == Spec /\ ~ Overlap => []IInv
BY InitIInv, NextIInv, PTL DEF Spec

\* The invariant implies what StagesInOrder says.
LEMMA StagesFollow == IInv => StagesInOrder
<1> SUFFICES ASSUME IInv  PROVE StagesInOrder
  OBVIOUS
<1>1. /\ \A u \in CU, t \in AT : mode[u] = "run" => mode[t] = "run"
      /\ \A t \in AT, u \in Cache \cup TLB : mode[t] = "run" => mode[u] = "run"
      /\ shootDownInProcess =>
           \A c \in Cache, t \in TLB : mode[c] = "run" => mode[t] = "run"
  <2> USE Units DEF Are
  <2>1. CASE Stop
    BY <2>1 DEF Stop, CUStop, ATStop, CacheStop, TLBStop, Stage
  <2>2. CASE Restart
    BY <2>2 DEF Restart, CURestart, ATRestart, CacheRestart, TLBRestart, Stage
  <2>3. CASE Resting("run") \/ Resting("stopped")
    BY <2>3 DEF Resting
  <2> QED  BY <2>1, <2>2, <2>3, InStages
<1>2. /\ Told(Alone("shootdown")) => Resting("stopped")
      /\ Told(Alone("restart")) => Resting("run")
  BY DEF IInv, PlaceInv, PhaseInv, Through, MigKind
<1>3. \A i \in DOMAIN toDriverSender :
        /\ toDriverSender[i] = Alone("shootdown") => \A u \in Unit : mode[u] = "stopped"
        /\ toDriverSender[i] = Alone("restart") => \A u \in Unit : mode[u] = "run"
  BY <1>2 DEF Told, In, Resting, Are
<1> QED  BY <1>1, <1>3 DEF StagesInOrder

\* Units stop and restart in the order of their dependencies, and all of them
\* have when the command is answered, if the driver does not flush meanwhile
\* (commandprocessor.go:381-640).
THEOREM StagesKept == Spec /\ ~ Overlap => []StagesInOrder
BY Invariance, StagesFollow, PTL

-----------------------------------------------------------------------------
(* Sequences that have some elements once at most.                         *)

Sole(s, K) == \A i, j \in DOMAIN s : s[i] \in K /\ s[i] = s[j] => i = j

LEMMA ConcatSole ==
  ASSUME NEW S, NEW s \in Seq(S), NEW t \in Seq(S), NEW K
  PROVE  /\ s \o t \in Seq(S)
         /\ \A r : In(r, s \o t) <=> In(r, s) \/ In(r, t)
         /\ Sole(s \o t, K) <=> Sole(s, K) /\ Sole(t, K) /\ \A r \in K : ~ (In(r, s) /\ In(r, t))
<1> DEFINE u == s \o t
           m == Len(s)
           n == Len(t)
<1>1. /\ m \in Nat /\ n \in Nat /\ u \in Seq(S) /\ Len(u) = m + n
      /\ \A i \in 1 .. m + n : u[i] = IF i <= m THEN s[i] ELSE t[i - m]
      /\ DOMAIN s = 1 .. m /\ DOMAIN t = 1 .. n
  BY ConcatProperties, LenProperties
<1>2. DOMAIN u = 1 .. m + n
  BY <1>1, LenProperties
<1>3. \A r : In(r, u) <=> In(r, s) \/ In(r, t)
  BY ConcatIn
<1> HIDE DEF u, m, n
<1>4. /\ \A i \in DOMAIN s : i \in DOMAIN u /\ i <= m /\ u[i] = s[i]
      /\ \A i \in DOMAIN t : m + i \in DOMAIN u /\ ~ (m + i <= m) /\ u[m + i] = t[i]
  <2> SUFFICES ASSUME NEW i \in DOMAIN t
               PROVE  m + i \in DOMAIN u /\ ~ (m + i <= m) /\ u[m + i] = t[i]
    BY <1>1, <1>2
  <2>1. m + i \in 1 .. m + n /\ ~ (m + i <= m) /\ (m + i) - m = i
    BY <1>1
  <2> QED  BY <1>1, <1>2, <2>1
<1>5. \A i \in DOMAIN u : \/ i \in DOMAIN s /\ i <= m /\ u[i] = s[i]
                          \/ ~ (i <= m) /\ i - m \in DOMAIN t /\ u[i] = t[i - m]
  BY <1>1, <1>2
<1>6. ASSUME Sole(s, K), Sole(t, K), \A r \in K : ~ (In(r, s) /\ In(r, t))
      PROVE  Sole(u, K)
  <2> SUFFICES ASSUME NEW i \in DOMAIN u, NEW j \in DOMAIN u, u[i] \in K, u[i] = u[j]
               PROVE  i = j
    BY DEF Sole
  <2>1. CASE i <= m /\ j <= m
    BY <1>5, <1>6, <2>1 DEF Sole
  <2>2. CASE ~ (i <= m) /\ ~ (j <= m)
    <3>1. i - m = j - m
      BY <1>5, <1>6, <2>2 DEF Sole
    <3> QED  BY <1>1, <1>2, <3>1
  <2>3. CASE i <= m /\ ~ (j <= m)
    BY <1>5, <1>6, <2>3 DEF In
  <2>4. CASE ~ (i <= m) /\ j <= m
    BY <1>5, <1>6, <2>4 DEF In
  <2> QED  BY <2>1, <2>2, <2>3, <2>4
<1>7. ASSUME Sole(u, K) PROVE Sole(s, K) /\ Sole(t, K) /\ \A r \in K : ~ (In(r, s) /\ In(r, t))
  <2>1. Sole(s, K)
    BY <1>4, <1>7 DEF Sole
  <2>2. Sole(t, K)
    <3> SUFFICES ASSUME NEW i \in DOMAIN t, NEW j \in DOMAIN t, t[i] \in K, t[i] = t[j]
                 PROVE  i = j
      BY DEF Sole
    <3>1. m + i = m + j
      BY <1>4, <1>7 DEF Sole
    <3>2. i \in Nat /\ j \in Nat
      BY <1>1
    <3> QED BY <1>1, <3>1, <3>2
  <2>3. ASSUME NEW i \in DOMAIN s, NEW j \in DOMAIN t, s[i] \in K, s[i] = t[j] PROVE FALSE
    BY <1>4, <1>7, <2>3 DEF Sole
  <2> QED BY <2>1, <2>2, <2>3 DEF In
<1> QED BY <1>1, <1>3, <1>6, <1>7 DEF u

LEMMA NoneIn == \A r, K : ~ In(r, <<>>) /\ Sole(<<>>, K)
<1>1. DOMAIN <<>> = {}
  OBVIOUS
<1> QED BY <1>1 DEF In, Sole

LEMMA SingleSole ==
  ASSUME NEW S, NEW e \in S, NEW K
  PROVE  <<e>> \in Seq(S) /\ (\A r : In(r, <<e>>) <=> r = e) /\ Sole(<<e>>, K)
<1>1. <<e>> \in Seq(S) /\ DOMAIN <<e>> = {1} /\ <<e>>[1] = e
  OBVIOUS
<1> QED BY <1>1 DEF In, Sole

\* An element more.
LEMMA AppendSole ==
  ASSUME NEW S, NEW s \in Seq(S), NEW e \in S, NEW K
  PROVE  /\ Append(s, e) \in Seq(S) /\ Append(s, e) = s \o <<e>>
         /\ \A r : In(r, Append(s, e)) <=> In(r, s) \/ r = e
         /\ Sole(s, K) /\ (e \in K => ~ In(e, s)) => Sole(Append(s, e), K)
<1>1. Append(s, e) = s \o <<e>>
  BY AppendIsConcat
<1> DEFINE t == <<e>>
<1>2. t \in Seq(S) /\ (\A r : In(r, t) <=> r = e) /\ Sole(t, K)
  BY SingleSole
<1> HIDE DEF t
<1>3. /\ s \o t \in Seq(S)
      /\ \A r : In(r, s \o t) <=> In(r, s) \/ In(r, t)
      /\ Sole(s \o t, K) <=> Sole(s, K) /\ Sole(t, K) /\ \A r \in K : ~ (In(r, s) /\ In(r, t))
  BY <1>2, ConcatSole
<1>4. /\ s \o t \in Seq(S)
      /\ \A r : In(r, s \o t) <=> In(r, s) \/ r = e
      /\ Sole(s, K) /\ (e \in K => ~ In(e, s)) => Sole(s \o t, K)
  BY <1>2, <1>3
<1> QED BY <1>1, <1>4 DEF t

\* The first element is taken.
LEMMA ConsSole ==
  ASSUME NEW S, NEW e \in S, NEW t \in Seq(S), NEW K
  PROVE  /\ <<e>> \o t \in Seq(S)
         /\ \A r : In(r, <<e>> \o t) <=> r = e \/ In(r, t)
         /\ Sole(<<e>> \o t, K) => Sole(t, K) /\ \A r \in K : In(r, t) => r # e
<1> DEFINE s == <<e>>
<1>1. s \in Seq(S) /\ (\A r : In(r, s) <=> r = e) /\ Sole(s, K)
  BY SingleSole
<1> HIDE DEF s
<1>2. /\ s \o t \in Seq(S)
      /\ \A r : In(r, s \o t) <=> In(r, s) \/ In(r, t)
      /\ Sole(s \o t, K) <=> Sole(s, K) /\ Sole(t, K) /\ \A r \in K : ~ (In(r, s) /\ In(r, t))
  BY <1>1, ConcatSole
<1>3. /\ s \o t \in Seq(S)
      /\ \A r : In(r, s \o t) <=> r = e \/ In(r, t)
      /\ Sole(s \o t, K) => Sole(t, K) /\ \A r \in K : In(r, t) => r # e
  BY <1>1, <1>2
<1> QED BY <1>3 DEF s

LEMMA HeadCons ==
  ASSUME NEW S, NEW s \in Seq(S), s # <<>>
  PROVE  /\ Head(s) \in S /\ Tail(s) \in Seq(S) /\ s = <<Head(s)>> \o Tail(s)
         /\ 1 \in DOMAIN s /\ Head(s) = s[1]
<1> DEFINE h == Head(s)
           t == Tail(s)
           u == <<h>> \o t
<1>1. /\ h \in S /\ t \in Seq(S) /\ Len(t) = Len(s) - 1 /\ \A i \in 1 .. Len(t) : t[i] = s[i + 1]
  BY HeadTailProperties
<1>2. Len(s) \in Nat /\ Len(s) # 0 /\ DOMAIN s = 1 .. Len(s) /\ h = s[1]
  BY LenProperties, EmptySeq
<1>3. <<h>> \in Seq(S) /\ Len(<<h>>) = 1 /\ <<h>>[1] = h
  BY <1>1
<1>4. /\ u \in Seq(S) /\ Len(u) = 1 + Len(t)
      /\ \A i \in 1 .. 1 + Len(t) : u[i] = IF i <= 1 THEN <<h>>[i] ELSE t[i - 1]
  <2> DEFINE a == <<h>>
  <2>1. a \in Seq(S) /\ Len(a) = 1
    BY <1>3
  <2> HIDE DEF a, h, t
  <2>2. /\ a \o t \in Seq(S) /\ Len(a \o t) = Len(a) + Len(t)
        /\ \A i \in 1 .. Len(a) + Len(t) : (a \o t)[i] = IF i <= Len(a) THEN a[i] ELSE t[i - Len(a)]
    BY <1>1, <2>1, ConcatProperties
  <2> QED BY <2>1, <2>2 DEF a
<1> HIDE DEF u, h, t
<1>5. Len(u) = Len(s)
  BY <1>1, <1>2, <1>4
<1>6. \A i \in 1 .. Len(s) : u[i] = s[i]
  <2> SUFFICES ASSUME NEW i \in 1 .. Len(s) PROVE u[i] = s[i]
    OBVIOUS
  <2>1. CASE i = 1
    <3>1. i \in 1 .. 1 + Len(t) /\ i <= 1
      BY <1>1, <1>2, <2>1
    <3> QED BY <1>2, <1>3, <1>4, <2>1, <3>1
  <2>2. CASE i # 1
    <3>1. i \in 1 .. 1 + Len(t) /\ ~ (i <= 1) /\ i - 1 \in 1 .. Len(t) /\ (i - 1) + 1 = i
      BY <1>1, <1>2, <2>2
    <3> QED BY <1>1, <1>4, <3>1
  <2> QED BY <2>1, <2>2
<1>7. u = s
  <2>1. DOMAIN u = 1 .. Len(s) /\ DOMAIN s = 1 .. Len(s)
    BY <1>2, <1>4, <1>5, LenProperties
  <2>2. u = [i \in DOMAIN u |-> u[i]] /\ s = [i \in DOMAIN s |-> s[i]]
    BY <1>4
  <2> QED BY <1>6, <2>1, <2>2
<1> QED BY <1>1, <1>2, <1>7 DEF u, h, t

LEMMA TailSole ==
  ASSUME NEW S, NEW s \in Seq(S), s # <<>>, NEW K
  PROVE  /\ Head(s) \in S /\ In(Head(s), s) /\ Tail(s) \in Seq(S)
         /\ \A r : In(r, s) <=> r = Head(s) \/ In(r, Tail(s))
         /\ Sole(s, K) => Sole(Tail(s), K) /\ \A r \in K : In(r, Tail(s)) => r # Head(s)
<1>1. /\ Head(s) \in S /\ Tail(s) \in Seq(S) /\ s = <<Head(s)>> \o Tail(s)
  BY HeadCons
<1>2. \A h \in S, t \in Seq(S) : s = <<h>> \o t =>
         /\ \A r : In(r, s) <=> r = h \/ In(r, t)
         /\ Sole(s, K) => Sole(t, K) /\ \A r \in K : In(r, t) => r # h
  <2> SUFFICES ASSUME NEW h \in S, NEW t \in Seq(S), s = <<h>> \o t
               PROVE  /\ \A r : In(r, s) <=> r = h \/ In(r, t)
                      /\ Sole(s, K) => Sole(t, K) /\ \A r \in K : In(r, t) => r # h
    OBVIOUS
  <2>1. /\ \A r : In(r, <<h>> \o t) <=> r = h \/ In(r, t)
        /\ Sole(<<h>> \o t, K) => Sole(t, K) /\ \A r \in K : In(r, t) => r # h
    BY ConsSole
  <2> QED BY <2>1
<1> QED BY <1>1, <1>2

-----------------------------------------------------------------------------
(* The pieces of a copy.                                                   *)

\* A set of numbers has a least one.
LEMMA SmallestNat ==
  ASSUME NEW S \in SUBSET Nat, S # {}
  PROVE  \E n \in S : \A m \in S : n <= m
<1> DEFINE R == {ss \in Nat \X Nat : ss[1] < ss[2]}
<1>1. IsWellFoundedOn(R, Nat)
  BY NatLessThanWellFounded DEF OpToRel
<1>2. \E x \in S : \A y \in S : ~ (<<y, x>> \in R)
  <2> HIDE DEF R
  <2> QED BY <1>1, WFMin
<1>3. PICK x \in S : \A y \in S : ~ (<<y, x>> \in R)
  BY <1>2
<1>4. \A y, z \in Nat : y < z => <<y, z>> \in R
  OBVIOUS
<1>5. \A y \in S : x \in Nat /\ y \in Nat /\ ~ (y < x)
  BY <1>3, <1>4
<1> QED  BY <1>5

\* A set that has 0 and with every number the next one has them all.
LEMMA Induction ==
  ASSUME NEW T, 0 \in T, \A n \in Nat : n \in T => n + 1 \in T
  PROVE  Nat \subseteq T
<1> SUFFICES ASSUME Nat \ T # {} PROVE FALSE
  OBVIOUS
<1>1. PICK n \in Nat \ T : \A m \in Nat \ T : n <= m
  BY SmallestNat
<1>2. n # 0 /\ n - 1 \in Nat /\ (n - 1) + 1 = n /\ ~ (n <= n - 1)
  BY <1>1
<1> QED BY <1>1, <1>2

Chunk == [addr : Nat, len : Nat \ {0}]
Bytes(p) == p.addr .. p.addr + p.len - 1

\* The piece that the last left bytes before end begin with.
FirstPiece(end, left) ==
  [addr |-> end - left,
   len  |-> IF LineSize - ((end - left) % LineSize) < left
              THEN LineSize - ((end - left) % LineSize) ELSE left]

LEMMA FirstPieceIs ==
  ASSUME NEW end \in Nat, NEW left \in Nat \ {0}, left <= end
  PROVE  /\ FirstPiece(end, left) \in Chunk /\ FirstPiece(end, left).addr = end - left
         /\ FirstPiece(end, left).len \in 1 .. left
<1> DEFINE a == end - left
           m == a % LineSize
<1>1. a \in Nat /\ LineSize \in Nat \ {0}
  BY LineAssumption
<1>2. m \in 0 .. LineSize - 1
  <2>1. \A x \in Nat, y \in Nat \ {0} : x % y \in 0 .. y - 1
    OBVIOUS
  <2> HIDE DEF a
  <2> QED BY <1>1, <2>1
<1>3. /\ FirstPiece(end, left).addr = a
      /\ FirstPiece(end, left).len = IF LineSize - m < left THEN LineSize - m ELSE left
      /\ FirstPiece(end, left) = [addr |-> FirstPiece(end, left).addr, len |-> FirstPiece(end, left).len]
  BY DEF FirstPiece
<1> HIDE DEF m
<1>4. FirstPiece(end, left).len \in 1 .. left
  BY <1>1, <1>2, <1>3
<1>5. FirstPiece(end, left).len \in Nat \ {0}
  BY <1>4
<1> QED BY <1>1, <1>3, <1>4, <1>5 DEF Chunk

\* s cuts the n bytes before end: it reaches each of them, and nothing twice.
Covers(s, end, n) ==
  /\ s \in Seq(Chunk)
  /\ \A a \in Nat : (end - n <= a /\ a < end) <=> \E i \in DOMAIN s : a \in Bytes(s[i])
  /\ \A i, j \in DOMAIN s : i # j => Bytes(s[i]) \cap Bytes(s[j]) = {}

LEMMA CoversMore ==
  ASSUME NEW end \in Nat, NEW left \in Nat \ {0}, left <= end, NEW p, p = FirstPiece(end, left),
         NEW s, Covers(s, end, left - p.len)
  PROVE  Covers(<<p>> \o s, end, left)
<1> DEFINE e == <<p>>
           u == e \o s
           n == Len(s)
<1>1. p \in Chunk /\ p.addr = end - left /\ p.len \in 1 .. left
  BY FirstPieceIs
<1>2. e \in Seq(Chunk) /\ Len(e) = 1 /\ e[1] = p
  BY <1>1
<1>3. /\ s \in Seq(Chunk)
      /\ \A a \in Nat : (end - (left - p.len) <= a /\ a < end) <=> \E i \in DOMAIN s : a \in Bytes(s[i])
      /\ \A i, j \in DOMAIN s : i # j => Bytes(s[i]) \cap Bytes(s[j]) = {}
  BY DEF Covers
<1> HIDE DEF e
<1>4. /\ n \in Nat /\ u \in Seq(Chunk) /\ Len(u) = 1 + n
      /\ \A i \in 1 .. 1 + n : u[i] = IF i <= 1 THEN e[i] ELSE s[i - 1]
      /\ DOMAIN s = 1 .. n
  <2>1. n \in Nat /\ DOMAIN s = 1 .. n
    BY <1>3, LenProperties
  <2>2. /\ e \o s \in Seq(Chunk) /\ Len(e \o s) = Len(e) + Len(s)
        /\ \A i \in 1 .. Len(e) + Len(s) : (e \o s)[i] = IF i <= Len(e) THEN e[i] ELSE s[i - Len(e)]
    <3>1. e \in Seq(Chunk) /\ s \in Seq(Chunk)
      BY <1>2, <1>3
    <3> QED BY <3>1, ConcatProperties
  <2> QED BY <1>2, <2>1, <2>2
<1>5. DOMAIN u = 1 .. 1 + n
  BY <1>4, LenProperties
<1> HIDE DEF u, n
<1>6. 1 \in DOMAIN u /\ u[1] = p
  BY <1>2, <1>4, <1>5
<1>7. \A i \in DOMAIN u : i = 1 \/ (i - 1 \in DOMAIN s /\ u[i] = s[i - 1] /\ i \in Nat)
  <2> SUFFICES ASSUME NEW i \in DOMAIN u, i # 1
               PROVE  i - 1 \in DOMAIN s /\ u[i] = s[i - 1] /\ i \in Nat
    OBVIOUS
  <2>1. i \in 1 .. 1 + n /\ ~ (i <= 1) /\ i - 1 \in 1 .. n
    BY <1>4, <1>5
  <2> QED BY <1>4, <2>1
<1>8. \A i \in DOMAIN s : i + 1 \in DOMAIN u /\ u[i + 1] = s[i]
  <2> SUFFICES ASSUME NEW i \in DOMAIN s PROVE i + 1 \in DOMAIN u /\ u[i + 1] = s[i]
    OBVIOUS
  <2>1. i + 1 \in 1 .. 1 + n /\ ~ (i + 1 <= 1) /\ (i + 1) - 1 = i
    BY <1>4
  <2> QED BY <1>4, <1>5, <2>1
<1>9. \A a \in Nat : a \in Bytes(p) <=> (end - left <= a /\ a < end - (left - p.len))
  BY <1>1 DEF Bytes
<1>10. \A c \in Chunk : Bytes(c) \subseteq Nat
  BY DEF Bytes, Chunk
<1>11. ASSUME NEW a \in Nat
       PROVE  (end - left <= a /\ a < end) <=> \E i \in DOMAIN u : a \in Bytes(u[i])
  <2>1. (end - left <= a /\ a < end)
          <=> (end - left <= a /\ a < end - (left - p.len)) \/ (end - (left - p.len) <= a /\ a < end)
    BY <1>1
  <2>2. (\E i \in DOMAIN u : a \in Bytes(u[i])) <=> a \in Bytes(p) \/ \E i \in DOMAIN s : a \in Bytes(s[i])
    BY <1>6, <1>7, <1>8
  <2> QED BY <1>3, <1>9, <2>1, <2>2
<1>12. \A j \in DOMAIN s : Bytes(p) \cap Bytes(s[j]) = {}
  <2> SUFFICES ASSUME NEW j \in DOMAIN s, NEW a \in Bytes(p), a \in Bytes(s[j]) PROVE FALSE
    OBVIOUS
  <2>1. a \in Nat
    BY <1>1, <1>10
  <2>2. a < end - (left - p.len) /\ end - (left - p.len) <= a
    BY <1>3, <1>9, <2>1
  <2>3. end - (left - p.len) \in Int
    BY <1>1
  <2> QED BY <2>1, <2>2, <2>3
<1>13. ASSUME NEW i \in DOMAIN u, NEW j \in DOMAIN u, i # j PROVE Bytes(u[i]) \cap Bytes(u[j]) = {}
  <2>1. CASE i = 1
    <3>1. j - 1 \in DOMAIN s /\ u[j] = s[j - 1]
      BY <1>7, <1>13, <2>1
    <3> QED BY <1>6, <1>12, <2>1, <3>1
  <2>2. CASE j = 1
    <3>1. i - 1 \in DOMAIN s /\ u[i] = s[i - 1]
      BY <1>7, <1>13, <2>2
    <3> QED BY <1>6, <1>12, <2>2, <3>1
  <2>3. CASE i # 1 /\ j # 1
    <3>1. /\ i - 1 \in DOMAIN s /\ u[i] = s[i - 1] /\ j - 1 \in DOMAIN s /\ u[j] = s[j - 1]
          /\ i \in Nat /\ j \in Nat
      BY <1>7, <2>3
    <3>2. i - 1 # j - 1
      BY <1>13, <3>1
    <3> QED BY <1>3, <3>1, <3>2
  <2> QED BY <2>1, <2>2, <2>3
<1> QED BY <1>4, <1>11, <1>13 DEF Covers, u, e

IsCut(f, end, n) ==
  f = [left \in 0 .. n |-> IF left = 0 THEN <<>>
                           ELSE <<FirstPiece(end, left)>> \o f[left - FirstPiece(end, left).len]]

\* The recursive function of PiecesOf exists.
LEMMA CutExists ==
  ASSUME NEW end \in Nat, NEW n \in Nat, n <= end
  PROVE  \E f : IsCut(f, end, n)
<1> DEFINE T == {m \in Nat : m <= end => \E f : IsCut(f, end, m)}
<1>1. 0 \in T
  <2> DEFINE f == [i \in 0 .. 0 |-> <<>>]
  <2>1. IsCut(f, end, 0)
    BY DEF IsCut
  <2> QED BY <2>1
<1>2. ASSUME NEW m \in Nat, m \in T PROVE m + 1 \in T
  <2> SUFFICES ASSUME m + 1 <= end PROVE \E f : IsCut(f, end, m + 1)
    OBVIOUS
  <2>1. PICK f : IsCut(f, end, m)
    BY <1>2
  <2> DEFINE Rest(h, i) == <<FirstPiece(end, i)>> \o h[i - FirstPiece(end, i).len]
             g == [i \in 0 .. (m + 1) |-> IF i <= m THEN f[i] ELSE Rest(f, i)]
  <2>2. \A i \in 1 .. m + 1 : i - FirstPiece(end, i).len \in 0 .. m
    <3> SUFFICES ASSUME NEW i \in 1 .. m + 1 PROVE i - FirstPiece(end, i).len \in 0 .. m
      OBVIOUS
    <3>1. FirstPiece(end, i).len \in 1 .. i
      BY FirstPieceIs
    <3> QED BY <3>1
  <2>3. \A i \in 0 .. m : g[i] = f[i]
    OBVIOUS
  <2>4. ASSUME NEW i \in 1 .. m + 1 PROVE Rest(g, i) = Rest(f, i)
    <3>1. g[i - FirstPiece(end, i).len] = f[i - FirstPiece(end, i).len]
      <4> HIDE DEF g
      <4> QED BY <2>2, <2>3
    <3> HIDE DEF g
    <3> QED BY <3>1
  <2>5. ASSUME NEW i \in 0 .. (m + 1)
        PROVE  g[i] = IF i = 0 THEN <<>> ELSE Rest(g, i)
    <3>1. CASE i = 0
      <4>1. f[0] = <<>>
        BY <2>1 DEF IsCut
      <4> QED BY <2>3, <3>1, <4>1
    <3>2. CASE i # 0 /\ i <= m
      <4>1. g[i] = f[i] /\ i \in 0 .. m
        BY <3>2
      <4>2. f[i] = Rest(f, i)
        BY <4>1, <3>2, <2>1 DEF IsCut
      <4> HIDE DEF g, Rest
      <4> QED BY <2>4, <3>2, <4>1, <4>2
    <3>3. CASE i = m + 1
      <4>1. g[i] = Rest(f, i)
        BY <3>3
      <4>2. i \in 1 .. m + 1 /\ i # 0
        BY <3>3
      <4> HIDE DEF g, Rest
      <4> QED BY <2>4, <4>1, <4>2
    <3> QED BY <3>1, <3>2, <3>3
  <2>6. IsCut(g, end, m + 1)
    <3>1. g = [i \in 0 .. (m + 1) |-> g[i]]
      OBVIOUS
    <3>2. g = [i \in 0 .. (m + 1) |-> IF i = 0 THEN <<>> ELSE Rest(g, i)]
      <4> HIDE DEF g, Rest
      <4> QED BY <2>5, <3>1
    <3> HIDE DEF g
    <3> QED BY <3>2 DEF IsCut
  <2> HIDE DEF g
  <2> QED BY <2>6
<1> HIDE DEF T
<1>3. Nat \subseteq T
  BY <1>1, <1>2, Induction
<1> QED BY <1>3 DEF T

\* PiecesOf cuts what it is asked to cut.
LEMMA PiecesOfIs ==
  ASSUME NEW end \in Nat, NEW total \in Nat, total <= end
  PROVE  Covers(PiecesOf(end, total), end, total)
<1> DEFINE f == CHOOSE Cut : Cut =
                  [left \in 0 .. total |->
                     IF left = 0 THEN <<>>
                     ELSE LET addr         == end - left
                              lengthInUnit == LineSize - (addr % LineSize)
                              length       == IF lengthInUnit < left THEN lengthInUnit ELSE left
                          IN  <<[addr |-> addr, len |-> length]>> \o Cut[left - length]]
<1>1. IsCut(f, end, total)
  <2>1. \E Cut : IsCut(Cut, end, total)
    BY CutExists
  <2>2. \E Cut : Cut =
                  [left \in 0 .. total |->
                     IF left = 0 THEN <<>>
                     ELSE LET addr         == end - left
                              lengthInUnit == LineSize - (addr % LineSize)
                              length       == IF lengthInUnit < left THEN lengthInUnit ELSE left
                          IN  <<[addr |-> addr, len |-> length]>> \o Cut[left - length]]
    BY <2>1 DEF IsCut, FirstPiece
  <2>3. f =
                  [left \in 0 .. total |->
                     IF left = 0 THEN <<>>
                     ELSE LET addr         == end - left
                              lengthInUnit == LineSize - (addr % LineSize)
                              length       == IF lengthInUnit < left THEN lengthInUnit ELSE left
                          IN  <<[addr |-> addr, len |-> length]>> \o f[left - length]]
    BY <2>2, Zenon
  <2> HIDE DEF f
  <2> QED BY <2>3 DEF IsCut, FirstPiece
<1>2. PiecesOf(end, total) = f[total]
  BY Zenon DEF PiecesOf
<1> HIDE DEF f
<1> DEFINE T == {n \in Nat : n <= total => \A m \in 0 .. n : Covers(f[m], end, m)}
<1>3. Covers(f[0], end, 0)
  <2>1. f[0] = <<>>
    BY <1>1 DEF IsCut
  <2>2. <<>> \in Seq(Chunk) /\ DOMAIN <<>> = {}
    OBVIOUS
  <2>3. \A a \in Nat : ~ (end - 0 <= a /\ a < end)
    OBVIOUS
  <2> QED BY <2>1, <2>2, <2>3 DEF Covers
<1>4. 0 \in T
  BY <1>3
<1>5. ASSUME NEW n \in Nat, n \in T PROVE n + 1 \in T
  <2> SUFFICES ASSUME n + 1 <= total, NEW m \in 0 .. n + 1 PROVE Covers(f[m], end, m)
    OBVIOUS
  <2>1. CASE m \in 0 .. n
    BY <1>5, <2>1
  <2>2. CASE m = n + 1
    <3> DEFINE p == FirstPiece(end, m)
    <3>1. m \in Nat \ {0} /\ m <= end /\ m \in 0 .. total
      BY <2>2
    <3>2. p.len \in 1 .. m
      BY <3>1, FirstPieceIs
    <3>3. f[m] = <<p>> \o f[m - p.len]
      BY <1>1, <3>1 DEF IsCut
    <3> HIDE DEF p
    <3>4. m - p.len \in 0 .. n
      BY <2>2, <3>2
    <3>5. Covers(f[m - p.len], end, m - p.len)
      BY <1>5, <3>4
    <3>6. p = FirstPiece(end, m)
      BY DEF p
    <3>7. Covers(<<p>> \o f[m - p.len], end, m)
      BY <3>1, <3>5, <3>6, CoversMore
    <3> QED BY <3>3, <3>7
  <2> QED BY <2>1, <2>2
<1>6. total \in T
  <2> HIDE DEF T
  <2> QED BY <1>4, <1>5, Induction
<1> QED BY <1>2, <1>6

-----------------------------------------------------------------------------
(* The copy in process: where its pieces are, and what the memory has.     *)

RangeOf(c) == c.addr .. c.addr + c.len - 1

LEMMA PiecesAre ==
  ASSUME NEW c \in Copies
  PROVE  /\ Pieces(c) \in Seq(Chunk)
         /\ \A a \in Nat : a \in RangeOf(c) <=> \E i \in DOMAIN Pieces(c) : a \in Bytes(Pieces(c)[i])
         /\ \A i, j \in DOMAIN Pieces(c) : i # j => Bytes(Pieces(c)[i]) \cap Bytes(Pieces(c)[j]) = {}
         /\ \A i, j \in DOMAIN Pieces(c) : Pieces(c)[i] = Pieces(c)[j] => i = j
<1> DEFINE s == Pieces(c)
           end == c.addr + c.len
<1>1. c.addr \in Nat /\ c.len \in Nat
  BY CopiesAssumption
<1>2. Covers(s, end, c.len)
  <2>1. end \in Nat /\ c.len <= end
    BY <1>1
  <2> HIDE DEF end
  <2>2. Covers(PiecesOf(end, c.len), end, c.len)
    BY <1>1, <2>1, PiecesOfIs
  <2> QED BY <2>2 DEF Pieces, end
<1> HIDE DEF s
<1>3. /\ s \in Seq(Chunk)
      /\ \A a \in Nat : (end - c.len <= a /\ a < end) <=> \E i \in DOMAIN s : a \in Bytes(s[i])
      /\ \A i, j \in DOMAIN s : i # j => Bytes(s[i]) \cap Bytes(s[j]) = {}
  BY <1>2 DEF Covers
<1>4. \A a \in Nat : a \in RangeOf(c) <=> (end - c.len <= a /\ a < end)
  BY <1>1 DEF RangeOf
<1>5. \A i, j \in DOMAIN s : s[i] = s[j] => i = j
  <2> SUFFICES ASSUME NEW i \in DOMAIN s, NEW j \in DOMAIN s, s[i] = s[j], i # j PROVE FALSE
    OBVIOUS
  <2>1. s[i] \in Chunk
    BY <1>3
  <2>2. s[i].addr \in Bytes(s[i])
    BY <2>1 DEF Bytes, Chunk
  <2> QED BY <1>3, <2>2
<1>6. \A a \in Nat : a \in RangeOf(c) <=> \E i \in DOMAIN s : a \in Bytes(s[i])
  <2> HIDE DEF end
  <2> QED BY <1>3, <1>4
<1> QED BY <1>3, <1>5, <1>6 DEF s

Unsent == {toSendToMem[i] : i \in DOMAIN toSendToMem}
Answered == {r.piece : r \in memRsps}

\* A piece is in one place, and no two of them meet.
AccessInv ==
  /\ toSendToMem \in Seq(Chunk)
  /\ \A i, j \in DOMAIN toSendToMem : toSendToMem[i] = toSendToMem[j] => i = j
  /\ pendingReqs = Unsent \cup memReqs \cup Answered
  /\ Unsent \cap memReqs = {} /\ Unsent \cap Answered = {} /\ memReqs \cap Answered = {}
  /\ \A r, s \in memRsps : r.piece = s.piece => r = s
  /\ pendingReqs \subseteq Chunk
  /\ \A p, o \in pendingReqs : p # o => Bytes(p) \cap Bytes(o) = {}
  /\ processingReq = None => pendingReqs = {}
  /\ processingReq # None => \A p \in pendingReqs : Bytes(p) \subseteq RangeOf(processingReq)

\* The memory has what was served, and what was read is from before.
MemoryInv ==
  LET c == processingReq IN
  /\ memory = [a \in Addr |-> memory[a]]
  /\ c # None /\ c.dir = "H2D" =>
       memory = [a \in Addr |->
         IF a \in RangeOf(c) /\ \A p \in Unsent \cup memReqs : a \notin Bytes(p)
           THEN [queue |-> c.queue, at |-> a - c.addr] ELSE before[a]]
  /\ c # None /\ c.dir = "D2H" =>
       /\ memory = before
       /\ \A r \in memRsps :
            r.data = [i \in 0 .. r.piece.len - 1 |-> before[r.piece.addr + i]]

PieceInv == processingReq \in Copies \cup {None} /\ AccessInv /\ MemoryInv

LEMMA ParseFromCPPieces ==
  ASSUME PieceInv, dmaToCP \in Seq(Copies), ParseFromCP
  PROVE  PieceInv'
<1> DEFINE c == Head(dmaToCP)
           s == Pieces(c)
<1>1. c \in Copies
  BY HeadCons DEF ParseFromCP
<1> HIDE DEF c
<1>2. /\ s \in Seq(Chunk)
      /\ \A a \in Nat : a \in RangeOf(c) <=> \E i \in DOMAIN s : a \in Bytes(s[i])
      /\ \A i, j \in DOMAIN s : i # j => Bytes(s[i]) \cap Bytes(s[j]) = {}
      /\ \A i, j \in DOMAIN s : s[i] = s[j] => i = j
  BY <1>1, PiecesAre
<1>3. /\ processingReq = None /\ processingReq' = c /\ toSendToMem' = toSendToMem \o s
      /\ pendingReqs' = {s[i] : i \in DOMAIN s}
      /\ before' = memory /\ memReqs' = memReqs /\ memRsps' = memRsps /\ memory' = memory
  BY DEF ParseFromCP, c
<1> HIDE DEF s
<1>4. Unsent = {} /\ memReqs = {} /\ Answered = {} /\ memRsps = {} /\ toSendToMem \in Seq(Chunk)
  <2>1. Unsent = {} /\ memReqs = {} /\ Answered = {} /\ toSendToMem \in Seq(Chunk)
    BY <1>3 DEF PieceInv, AccessInv
  <2> QED BY <2>1 DEF Answered
<1>5. toSendToMem' = s
  <2>1. Len(toSendToMem) = 0
    <3>1. DOMAIN toSendToMem = {}
      BY <1>4 DEF Unsent
    <3>2. DOMAIN toSendToMem = 1 .. Len(toSendToMem) /\ Len(toSendToMem) \in Nat
      BY <1>4, LenProperties
    <3> QED BY <3>1, <3>2
  <2>2. toSendToMem = <<>>
    BY <1>4, <2>1, EmptySeq
  <2> QED BY <1>2, <1>3, <2>2, ConcatEmptySeq
<1>6. Unsent' = {s[i] : i \in DOMAIN s} /\ memReqs' = {} /\ Answered' = {} /\ memRsps' = {}
  BY <1>3, <1>4, <1>5 DEF Unsent, Answered
<1>7. AccessInv'
  <2>1. pendingReqs' \subseteq Chunk
    BY <1>2, <1>3
  <2>2. \A p, o \in pendingReqs' : p # o => Bytes(p) \cap Bytes(o) = {}
    BY <1>2, <1>3
  <2>3. \A p \in pendingReqs' : Bytes(p) \subseteq RangeOf(c)
    <3> SUFFICES ASSUME NEW i \in DOMAIN s, NEW a \in Bytes(s[i]) PROVE a \in RangeOf(c)
      BY <1>3
    <3>1. s[i] \in Chunk
      BY <1>2
    <3>2. a \in Nat
      BY <3>1 DEF Chunk, Bytes
    <3> QED BY <1>2, <3>2
  <2>4. c # None
    BY <1>1, NoneAssumption
  <2> QED BY <1>2, <1>3, <1>5, <1>6, <2>1, <2>2, <2>3, <2>4 DEF AccessInv
<1>8. MemoryInv'
  <2>1. memory = [a \in Addr |-> memory[a]]
    BY DEF PieceInv, MemoryInv
  <2>2. \A a \in Addr : ~ (a \in RangeOf(c) /\ \A p \in Unsent' \cup memReqs' : a \notin Bytes(p))
    <3> SUFFICES ASSUME NEW a \in Addr, a \in RangeOf(c) PROVE \E p \in Unsent' : a \in Bytes(p)
      OBVIOUS
    <3>1. a \in Nat
      BY LineAssumption DEF Addr
    <3>2. PICK i \in DOMAIN s : a \in Bytes(s[i])
      BY <1>2, <3>1
    <3>3. s[i] \in Unsent'
      BY <1>6
    <3> QED BY <3>2, <3>3
  <2>3. memory' = [a \in Addr |->
           IF a \in RangeOf(c) /\ \A p \in Unsent' \cup memReqs' : a \notin Bytes(p)
             THEN [queue |-> c.queue, at |-> a - c.addr] ELSE before'[a]]
    BY <1>3, <2>1, <2>2
  <2> QED BY <1>3, <1>6, <2>1, <2>3 DEF MemoryInv
<1>9. processingReq' \in Copies \cup {None}
  BY <1>1, <1>3
<1> QED BY <1>7, <1>8, <1>9 DEF PieceInv

LEMMA SendToMemPieces ==
  ASSUME PieceInv, SendToMem
  PROVE  PieceInv'
<1> DEFINE h == Head(toSendToMem)
<1>0. AccessInv /\ MemoryInv
  BY DEF PieceInv
<1>1. /\ toSendToMem \in Seq(Chunk) /\ toSendToMem # <<>>
      /\ \A i, j \in DOMAIN toSendToMem : toSendToMem[i] = toSendToMem[j] => i = j
  BY <1>0 DEF AccessInv, SendToMem
<1>2. /\ h \in Chunk /\ Tail(toSendToMem) \in Seq(Chunk)
      /\ In(h, toSendToMem)
      /\ \A r : In(r, toSendToMem) <=> r = h \/ In(r, Tail(toSendToMem))
      /\ Sole(toSendToMem, Chunk) => Sole(Tail(toSendToMem), Chunk) /\ \A r \in Chunk : In(r, Tail(toSendToMem)) => r # h
  BY <1>1, TailSole
<1>3. Sole(toSendToMem, Chunk)
  BY <1>1 DEF Sole
<1>4. /\ memReqs' = memReqs \cup {h} /\ toSendToMem' = Tail(toSendToMem)
      /\ UNCHANGED <<processingReq, pendingReqs, memRsps, memory, before>>
  BY DEF SendToMem
<1>5. \A i \in DOMAIN toSendToMem' : toSendToMem'[i] \in Chunk
  BY <1>2, <1>4
<1>6. \A i, j \in DOMAIN toSendToMem' : toSendToMem'[i] = toSendToMem'[j] => i = j
  BY <1>2, <1>3, <1>4, <1>5 DEF Sole
<1>7. \A r : (r \in Unsent <=> In(r, toSendToMem)) /\ (r \in Unsent' <=> In(r, toSendToMem'))
  BY DEF Unsent, In
<1>8. Unsent' = Unsent \ {h} /\ h \in Unsent
  <2>1. \A r : In(r, Tail(toSendToMem)) => r \in Chunk
    BY <1>4, <1>5 DEF In
  <2> HIDE DEF h
  <2> QED BY <1>2, <1>3, <1>4, <1>7, <2>1
<1>9. Answered' = Answered
  BY <1>4 DEF Answered
<1> HIDE DEF h
<1>10. Unsent' \cup memReqs' = Unsent \cup memReqs
  BY <1>4, <1>8
<1>11. AccessInv'
  <2>1. /\ pendingReqs = Unsent \cup memReqs \cup Answered
        /\ Unsent \cap memReqs = {} /\ Unsent \cap Answered = {} /\ memReqs \cap Answered = {}
    BY <1>0 DEF AccessInv
  <2>2. /\ pendingReqs' = Unsent' \cup memReqs' \cup Answered'
        /\ Unsent' \cap memReqs' = {} /\ Unsent' \cap Answered' = {} /\ memReqs' \cap Answered' = {}
    BY <1>4, <1>8, <1>9, <2>1
  <2>3. toSendToMem' \in Seq(Chunk)
    BY <1>2, <1>4
  <2>4. /\ \A r, s \in memRsps' : r.piece = s.piece => r = s
        /\ pendingReqs' \subseteq Chunk
        /\ \A p, o \in pendingReqs' : p # o => Bytes(p) \cap Bytes(o) = {}
        /\ processingReq' = None => pendingReqs' = {}
        /\ processingReq' # None => \A p \in pendingReqs' : Bytes(p) \subseteq RangeOf(processingReq')
    BY <1>0, <1>4 DEF AccessInv
  <2> QED BY <1>6, <2>2, <2>3, <2>4 DEF AccessInv
<1>12. MemoryInv'
  BY <1>0, <1>4, <1>10 DEF MemoryInv
<1> QED BY <1>4, <1>11, <1>12 DEF PieceInv

LEMMA MemoryServesPieces ==
  ASSUME PieceInv, NEW p \in memReqs, MemoryServes(p)
  PROVE  PieceInv'
<1> DEFINE c == processingReq
           d == [i \in 0 .. p.len - 1 |-> memory[p.addr + i]]
           r == [piece |-> p, data |-> d]
<1>0. AccessInv /\ MemoryInv
  BY DEF PieceInv
<1>1. /\ memReqs' = memReqs \ {p} /\ memRsps' = memRsps \cup {r}
      /\ memory' = [a \in Addr |-> IF c.dir = "H2D" /\ a \in Bytes(p)
                      THEN [queue |-> c.queue, at |-> a - c.addr] ELSE memory[a]]
      /\ UNCHANGED <<processingReq, toSendToMem, pendingReqs, before>>
  BY DEF MemoryServes, Bytes
<1>2. r.piece = p /\ r.data = d
  OBVIOUS
<1> HIDE DEF r, d
<1>3. Unsent' = Unsent /\ Answered' = Answered \cup {p}
  BY <1>1, <1>2 DEF Unsent, Answered
<1>4. /\ pendingReqs = Unsent \cup memReqs \cup Answered
      /\ Unsent \cap memReqs = {} /\ Unsent \cap Answered = {} /\ memReqs \cap Answered = {}
      /\ \A x, y \in memRsps : x.piece = y.piece => x = y
      /\ pendingReqs \subseteq Chunk
      /\ \A x, y \in pendingReqs : x # y => Bytes(x) \cap Bytes(y) = {}
      /\ c # None /\ p \in pendingReqs /\ Bytes(p) \subseteq RangeOf(c)
  BY <1>0 DEF AccessInv
<1>5. \A x \in memRsps : x.piece # p
  BY <1>4 DEF Answered
<1>6. AccessInv'
  <2>1. \A x, y \in memRsps' : x.piece = y.piece => x = y
    BY <1>1, <1>2, <1>4, <1>5
  <2>2. /\ pendingReqs' = Unsent' \cup memReqs' \cup Answered'
        /\ Unsent' \cap memReqs' = {} /\ Unsent' \cap Answered' = {} /\ memReqs' \cap Answered' = {}
    BY <1>1, <1>3, <1>4
  <2>3. /\ toSendToMem' \in Seq(Chunk)
        /\ \A i, j \in DOMAIN toSendToMem' : toSendToMem'[i] = toSendToMem'[j] => i = j
        /\ pendingReqs' \subseteq Chunk
        /\ \A x, y \in pendingReqs' : x # y => Bytes(x) \cap Bytes(y) = {}
        /\ processingReq' = None => pendingReqs' = {}
        /\ processingReq' # None => \A x \in pendingReqs' : Bytes(x) \subseteq RangeOf(processingReq')
    BY <1>0, <1>1 DEF AccessInv
  <2> QED BY <2>1, <2>2, <2>3 DEF AccessInv
<1>7. memory' = [a \in Addr |-> memory'[a]]
  BY <1>1
<1>8. ASSUME c.dir = "H2D"
      PROVE  memory' = [a \in Addr |->
               IF a \in RangeOf(c) /\ \A x \in Unsent' \cup memReqs' : a \notin Bytes(x)
                 THEN [queue |-> c.queue, at |-> a - c.addr] ELSE before'[a]]
  <2> DEFINE v(a) == [queue |-> c.queue, at |-> a - c.addr]
  <2>1. memory = [a \in Addr |-> IF a \in RangeOf(c) /\ \A x \in Unsent \cup memReqs : a \notin Bytes(x)
                                   THEN v(a) ELSE before[a]]
    BY <1>0, <1>4, <1>8 DEF MemoryInv
  <2>2. memory' = [a \in Addr |-> IF a \in Bytes(p) THEN v(a) ELSE memory[a]]
    BY <1>1, <1>8
  <2>3. \A x \in Unsent' \cup memReqs' : x # p /\ x \in Unsent \cup memReqs /\ x \in pendingReqs
    BY <1>1, <1>3, <1>4
  <2>4. \A x \in Unsent \cup memReqs : x = p \/ x \in Unsent' \cup memReqs'
    BY <1>1, <1>3
  <2> HIDE DEF c, v
  <2>5. ASSUME NEW a \in Addr
        PROVE  memory'[a] = IF a \in RangeOf(c) /\ \A x \in Unsent' \cup memReqs' : a \notin Bytes(x)
                              THEN v(a) ELSE before'[a]
    <3>1. CASE a \in Bytes(p)
      <4>1. a \in RangeOf(c)
        BY <1>4, <3>1
      <4>2. \A x \in Unsent' \cup memReqs' : a \notin Bytes(x)
        BY <1>4, <2>3, <3>1
      <4> QED BY <2>2, <3>1, <4>1, <4>2
    <3>2. CASE a \notin Bytes(p)
      <4>1. (\A x \in Unsent' \cup memReqs' : a \notin Bytes(x)) <=> (\A x \in Unsent \cup memReqs : a \notin Bytes(x))
        BY <2>3, <2>4, <3>2
      <4>2. memory'[a] = memory[a]
        BY <2>2, <3>2
      <4>3. memory[a] = IF a \in RangeOf(c) /\ \A x \in Unsent \cup memReqs : a \notin Bytes(x)
                          THEN v(a) ELSE before[a]
        BY <2>1
      <4> QED BY <1>1, <4>1, <4>2, <4>3
    <3> QED BY <3>1, <3>2
  <2> QED BY <1>7, <2>5 DEF v
<1>9. ASSUME c.dir = "D2H"
      PROVE  /\ memory' = before'
             /\ \A x \in memRsps' :
                  x.data = [i \in 0 .. x.piece.len - 1 |-> before'[x.piece.addr + i]]
  <2>1. /\ memory = [a \in Addr |-> memory[a]] /\ memory = before
        /\ \A x \in memRsps : x.data = [i \in 0 .. x.piece.len - 1 |-> before[x.piece.addr + i]]
    BY <1>0, <1>4, <1>9 DEF MemoryInv
  <2>2. memory' = [a \in Addr |-> memory[a]]
    BY <1>1, <1>9
  <2>3. r.data = [i \in 0 .. r.piece.len - 1 |-> before[r.piece.addr + i]]
    BY <1>2, <2>1 DEF d
  <2>4. memory' = before'
    BY <1>1, <2>1, <2>2
  <2>5. \A x \in memRsps' : x = r \/ x \in memRsps
    BY <1>1
  <2>6. ASSUME NEW x \in memRsps' PROVE x.data = [i \in 0 .. x.piece.len - 1 |-> before[x.piece.addr + i]]
    BY <2>1, <2>3, <2>5
  <2> QED BY <1>1, <2>4, <2>6
<1>10. MemoryInv'
  BY <1>1, <1>7, <1>8, <1>9 DEF MemoryInv
<1> QED BY <1>1, <1>6, <1>10 DEF PieceInv

\* An answer of the memory, of either kind.
LEMMA AnswerPieces ==
  ASSUME PieceInv, NEW r \in memRsps, memRsps' = memRsps \ {r}, pendingReqs' = pendingReqs \ {r.piece},
         Finish, UNCHANGED <<toSendToMem, memReqs, memory, before>>
  PROVE  /\ PieceInv' /\ processingReq \in Copies /\ r.piece \in pendingReqs
         /\ pendingReqs' = {} => Unsent \cup memReqs = {}
<1>0. AccessInv /\ MemoryInv
  BY DEF PieceInv
<1>1. /\ pendingReqs = Unsent \cup memReqs \cup Answered
      /\ Unsent \cap memReqs = {} /\ Unsent \cap Answered = {} /\ memReqs \cap Answered = {}
      /\ \A x, y \in memRsps : x.piece = y.piece => x = y
      /\ r.piece \in Answered
  BY <1>0 DEF AccessInv, Answered
<1>2. processingReq # None /\ processingReq \in Copies /\ r.piece \in pendingReqs
  BY <1>0, <1>1 DEF AccessInv, PieceInv
<1>3. Unsent' = Unsent /\ memReqs' = memReqs
  BY DEF Unsent
<1>4. Answered' = Answered \ {r.piece}
  <2>1. ASSUME NEW x PROVE x \in Answered' <=> x \in Answered \ {r.piece}
    <3>1. x \in Answered' <=> \E y \in memRsps \ {r} : x = y.piece
      BY DEF Answered
    <3>2. x \in Answered <=> \E y \in memRsps : x = y.piece
      BY DEF Answered
    <3> QED BY <1>1, <3>1, <3>2
  <2> QED BY <2>1
<1>5. processingReq' = (IF pendingReqs' = {} THEN None ELSE processingReq)
  BY DEF Finish
<1>6. AccessInv'
  <2>1. /\ pendingReqs' = Unsent' \cup memReqs' \cup Answered'
        /\ Unsent' \cap memReqs' = {} /\ Unsent' \cap Answered' = {} /\ memReqs' \cap Answered' = {}
    BY <1>1, <1>3, <1>4
  <2>2. \A x, y \in memRsps' : x.piece = y.piece => x = y
    BY <1>1
  <2>3. /\ toSendToMem' \in Seq(Chunk)
        /\ \A i, j \in DOMAIN toSendToMem' : toSendToMem'[i] = toSendToMem'[j] => i = j
        /\ pendingReqs' \subseteq Chunk
        /\ \A x, y \in pendingReqs' : x # y => Bytes(x) \cap Bytes(y) = {}
    BY <1>0 DEF AccessInv
  <2>4. /\ processingReq' = None => pendingReqs' = {}
        /\ processingReq' # None => \A x \in pendingReqs' : Bytes(x) \subseteq RangeOf(processingReq')
    <3>1. \A x \in pendingReqs : Bytes(x) \subseteq RangeOf(processingReq)
      BY <1>0, <1>2 DEF AccessInv
    <3> QED BY <1>2, <1>5, <3>1
  <2> QED BY <2>1, <2>2, <2>3, <2>4 DEF AccessInv
<1>7. MemoryInv'
  <2>1. CASE processingReq' = None
    BY <1>0, <2>1 DEF MemoryInv
  <2>2. CASE processingReq' = processingReq
    BY <1>0, <1>3, <2>2 DEF MemoryInv
  <2> QED BY <1>5, <2>1, <2>2
<1>8. processingReq' \in Copies \cup {None}
  BY <1>2, <1>5
<1> QED BY <1>1, <1>2, <1>6, <1>7, <1>8 DEF PieceInv

LEMMA DMAStepPieces ==
  ASSUME PieceInv, dmaToCP \in Seq(Copies), DMAStep
  PROVE  PieceInv'
<1>1. ASSUME NEW r \in memRsps, ProcessDataReadyRsp(r) \/ ProcessDoneRsp(r)
      PROVE  PieceInv'
  <2>1. /\ memRsps' = memRsps \ {r} /\ pendingReqs' = pendingReqs \ {r.piece} /\ Finish
        /\ UNCHANGED <<toSendToMem, memReqs, memory, before>>
    BY <1>1 DEF ProcessDataReadyRsp, ProcessDoneRsp
  <2> QED BY <2>1, AnswerPieces
<1>2. CASE ParseFromCP
  BY <1>2, ParseFromCPPieces
<1>3. CASE SendToMem
  BY <1>3, SendToMemPieces
<1>4. CASE \E p \in memReqs : MemoryServes(p)
  BY <1>4, MemoryServesPieces
<1> QED BY <1>1, <1>2, <1>3, <1>4 DEF DMAStep

-----------------------------------------------------------------------------
(* Where the launches and the copies are: each in one place, and its queue *)
(* waits for it and for no other.                                          *)

Launch(q) == [kind |-> "launch", queue |-> q]
CopyReq(c) == [kind |-> "copy", queue |-> c.queue, copy |-> c]
Jobs == {Launch(q) : q \in Queue} \cup {CopyReq(c) : c \in Copies}

\* A copy is between the two ports of the DMA engine.
InEngine(c) ==
  In(c, dmaToCP) \/ processingReq = c \/ In(c, toSendToCP) \/ ToDMA = c
Working(r) == IF r.kind = "launch" THEN r.queue \in running ELSE InEngine(r.copy)

JobTypes ==
  /\ ToDriver \in Seq(Request) /\ toDriverSender \in Seq(Request \cup {None})
  /\ dmaToCP \in Seq(Copies) /\ toSendToCP \in Seq(Copies)
  /\ processingReq \in Copies \cup {None} /\ ToDMA \in Copies \cup {None}
  /\ currFlushRequest \in {Flush(q) : q \in Queue} \cup {None}
  /\ waitsFor \in [Queue -> SUBSET Request]

JobOrder ==
  /\ \A r : (Asked(r) \/ Told(r)) /\ r # None /\ r.kind \in {"launch", "copy"} => r \in Jobs
  /\ Sole(ToDriver, Jobs) /\ Sole(toDriverSender, Jobs)
  /\ Sole(dmaToCP, Copies) /\ Sole(toSendToCP, Copies)
  /\ \A c \in Copies :
       /\ In(c, dmaToCP) => processingReq # c /\ ~ In(c, toSendToCP) /\ ToDMA # c
       /\ processingReq = c => ~ In(c, toSendToCP) /\ ToDMA # c
       /\ In(c, toSendToCP) => ToDMA # c

JobPlaces ==
  /\ \A r \in Jobs :
       /\ Asked(r) \/ Working(r) \/ Told(r) => r \in waitsFor[r.queue]
       /\ ~ (Asked(r) /\ Working(r)) /\ ~ (Asked(r) /\ Told(r)) /\ ~ (Working(r) /\ Told(r))
  /\ \A q \in Queue : \A r, s \in Jobs : r \in waitsFor[q] /\ s \in waitsFor[q] => r = s

JobInv == JobTypes /\ JobOrder /\ JobPlaces

LEMMA JobKinds ==
  /\ \A q \in Queue : /\ Launch(q) \in Jobs /\ Launch(q).kind = "launch" /\ Launch(q).queue = q
                      /\ Launch(q) \in Request
  /\ \A c \in Copies : /\ CopyReq(c) \in Jobs /\ CopyReq(c).kind = "copy"
                       /\ CopyReq(c).queue = c.queue /\ CopyReq(c).copy = c
                       /\ CopyReq(c) \in Request /\ c.queue \in Queue /\ c # None
  /\ \A r \in Jobs : /\ r \in Request /\ r # None /\ r.queue \in Queue
                     /\ r.kind \in {"launch", "copy"}
                     /\ r.kind = "launch" => r = Launch(r.queue)
                     /\ r.kind = "copy" => r.copy \in Copies /\ r = CopyReq(r.copy)
  /\ \A q \in Queue : Flush(q) \notin Jobs /\ Flush(q) \in Request
  /\ \A k \in MigKind : Alone(k) \notin Jobs /\ Alone(k) \in Request
  /\ None \notin Jobs
<1>1. \A q \in Queue : /\ Launch(q) \in Jobs /\ Launch(q).kind = "launch" /\ Launch(q).queue = q
                       /\ Launch(q) \in Request
  BY DEF Launch, Jobs, Request
<1>2. ASSUME NEW c \in Copies
      PROVE  /\ CopyReq(c) \in Jobs /\ CopyReq(c).kind = "copy"
             /\ CopyReq(c).queue = c.queue /\ CopyReq(c).copy = c
             /\ CopyReq(c) \in Request /\ c.queue \in Queue /\ c # None
  <2>1. c.queue \in Queue
    BY CopiesAssumption
  <2>2. c # None
    BY NoneAssumption
  <2> QED BY <2>1, <2>2 DEF CopyReq, Jobs, Request
<1>3. None \notin Request
  BY NoneAssumption
<1>4. ASSUME NEW r \in Jobs
      PROVE  /\ r \in Request /\ r # None /\ r.queue \in Queue
             /\ r.kind \in {"launch", "copy"}
             /\ r.kind = "launch" => r = Launch(r.queue)
             /\ r.kind = "copy" => r.copy \in Copies /\ r = CopyReq(r.copy)
  <2>1. CASE \E q \in Queue : r = Launch(q)
    BY <1>1, <1>3, <2>1
  <2>2. CASE \E c \in Copies : r = CopyReq(c)
    BY <1>2, <1>3, <2>2
  <2> QED BY <2>1, <2>2 DEF Jobs
<1>5. /\ \A q \in Queue : Flush(q) \notin Jobs /\ Flush(q) \in Request
      /\ \A k \in MigKind : Alone(k) \notin Jobs /\ Alone(k) \in Request
  BY <1>4, RequestKinds DEF MigKind
<1> QED BY <1>1, <1>2, <1>3, <1>4, <1>5

\* A request of a launch or a copy is a job of its kind.
LEMMA AskedJob ==
  ASSUME JobInv, NEW r, Asked(r)
  PROVE  /\ r \in Request /\ r # None
         /\ r.kind = "launch" => r \in Jobs /\ r = Launch(r.queue) /\ r.queue \in Queue
         /\ r.kind = "copy" => r \in Jobs /\ r.copy \in Copies /\ r = CopyReq(r.copy)
<1>1. r \in Request
  BY DEF JobInv, JobTypes, Asked, In
<1>2. r # None
  BY <1>1, NoneAssumption
<1>3. r.kind \in {"launch", "copy"} => r \in Jobs
  BY <1>2 DEF JobInv, JobOrder
<1> QED BY <1>1, <1>2, <1>3, JobKinds

\* A queue has one job.
LEMMA OneJob ==
  ASSUME JobInv, NEW r \in Jobs, NEW s \in Jobs, r.queue = s.queue,
         Asked(r) \/ Working(r) \/ Told(r), Asked(s) \/ Working(s) \/ Told(s)
  PROVE  r = s
<1>1. r.queue \in Queue /\ r \in waitsFor[r.queue] /\ s \in waitsFor[r.queue]
  BY JobKinds DEF JobInv, JobPlaces
<1> QED BY <1>1 DEF JobInv, JobPlaces

\* Steps that move no job.
LEMMA SamePlaces ==
  ASSUME JobPlaces, waitsFor' = waitsFor,
         \A r \in Jobs : (Asked(r)' <=> Asked(r)) /\ (Working(r)' <=> Working(r)) /\ (Told(r)' <=> Told(r))
  PROVE  JobPlaces'
BY DEF JobPlaces

LEMMA WorkingIs ==
  /\ \A q \in Queue : (Working(Launch(q)) <=> q \in running) /\ (Working(Launch(q))' <=> q \in running')
  /\ \A c \in Copies : (Working(CopyReq(c)) <=> InEngine(c)) /\ (Working(CopyReq(c))' <=> InEngine(c)')
BY JobKinds, ZenonT(40) DEF Working

LEMMA SameWorking ==
  ASSUME \A q \in Queue : q \in running' <=> q \in running,
         \A c \in Copies : InEngine(c)' <=> InEngine(c)
  PROVE  \A r \in Jobs : Working(r)' <=> Working(r)
<1> SUFFICES ASSUME NEW r \in Jobs PROVE Working(r)' <=> Working(r)
  OBVIOUS
<1>1. (\E q \in Queue : r = Launch(q)) \/ (\E c \in Copies : r = CopyReq(c))
  BY DEF Jobs
<1> QED BY <1>1, WorkingIs

engineVars == <<dmaToCP, processingReq, toSendToCP, ToDMA>>

\* A step that the jobs and the copies do not see.
LEMMA JobStutter ==
  ASSUME JobInv, UNCHANGED <<engineVars, waitsFor, currFlushRequest, ToDriver, toDriverSender, running>>
  PROVE  JobInv'
<1>1. JobTypes' /\ JobOrder'
  BY DEF JobInv, JobTypes, JobOrder, engineVars, Asked, Told, In, Sole
<1>2. \A r \in Jobs : Working(r)' <=> Working(r)
  BY SameWorking DEF InEngine, In, engineVars
<1>3. JobPlaces'
  BY <1>2, SamePlaces DEF JobInv, Asked, Told, In
<1> QED BY <1>1, <1>3 DEF JobInv

\* Something that is no job comes to the command processor.
LEMMA AskAside ==
  ASSUME JobInv, NEW e \in Request, e \notin Jobs, e.kind \notin {"launch", "copy"},
         ToDriver' = Append(ToDriver, e),
         UNCHANGED <<engineVars, waitsFor, currFlushRequest, toDriverSender, running>>
  PROVE  JobInv'
<1>1. ToDriver \in Seq(Request) /\ Sole(ToDriver, Jobs)
  BY DEF JobInv, JobTypes, JobOrder
<1>2. /\ ToDriver' \in Seq(Request) /\ Sole(ToDriver', Jobs)
      /\ \A r : In(r, ToDriver') <=> In(r, ToDriver) \/ r = e
  BY <1>1, AppendSole
<1>3. JobTypes'
  BY <1>2 DEF JobInv, JobTypes, engineVars
<1>4. JobOrder'
  <2>1. \A r : (Asked(r)' \/ Told(r)') /\ r # None /\ r.kind \in {"launch", "copy"} => r \in Jobs
    BY <1>2 DEF JobInv, JobOrder, Asked, Told, In
  <2> QED BY <1>2, <2>1 DEF JobInv, JobOrder, engineVars, In, Sole
<1>5. \A r \in Jobs : Working(r)' <=> Working(r)
  BY SameWorking DEF InEngine, In, engineVars
<1>6. \A r \in Jobs : (Asked(r)' <=> Asked(r)) /\ (Told(r)' <=> Told(r))
  BY <1>2 DEF Asked, Told, In
<1>7. JobPlaces'
  BY <1>5, <1>6, SamePlaces DEF JobInv
<1> QED BY <1>3, <1>4, <1>7 DEF JobInv

\* What the command processor takes first.
LEMMA JobTaken ==
  ASSUME JobInv, ToDriver # <<>>, ToDriver' = Tail(ToDriver)
  PROVE  /\ Head(ToDriver) \in Request /\ Asked(Head(ToDriver))
         /\ ToDriver' \in Seq(Request) /\ Sole(ToDriver', Jobs)
         /\ \A r : Asked(r) <=> r = Head(ToDriver) \/ Asked(r)'
         /\ \A r \in Jobs : Asked(r)' => r # Head(ToDriver)
BY TailSole DEF JobInv, JobTypes, JobOrder, Asked

LEMMA TakeAside ==
  ASSUME JobInv, ToDriver # <<>>, ToDriver' = Tail(ToDriver), Head(ToDriver) \notin Jobs,
         currFlushRequest' \in {Flush(q) : q \in Queue} \cup {None},
         UNCHANGED <<engineVars, waitsFor, toDriverSender, running>>
  PROVE  JobInv'
<1>1. /\ ToDriver' \in Seq(Request) /\ Sole(ToDriver', Jobs)
      /\ \A r : Asked(r) <=> r = Head(ToDriver) \/ Asked(r)'
  BY JobTaken
<1>3. JobTypes'
  BY <1>1 DEF JobInv, JobTypes, engineVars
<1>4. JobOrder'
  <2>1. \A r : (Asked(r)' \/ Told(r)') /\ r # None /\ r.kind \in {"launch", "copy"} => r \in Jobs
    BY <1>1 DEF JobInv, JobOrder, Told
  <2> QED BY <1>1, <2>1 DEF JobInv, JobOrder, engineVars, In, Sole
<1>5. \A r \in Jobs : Working(r)' <=> Working(r)
  BY SameWorking DEF InEngine, In, engineVars
<1>6. \A r \in Jobs : (Asked(r)' <=> Asked(r)) /\ (Told(r)' <=> Told(r))
  BY <1>1 DEF Told
<1>7. JobPlaces'
  BY <1>5, <1>6, SamePlaces DEF JobInv
<1> QED BY <1>3, <1>4, <1>7 DEF JobInv

\* An answer that is none to a job.
LEMMA RespondAside ==
  ASSUME JobInv, NEW e \in Request \cup {None}, e # None => e.kind \notin {"launch", "copy"},
         toDriverSender' = Append(toDriverSender, e),
         currFlushRequest' \in {Flush(q) : q \in Queue} \cup {None},
         UNCHANGED <<engineVars, waitsFor, ToDriver, running>>
  PROVE  JobInv'
<1>0. e \notin Jobs
  BY JobKinds
<1>1. toDriverSender \in Seq(Request \cup {None}) /\ Sole(toDriverSender, Jobs)
  BY DEF JobInv, JobTypes, JobOrder
<1>2. /\ toDriverSender' \in Seq(Request \cup {None}) /\ Sole(toDriverSender', Jobs)
      /\ \A r : In(r, toDriverSender') <=> In(r, toDriverSender) \/ r = e
  <2> DEFINE S == Request \cup {None}
  <2>1. e \in S /\ toDriverSender \in Seq(S) /\ Sole(toDriverSender, Jobs) /\ ~ (e \in Jobs /\ In(e, toDriverSender))
    BY <1>0, <1>1
  <2> HIDE DEF S
  <2>2. /\ Append(toDriverSender, e) \in Seq(S) /\ Sole(Append(toDriverSender, e), Jobs)
        /\ \A r : In(r, Append(toDriverSender, e)) <=> In(r, toDriverSender) \/ r = e
    BY <2>1, AppendSole
  <2> QED BY <2>2 DEF S
<1>3. JobTypes'
  BY <1>2 DEF JobInv, JobTypes, engineVars
<1>4. JobOrder'
  <2>1. \A r : (Asked(r)' \/ Told(r)') /\ r # None /\ r.kind \in {"launch", "copy"} => r \in Jobs
    BY <1>2 DEF JobInv, JobOrder, Asked, Told, In
  <2> QED BY <1>2, <2>1 DEF JobInv, JobOrder, engineVars, In, Sole
<1>5. \A r \in Jobs : Working(r)' <=> Working(r)
  BY SameWorking DEF InEngine, In, engineVars
<1>6. \A r \in Jobs : (Asked(r)' <=> Asked(r)) /\ (Told(r)' <=> Told(r))
  BY <1>0, <1>2 DEF Asked, Told, In
<1>7. JobPlaces'
  BY <1>5, <1>6, SamePlaces DEF JobInv
<1> QED BY <1>3, <1>4, <1>7 DEF JobInv

\* The answer to a job, which was at work.
LEMMA RespondJob ==
  ASSUME JobInv, NEW e \in Jobs, Working(e), toDriverSender' = Append(toDriverSender, e),
         \A r \in Jobs : Working(r)' <=> Working(r) /\ r # e,
         JobTypes /\ toDriverSender' \in Seq(Request \cup {None}) => JobTypes',
         Sole(toSendToCP', Copies) /\ Sole(dmaToCP', Copies),
         \A c \in Copies :
           /\ In(c, dmaToCP)' => processingReq' # c /\ ~ In(c, toSendToCP)' /\ ToDMA' # c
           /\ processingReq' = c => ~ In(c, toSendToCP)' /\ ToDMA' # c
           /\ In(c, toSendToCP)' => ToDMA' # c,
         UNCHANGED <<waitsFor, ToDriver>>
  PROVE  JobInv'
<1>0. e \in Request \cup {None} /\ ~ Told(e) /\ ~ Asked(e)
  BY JobKinds DEF JobInv, JobPlaces
<1>1. toDriverSender \in Seq(Request \cup {None}) /\ Sole(toDriverSender, Jobs)
  BY DEF JobInv, JobTypes, JobOrder
<1>2. /\ toDriverSender' \in Seq(Request \cup {None}) /\ Sole(toDriverSender', Jobs)
      /\ \A r : In(r, toDriverSender') <=> In(r, toDriverSender) \/ r = e
  <2> DEFINE S == Request \cup {None}
  <2>1. e \in S /\ toDriverSender \in Seq(S) /\ Sole(toDriverSender, Jobs) /\ ~ (e \in Jobs /\ In(e, toDriverSender))
    BY <1>0, <1>1 DEF Told
  <2> HIDE DEF S
  <2>2. /\ Append(toDriverSender, e) \in Seq(S) /\ Sole(Append(toDriverSender, e), Jobs)
        /\ \A r : In(r, Append(toDriverSender, e)) <=> In(r, toDriverSender) \/ r = e
    BY <2>1, AppendSole
  <2> QED BY <2>2 DEF S
<1>3. JobTypes'
  BY <1>2 DEF JobInv
<1>4. JobOrder'
  <2>1. \A r : (Asked(r)' \/ Told(r)') /\ r # None /\ r.kind \in {"launch", "copy"} => r \in Jobs
    BY <1>2 DEF JobInv, JobOrder, Asked, Told, In
  <2>2. Sole(ToDriver', Jobs)
    BY DEF JobInv, JobOrder
  <2> QED BY <1>2, <2>1, <2>2 DEF JobOrder
<1>6. \A r \in Jobs : (Asked(r)' <=> Asked(r)) /\ (Told(r)' <=> Told(r) \/ r = e)
  BY <1>2 DEF Asked, Told, In
<1>7. JobPlaces'
  BY <1>0, <1>6 DEF JobInv, JobPlaces
<1> QED BY <1>3, <1>4, <1>7 DEF JobInv

\* A queue begins a job.
LEMMA BeginJob ==
  ASSUME JobInv, NEW q \in Queue, NEW e \in Jobs, e.queue = q, NEW reqs \in Seq(Request), Begin(q, reqs),
         In(e, reqs), \A x : In(x, reqs) => x = e \/ x = Flush(q), Sole(reqs, Jobs),
         UNCHANGED <<engineVars, currFlushRequest, toDriverSender, running>>
  PROVE  /\ JobInv' /\ waitsFor[q] = {}
         /\ \A x : Asked(x)' <=> Asked(x) \/ In(x, reqs)
<1>1. /\ waitsFor[q] = {} /\ waitsFor' = [waitsFor EXCEPT ![q] = ToSet(reqs)]
      /\ ToDriver' = ToDriver \o reqs
  BY DEF Begin
<1>2. ToSet(reqs) \in SUBSET Request /\ \A x : x \in ToSet(reqs) <=> In(x, reqs)
  <2>1. \A i \in DOMAIN reqs : reqs[i] \in Request
    BY ElementOfSeq, LenProperties
  <2> QED  BY <2>1 DEF ToSet, In
<1>3. \A r \in Jobs : r.queue = q => ~ Asked(r) /\ ~ Told(r) /\ ~ Working(r)
  BY <1>1 DEF JobInv, JobPlaces
<1>4. \A x \in Jobs : In(x, reqs) => x = e
  BY JobKinds
<1>5. /\ ToDriver' \in Seq(Request) /\ Sole(ToDriver', Jobs)
      /\ \A x : Asked(x)' <=> Asked(x) \/ In(x, reqs)
  <2>1. ToDriver \in Seq(Request) /\ Sole(ToDriver, Jobs) /\ \A x \in Jobs : ~ (In(x, ToDriver) /\ In(x, reqs))
    BY <1>3, <1>4 DEF JobInv, JobTypes, JobOrder, Asked
  <2>2. /\ ToDriver \o reqs \in Seq(Request) /\ Sole(ToDriver \o reqs, Jobs)
        /\ \A x : In(x, ToDriver \o reqs) <=> In(x, ToDriver) \/ In(x, reqs)
    BY <2>1, ConcatSole
  <2> QED BY <1>1, <2>2 DEF Asked
<1>6. /\ waitsFor' \in [Queue -> SUBSET Request] /\ waitsFor'[q] = ToSet(reqs)
      /\ \A p \in Queue : p # q => waitsFor'[p] = waitsFor[p]
  BY <1>1, <1>2 DEF JobInv, JobTypes
<1>7. JobTypes'
  BY <1>5, <1>6 DEF JobInv, JobTypes, engineVars
<1>8. JobOrder'
  <2>1. \A r : (Asked(r)' \/ Told(r)') /\ r # None /\ r.kind \in {"launch", "copy"} => r \in Jobs
    <3> SUFFICES ASSUME NEW r, Asked(r)' \/ Told(r)', r # None, r.kind \in {"launch", "copy"} PROVE r \in Jobs
      OBVIOUS
    <3>1. Flush(q).kind = "flush"
      BY DEF Flush
    <3>2. (Asked(r) \/ Told(r)) \/ r = e \/ r = Flush(q)
      BY <1>5 DEF Told, In
    <3> QED BY <3>1, <3>2 DEF JobInv, JobOrder
  <2> QED BY <1>5, <2>1 DEF JobInv, JobOrder, engineVars, In, Sole
<1>9. \A r \in Jobs : Working(r)' <=> Working(r)
  BY SameWorking DEF InEngine, In, engineVars
<1>10. \A r \in Jobs : (Asked(r)' <=> Asked(r) \/ r = e) /\ (Told(r)' <=> Told(r))
  BY <1>4, <1>5 DEF Told, In
<1>11. JobPlaces'
  <2>1. \A r \in Jobs :
       /\ Asked(r)' \/ Working(r)' \/ Told(r)' => r \in waitsFor'[r.queue]
       /\ ~ (Asked(r)' /\ Working(r)') /\ ~ (Asked(r)' /\ Told(r)') /\ ~ (Working(r)' /\ Told(r)')
    <3> SUFFICES ASSUME NEW r \in Jobs
                 PROVE /\ Asked(r)' \/ Working(r)' \/ Told(r)' => r \in waitsFor'[r.queue]
                       /\ ~ (Asked(r)' /\ Working(r)') /\ ~ (Asked(r)' /\ Told(r)') /\ ~ (Working(r)' /\ Told(r)')
      OBVIOUS
    <3>1. CASE r = e
      BY <1>2, <1>3, <1>6, <1>9, <1>10, <3>1
    <3>2. CASE r # e /\ r.queue = q
      BY <1>3, <1>9, <1>10, <3>2
    <3>3. CASE r # e /\ r.queue # q
      <4>1. r.queue \in Queue
        BY JobKinds
      <4> QED BY <1>6, <1>9, <1>10, <3>3, <4>1 DEF JobInv, JobPlaces
    <3> QED BY <3>1, <3>2, <3>3
  <2>2. \A p \in Queue : \A r, s \in Jobs : r \in waitsFor'[p] /\ s \in waitsFor'[p] => r = s
    BY <1>2, <1>4, <1>6 DEF JobInv, JobPlaces
  <2> QED BY <2>1, <2>2 DEF JobPlaces
<1> QED BY <1>1, <1>5, <1>7, <1>8, <1>11 DEF JobInv

LEMMA ProcessLaunchKernelCommandJobs ==
  ASSUME JobInv, NEW q \in Queue, ProcessLaunchKernelCommand(q)
  PROVE  /\ JobInv' /\ waitsFor[q] = {}
         /\ \A x : Asked(x)' <=> Asked(x) \/ x = Launch(q)
<1> DEFINE r == Launch(q)
           reqs == <<r>>
<1>1. r \in Request /\ r \in Jobs /\ r.queue = q
  BY JobKinds
<1>2. Begin(q, reqs)
  BY DEF ProcessLaunchKernelCommand, Launch
<1> HIDE DEF r
<1>3. reqs \in Seq(Request) /\ (\A x : In(x, reqs) <=> x = r) /\ Sole(reqs, Jobs)
  BY <1>1, SingleSole
<1>4. UNCHANGED <<engineVars, currFlushRequest, toDriverSender, running>>
  BY DEF ProcessLaunchKernelCommand, engineVars, dmaVars, cpVars, unitVars, gpuVars
<1> HIDE DEF reqs
<1>5. /\ JobInv' /\ waitsFor[q] = {}
      /\ \A x : Asked(x)' <=> Asked(x) \/ In(x, reqs)
  BY <1>1, <1>2, <1>3, <1>4, BeginJob
<1> QED BY <1>3, <1>5 DEF r

\* What the driver asks for a copy.
CopyReqs(q, c) == (IF q \in l2Dirty THEN <<Flush(q)>> ELSE <<>>) \o <<CopyReq(c)>>

LEMMA CopyReqsAre ==
  ASSUME NEW q \in Queue, NEW c \in Copies
  PROVE  /\ CopyReqs(q, c) \in Seq(Request) /\ Sole(CopyReqs(q, c), Jobs)
         /\ \A x : In(x, CopyReqs(q, c)) <=> x = CopyReq(c) \/ (x = Flush(q) /\ q \in l2Dirty)
<1> DEFINE r == CopyReq(c)
           f == Flush(q)
           first == IF q \in l2Dirty THEN <<f>> ELSE <<>>
           last == <<r>>
<1>1. r \in Request /\ f \in Request /\ f \notin Jobs
  BY JobKinds
<1> HIDE DEF r, f
<1>2. last \in Seq(Request) /\ (\A x : In(x, last) <=> x = r) /\ Sole(last, Jobs)
  BY <1>1, SingleSole
<1>3. first \in Seq(Request) /\ (\A x : In(x, first) <=> x = f /\ q \in l2Dirty) /\ Sole(first, Jobs)
  <2>1. CASE q \in l2Dirty
    <3>1. <<f>> \in Seq(Request) /\ (\A x : In(x, <<f>>) <=> x = f) /\ Sole(<<f>>, Jobs)
      BY <1>1, SingleSole
    <3> QED  BY <2>1, <3>1
  <2>2. CASE q \notin l2Dirty
    <3>1. <<>> \in Seq(Request) /\ Sole(<<>>, Jobs) /\ \A x : ~ In(x, <<>>)
      BY NoneIn
    <3> QED  BY <2>2, <3>1
  <2> QED  BY <2>1, <2>2
<1> HIDE DEF first, last
<1>4. \A x \in Jobs : ~ (In(x, first) /\ In(x, last))
  BY <1>1, <1>3
<1>5. /\ first \o last \in Seq(Request) /\ Sole(first \o last, Jobs)
      /\ \A x : In(x, first \o last) <=> In(x, first) \/ In(x, last)
  BY <1>2, <1>3, <1>4, ConcatSole
<1>6. /\ first \o last \in Seq(Request) /\ Sole(first \o last, Jobs)
      /\ \A x : In(x, first \o last) <=> x = r \/ (x = f /\ q \in l2Dirty)
  BY <1>2, <1>3, <1>5
<1>7. CopyReqs(q, c) = first \o last
  BY DEF CopyReqs, first, last, f, r
<1> QED BY <1>6, <1>7 DEF f, r

LEMMA ProcessMemCopyCommandJobs ==
  ASSUME JobInv, NEW q \in Queue, ProcessMemCopyCommand(q)
  PROVE  /\ JobInv' /\ waitsFor[q] = {}
         /\ \E c \in Copies :
              /\ c.queue = q /\ Begin(q, CopyReqs(q, c))
              /\ \A x : Asked(x)' <=> Asked(x) \/ x = CopyReq(c) \/ (x = Flush(q) /\ q \in l2Dirty)
<1>1. PICK c \in Copies :
        /\ c.queue = q
        /\ Begin(q, (IF q \in l2Dirty THEN <<[kind |-> "flush", queue |-> q]>> ELSE <<>>)
                    \o <<[kind |-> "copy", queue |-> q, copy |-> c]>>)
  BY DEF ProcessMemCopyCommand
<1>2. Begin(q, CopyReqs(q, c))
  BY <1>1 DEF CopyReqs, CopyReq, Flush
<1>3. UNCHANGED <<engineVars, currFlushRequest, toDriverSender, running>>
  BY DEF ProcessMemCopyCommand, engineVars, copyVars, cpVars, unitVars, gpuVars
<1> DEFINE reqs == CopyReqs(q, c)
           e == CopyReq(c)
<1>4. /\ reqs \in Seq(Request) /\ Sole(reqs, Jobs)
      /\ \A x : In(x, reqs) <=> x = e \/ (x = Flush(q) /\ q \in l2Dirty)
  BY CopyReqsAre
<1>5. e \in Jobs /\ e.queue = q /\ Begin(q, reqs)
  BY <1>1, <1>2, JobKinds
<1> HIDE DEF reqs, e
<1>6. /\ JobInv' /\ waitsFor[q] = {}
      /\ \A x : Asked(x)' <=> Asked(x) \/ In(x, reqs)
  BY <1>3, <1>4, <1>5, BeginJob
<1>7. \A x : Asked(x)' <=> Asked(x) \/ x = e \/ (x = Flush(q) /\ q \in l2Dirty)
  BY <1>4, <1>6
<1> QED BY <1>1, <1>2, <1>6, <1>7 DEF e

\* A launch goes to a dispatcher.
LEMMA ProcessLaunchKernelReqJobs ==
  ASSUME JobInv, ProcessLaunchKernelReq
  PROVE  /\ JobInv'
         /\ \E q \in Queue : Asked(Launch(q)) /\ running' = running \cup {q} /\ ToDriver' = Tail(ToDriver)
<1> DEFINE h == Head(ToDriver)
           q == h.queue
<1>1. /\ ToDriver # <<>> /\ ToDriver' = Tail(ToDriver) /\ h.kind = "launch"
      /\ running' = running \cup {q}
      /\ UNCHANGED <<engineVars, waitsFor, currFlushRequest, toDriverSender>>
  BY DEF ProcessLaunchKernelReq, Takes, engineVars, dmaVars, drvVars, cpVars
<1>2. /\ h \in Request /\ Asked(h)
      /\ ToDriver' \in Seq(Request) /\ Sole(ToDriver', Jobs)
      /\ \A r : Asked(r) <=> r = h \/ Asked(r)'
      /\ \A r \in Jobs : Asked(r)' => r # h
  BY <1>1, JobTaken
<1> HIDE DEF h
<1>3. h \in Jobs /\ h = Launch(q) /\ q \in Queue
  BY <1>1, <1>2, AskedJob
<1> HIDE DEF q
<1>4. JobTypes'
  BY <1>1, <1>2 DEF JobInv, JobTypes, engineVars
<1>5. JobOrder'
  <2>1. \A r : (Asked(r)' \/ Told(r)') /\ r # None /\ r.kind \in {"launch", "copy"} => r \in Jobs
    BY <1>1, <1>2 DEF JobInv, JobOrder, Told
  <2> QED BY <1>1, <1>2, <2>1 DEF JobInv, JobOrder, engineVars, In, Sole
<1>6. \A r \in Jobs : Working(r)' <=> Working(r) \/ r = h
  <2>1. \A c \in Copies : InEngine(c)' <=> InEngine(c)
    BY <1>1 DEF InEngine, In, engineVars
  <2>2. ASSUME NEW p \in Queue PROVE Working(Launch(p))' <=> Working(Launch(p)) \/ Launch(p) = h
    BY <1>1, <1>3, WorkingIs, JobKinds
  <2>3. ASSUME NEW c \in Copies PROVE Working(CopyReq(c))' <=> Working(CopyReq(c)) \/ CopyReq(c) = h
    BY <1>1, <1>3, <2>1, WorkingIs, JobKinds
  <2> QED BY <2>2, <2>3 DEF Jobs
<1>7. \A r \in Jobs : (Asked(r)' <=> Asked(r) /\ r # h) /\ (Told(r)' <=> Told(r))
  BY <1>1, <1>2 DEF Told
<1>8. JobPlaces'
  BY <1>1, <1>2, <1>3, <1>6, <1>7 DEF JobInv, JobPlaces
<1> QED BY <1>1, <1>2, <1>3, <1>4, <1>5, <1>8 DEF JobInv

\* A copy goes to the DMA engine.
LEMMA ProcessMemCopyReqJobs ==
  ASSUME JobInv, ProcessMemCopyReq
  PROVE  /\ JobInv'
         /\ \E c \in Copies : /\ Asked(CopyReq(c)) /\ ToDriver' = Tail(ToDriver)
                              /\ Head(ToDriver) = CopyReq(c)
                              /\ \A d : In(d, dmaToCP)' <=> In(d, dmaToCP) \/ d = c
<1> DEFINE h == Head(ToDriver)
           c == h.copy
<1>1. /\ ToDriver # <<>> /\ ToDriver' = Tail(ToDriver) /\ h.kind = "copy"
      /\ dmaToCP' = Append(dmaToCP, c)
      /\ UNCHANGED <<processingReq, toSendToCP, ToDMA, running, waitsFor, currFlushRequest, toDriverSender>>
  BY DEF ProcessMemCopyReq, Takes, copyVars, drvVars, unitVars, gpuVars
<1>2. /\ h \in Request /\ Asked(h)
      /\ ToDriver' \in Seq(Request) /\ Sole(ToDriver', Jobs)
      /\ \A r : Asked(r) <=> r = h \/ Asked(r)'
      /\ \A r \in Jobs : Asked(r)' => r # h
  BY <1>1, JobTaken
<1> HIDE DEF h
<1>3. h \in Jobs /\ c \in Copies /\ h = CopyReq(c)
  BY <1>1, <1>2, AskedJob
<1>4. ~ Working(h)
  BY <1>2, <1>3 DEF JobInv, JobPlaces
<1> HIDE DEF c
<1>5. ~ InEngine(c)
  BY <1>3, <1>4, WorkingIs
<1>6. /\ dmaToCP' \in Seq(Copies) /\ Sole(dmaToCP', Copies)
      /\ \A d : In(d, dmaToCP)' <=> In(d, dmaToCP) \/ d = c
  <2>1. dmaToCP \in Seq(Copies) /\ Sole(dmaToCP, Copies) /\ ~ In(c, dmaToCP)
    BY <1>5 DEF JobInv, JobTypes, JobOrder, InEngine
  <2>2. /\ Append(dmaToCP, c) \in Seq(Copies) /\ Sole(Append(dmaToCP, c), Copies)
        /\ \A d : In(d, Append(dmaToCP, c)) <=> In(d, dmaToCP) \/ d = c
    BY <1>3, <2>1, AppendSole
  <2> QED BY <1>1, <2>2
<1>7. JobTypes'
  BY <1>1, <1>2, <1>6 DEF JobInv, JobTypes
<1>8. \A d : (In(d, toSendToCP)' <=> In(d, toSendToCP)) /\ (Told(d)' <=> Told(d))
  BY <1>1 DEF In, Told
<1>9. JobOrder'
  <2>1. \A r : (Asked(r)' \/ Told(r)') /\ r # None /\ r.kind \in {"launch", "copy"} => r \in Jobs
    BY <1>2, <1>8 DEF JobInv, JobOrder
  <2>2. Sole(toDriverSender', Jobs) /\ Sole(toSendToCP', Copies)
    BY <1>1 DEF JobInv, JobOrder
  <2>3. \A d \in Copies :
           /\ In(d, dmaToCP)' => processingReq' # d /\ ~ In(d, toSendToCP)' /\ ToDMA' # d
           /\ processingReq' = d => ~ In(d, toSendToCP)' /\ ToDMA' # d
           /\ In(d, toSendToCP)' => ToDMA' # d
    BY <1>1, <1>5, <1>6, <1>8 DEF JobInv, JobOrder, InEngine
  <2> QED BY <1>2, <1>6, <2>1, <2>2, <2>3 DEF JobOrder
<1>10. \A r \in Jobs : Working(r)' <=> Working(r) \/ r = h
  <2>1. \A d \in Copies : InEngine(d)' <=> InEngine(d) \/ d = c
    BY <1>1, <1>6, <1>8 DEF InEngine
  <2>2. ASSUME NEW p \in Queue PROVE Working(Launch(p))' <=> Working(Launch(p)) \/ Launch(p) = h
    BY <1>1, <1>3, WorkingIs, JobKinds
  <2>3. ASSUME NEW d \in Copies PROVE Working(CopyReq(d))' <=> Working(CopyReq(d)) \/ CopyReq(d) = h
    BY <1>1, <1>3, <2>1, WorkingIs, JobKinds
  <2> QED BY <2>2, <2>3 DEF Jobs
<1>11. \A r \in Jobs : (Asked(r)' <=> Asked(r) /\ r # h) /\ (Told(r)' <=> Told(r))
  BY <1>2, <1>8
<1>12. JobPlaces'
  BY <1>1, <1>2, <1>3, <1>10, <1>11 DEF JobInv, JobPlaces
<1> QED BY <1>1, <1>2, <1>3, <1>6, <1>7, <1>9, <1>12 DEF JobInv, h

LEMMA KernelEndsJobs ==
  ASSUME JobInv, NEW q \in Queue, KernelEnds(q)
  PROVE  JobInv'
<1>1. /\ q \in running /\ running' = running \ {q}
      /\ toDriverSender' = Append(toDriverSender, Launch(q))
      /\ UNCHANGED <<engineVars, waitsFor, currFlushRequest, ToDriver>>
  BY DEF KernelEnds, Respond, Launch, engineVars, dmaVars, drvVars, cpVars
<1>2. Launch(q) \in Jobs /\ Working(Launch(q))
  BY <1>1, JobKinds, WorkingIs
<1>3. \A r \in Jobs : Working(r)' <=> Working(r) /\ r # Launch(q)
  <2>1. \A c \in Copies : InEngine(c)' <=> InEngine(c)
    BY <1>1 DEF InEngine, In, engineVars
  <2>2. ASSUME NEW p \in Queue PROVE Working(Launch(p))' <=> Working(Launch(p)) /\ Launch(p) # Launch(q)
    BY <1>1, WorkingIs, JobKinds
  <2>3. ASSUME NEW c \in Copies PROVE Working(CopyReq(c))' <=> Working(CopyReq(c)) /\ CopyReq(c) # Launch(q)
    BY <1>1, <2>1, WorkingIs, JobKinds
  <2> QED BY <2>2, <2>3 DEF Jobs
<1>4. JobTypes /\ toDriverSender' \in Seq(Request \cup {None}) => JobTypes'
  BY <1>1 DEF JobTypes, engineVars
<1>5. /\ Sole(toSendToCP', Copies) /\ Sole(dmaToCP', Copies)
      /\ \A c \in Copies :
           /\ In(c, dmaToCP)' => processingReq' # c /\ ~ In(c, toSendToCP)' /\ ToDMA' # c
           /\ processingReq' = c => ~ In(c, toSendToCP)' /\ ToDMA' # c
           /\ In(c, toSendToCP)' => ToDMA' # c
  BY <1>1 DEF JobInv, JobOrder, engineVars, In, Sole
<1>6. UNCHANGED <<waitsFor, ToDriver>>
  BY <1>1
<1> QED BY <1>1, <1>2, <1>3, <1>4, <1>5, <1>6, RespondJob

LEMMA ProcessMemCopyRspJobs ==
  ASSUME JobInv, ProcessMemCopyRsp
  PROVE  JobInv'
<1> DEFINE c == ToDMA
<1>1. /\ ToDMA # None /\ ToDMA' = None
      /\ toDriverSender' = Append(toDriverSender, CopyReq(c))
      /\ UNCHANGED <<dmaToCP, processingReq, toSendToCP, running, waitsFor, currFlushRequest, ToDriver>>
  BY DEF ProcessMemCopyRsp, Respond, CopyReq, dmaVars, drvVars, unitVars, gpuVars
<1>2. c \in Copies
  BY <1>1 DEF JobInv, JobTypes
<1>3. CopyReq(c) \in Jobs /\ Working(CopyReq(c))
  BY <1>2, JobKinds, WorkingIs DEF InEngine
<1>4. \A d : (In(d, toSendToCP)' <=> In(d, toSendToCP)) /\ (In(d, dmaToCP)' <=> In(d, dmaToCP))
  BY <1>1 DEF In
<1>5. \A d \in Copies : InEngine(d)' <=> InEngine(d) /\ d # c
  <2> SUFFICES ASSUME NEW d \in Copies PROVE InEngine(d)' <=> InEngine(d) /\ d # c
    OBVIOUS
  <2>1. d # None
    BY JobKinds
  <2> QED BY <1>1, <1>4, <2>1 DEF JobInv, JobOrder, InEngine
<1>6. \A r \in Jobs : Working(r)' <=> Working(r) /\ r # CopyReq(c)
  <2>2. ASSUME NEW p \in Queue PROVE Working(Launch(p))' <=> Working(Launch(p)) /\ Launch(p) # CopyReq(c)
    BY <1>1, <1>2, WorkingIs, JobKinds
  <2>3. ASSUME NEW d \in Copies PROVE Working(CopyReq(d))' <=> Working(CopyReq(d)) /\ CopyReq(d) # CopyReq(c)
    BY <1>1, <1>2, <1>5, WorkingIs, JobKinds
  <2> QED BY <2>2, <2>3 DEF Jobs
<1>7. JobTypes /\ toDriverSender' \in Seq(Request \cup {None}) => JobTypes'
  BY <1>1 DEF JobTypes
<1>8. /\ Sole(toSendToCP', Copies) /\ Sole(dmaToCP', Copies)
      /\ \A d \in Copies :
           /\ In(d, dmaToCP)' => processingReq' # d /\ ~ In(d, toSendToCP)' /\ ToDMA' # d
           /\ processingReq' = d => ~ In(d, toSendToCP)' /\ ToDMA' # d
           /\ In(d, toSendToCP)' => ToDMA' # d
  <2>1. Sole(toSendToCP', Copies) /\ Sole(dmaToCP', Copies)
    BY <1>1 DEF JobInv, JobOrder
  <2>2. \A d \in Copies : ToDMA' # d
    BY <1>1, JobKinds
  <2> QED BY <1>1, <1>4, <2>1, <2>2 DEF JobInv, JobOrder
<1>9. UNCHANGED <<waitsFor, ToDriver>>
  BY <1>1
<1> HIDE DEF c
<1> QED BY <1>1, <1>3, <1>6, <1>7, <1>8, <1>9, RespondJob

LEMMA ProcessReturnReqJobs ==
  ASSUME JobInv, ProcessReturnReq
  PROVE  JobInv'
<1> DEFINE r == Head(toDriverSender)
           S == Request \cup {None}
<1>1. /\ toDriverSender # <<>> /\ toDriverSender' = Tail(toDriverSender) /\ r # None
      /\ \/ r.kind \in DOMAIN After /\ UNCHANGED waitsFor
         \/ /\ r.kind \notin DOMAIN After
            /\ waitsFor' = [waitsFor EXCEPT ![r.queue] = @ \ {r}]
      /\ UNCHANGED <<engineVars, currFlushRequest, ToDriver, running>>
  BY DEF ProcessReturnReq, engineVars, dmaVars, cpVars, unitVars, gpuVars
<1>2. /\ r \in S /\ toDriverSender' \in Seq(S) /\ Sole(toDriverSender', Jobs)
      /\ \A x : Told(x) <=> x = r \/ Told(x)'
      /\ \A x \in Jobs : Told(x)' => x # r
  <2>1. toDriverSender \in Seq(S) /\ toDriverSender # <<>> /\ Sole(toDriverSender, Jobs)
    BY <1>1 DEF JobInv, JobTypes, JobOrder
  <2> HIDE DEF S
  <2>2. /\ r \in S /\ Tail(toDriverSender) \in Seq(S)
        /\ \A x : In(x, toDriverSender) <=> x = r \/ In(x, Tail(toDriverSender))
        /\ Sole(Tail(toDriverSender), Jobs) /\ \A x \in Jobs : In(x, Tail(toDriverSender)) => x # r
    BY <2>1, TailSole
  <2> QED BY <1>1, <2>2 DEF Told
<1> HIDE DEF r
<1>3. DOMAIN After = MigKind
  BY DEF After, MigKind
<1>4. /\ waitsFor' \in [Queue -> SUBSET Request]
      /\ \A p \in Queue : waitsFor'[p] \subseteq waitsFor[p]
      /\ \A p \in Queue : \A x : x \in waitsFor[p] /\ x # r => x \in waitsFor'[p]
  <2>1. waitsFor \in [Queue -> SUBSET Request]
    BY DEF JobInv, JobTypes
  <2>2. CASE UNCHANGED waitsFor
    BY <2>1, <2>2
  <2>3. CASE waitsFor' = [waitsFor EXCEPT ![r.queue] = @ \ {r}]
    BY <2>1, <2>3
  <2> QED BY <1>1, <2>2, <2>3
<1>5. JobTypes'
  BY <1>1, <1>2, <1>4 DEF JobInv, JobTypes, engineVars
<1>6. JobOrder'
  <2>1. \A x : (Asked(x)' \/ Told(x)') /\ x # None /\ x.kind \in {"launch", "copy"} => x \in Jobs
    BY <1>1, <1>2 DEF JobInv, JobOrder, Asked
  <2> QED BY <1>1, <1>2, <2>1 DEF JobInv, JobOrder, engineVars, In, Sole
<1>7. \A x \in Jobs : Working(x)' <=> Working(x)
  BY <1>1, SameWorking DEF InEngine, In, engineVars
<1>8. \A x \in Jobs : (Asked(x)' <=> Asked(x)) /\ (Told(x)' <=> Told(x) /\ x # r)
  BY <1>1, <1>2 DEF Asked
<1>9. JobPlaces'
  <2>1. \A x \in Jobs : x.queue \in Queue
    BY JobKinds
  <2>2. ASSUME NEW x \in Jobs
        PROVE  /\ Asked(x)' \/ Working(x)' \/ Told(x)' => x \in waitsFor'[x.queue]
               /\ ~ (Asked(x)' /\ Working(x)') /\ ~ (Asked(x)' /\ Told(x)') /\ ~ (Working(x)' /\ Told(x)')
    <3>1. CASE x = r
      <4>1. Told(x) /\ ~ Asked(x)' /\ ~ Working(x)' /\ ~ Told(x)'
        BY <1>2, <1>7, <1>8, <3>1 DEF JobInv, JobPlaces
      <4> QED BY <4>1
    <3>2. CASE x # r
      BY <1>4, <1>7, <1>8, <2>1, <3>2 DEF JobInv, JobPlaces
    <3> QED BY <3>1, <3>2
  <2>3. \A p \in Queue : \A x, y \in Jobs : x \in waitsFor'[p] /\ y \in waitsFor'[p] => x = y
    BY <1>4 DEF JobInv, JobPlaces
  <2> QED BY <2>2, <2>3 DEF JobPlaces
<1> QED BY <1>5, <1>6, <1>9 DEF JobInv

\* The engine moves a copy on, from port to port.
LEMMA EngineMoves ==
  ASSUME JobInv, dmaToCP' \in Seq(Copies), toSendToCP' \in Seq(Copies),
         processingReq' \in Copies \cup {None}, ToDMA' \in Copies \cup {None},
         Sole(toSendToCP', Copies), Sole(dmaToCP', Copies),
         \A c \in Copies :
           /\ In(c, dmaToCP)' => processingReq' # c /\ ~ In(c, toSendToCP)' /\ ToDMA' # c
           /\ processingReq' = c => ~ In(c, toSendToCP)' /\ ToDMA' # c
           /\ In(c, toSendToCP)' => ToDMA' # c,
         \A c \in Copies : InEngine(c)' <=> InEngine(c),
         UNCHANGED <<waitsFor, currFlushRequest, ToDriver, toDriverSender, running>>
  PROVE  JobInv'
<1>1. JobTypes'
  BY DEF JobInv, JobTypes
<1>2. JobOrder'
  <2>1. /\ \A r : (Asked(r)' <=> Asked(r)) /\ (Told(r)' <=> Told(r))
        /\ Sole(ToDriver', Jobs) /\ Sole(toDriverSender', Jobs)
    BY DEF Asked, Told, JobInv, JobOrder
  <2>2. \A r : (Asked(r)' \/ Told(r)') /\ r # None /\ r.kind \in {"launch", "copy"} => r \in Jobs
    BY <2>1 DEF JobInv, JobOrder
  <2> QED BY <2>1, <2>2 DEF JobOrder
<1>3. \A r \in Jobs : Working(r)' <=> Working(r)
  BY SameWorking
<1>4. JobPlaces'
  BY <1>3, SamePlaces DEF JobInv, Asked, Told
<1> QED BY <1>1, <1>2, <1>4 DEF JobInv

driverVars == <<waitsFor, currFlushRequest, ToDriver, toDriverSender, running>>

LEMMA ParseFromCPJobs ==
  ASSUME JobInv, ParseFromCP, UNCHANGED <<driverVars, ToDMA>>
  PROVE  JobInv'
<1> DEFINE h == Head(dmaToCP)
<1>1. /\ dmaToCP # <<>> /\ dmaToCP' = Tail(dmaToCP) /\ processingReq = None /\ processingReq' = h
      /\ UNCHANGED <<toSendToCP, ToDMA, driverVars>>
  BY DEF ParseFromCP
<1>2. /\ h \in Copies /\ dmaToCP' \in Seq(Copies) /\ Sole(dmaToCP', Copies)
      /\ \A c : In(c, dmaToCP) <=> c = h \/ In(c, dmaToCP)'
      /\ \A c \in Copies : In(c, dmaToCP)' => c # h
  <2>1. /\ h \in Copies /\ Tail(dmaToCP) \in Seq(Copies) /\ Sole(Tail(dmaToCP), Copies)
        /\ \A c : In(c, dmaToCP) <=> c = h \/ In(c, Tail(dmaToCP))
        /\ \A c \in Copies : In(c, Tail(dmaToCP)) => c # h
    BY <1>1, TailSole DEF JobInv, JobTypes, JobOrder
  <2> HIDE DEF h
  <2> QED BY <1>1, <2>1
<1> HIDE DEF h
<1>3. \A d : In(d, toSendToCP)' <=> In(d, toSendToCP)
  BY <1>1 DEF In
<1>4. \A c \in Copies : c # None
  BY JobKinds
<1>5. \A c \in Copies :
           /\ In(c, dmaToCP)' => processingReq' # c /\ ~ In(c, toSendToCP)' /\ ToDMA' # c
           /\ processingReq' = c => ~ In(c, toSendToCP)' /\ ToDMA' # c
           /\ In(c, toSendToCP)' => ToDMA' # c
  BY <1>1, <1>2, <1>3, <1>4 DEF JobInv, JobOrder
<1>6. \A c \in Copies : InEngine(c)' <=> InEngine(c)
  BY <1>1, <1>2, <1>3, <1>4 DEF InEngine
<1>7. /\ toSendToCP' \in Seq(Copies) /\ Sole(toSendToCP', Copies)
      /\ processingReq' \in Copies \cup {None} /\ ToDMA' \in Copies \cup {None}
  BY <1>1, <1>2 DEF JobInv, JobTypes, JobOrder
<1> QED BY <1>1, <1>2, <1>5, <1>6, <1>7, EngineMoves DEF driverVars

LEMMA FinishJobs ==
  ASSUME JobInv, processingReq \in Copies, Finish, UNCHANGED <<driverVars, ToDMA, dmaToCP>>
  PROVE  JobInv'
<1>1. CASE pendingReqs' # {}
  <2>1. UNCHANGED <<engineVars, waitsFor, currFlushRequest, ToDriver, toDriverSender, running>>
    BY <1>1 DEF Finish, engineVars, driverVars
  <2> QED BY <2>1, JobStutter
<1>2. CASE pendingReqs' = {}
  <2> DEFINE h == processingReq
  <2>1. processingReq' = None /\ toSendToCP' = Append(toSendToCP, h) /\ UNCHANGED <<dmaToCP, ToDMA, driverVars>>
    BY <1>2 DEF Finish
  <2>2. ~ In(h, toSendToCP) /\ ToDMA # h /\ ~ In(h, dmaToCP)
    BY DEF JobInv, JobOrder
  <2> HIDE DEF h
  <2>3. h \in Copies /\ processingReq = h
    BY DEF h
  <2>4. /\ toSendToCP' \in Seq(Copies) /\ Sole(toSendToCP', Copies)
        /\ \A c : In(c, toSendToCP)' <=> In(c, toSendToCP) \/ c = h
    <3>1. toSendToCP \in Seq(Copies) /\ Sole(toSendToCP, Copies)
      BY DEF JobInv, JobTypes, JobOrder
    <3>2. /\ Append(toSendToCP, h) \in Seq(Copies) /\ Sole(Append(toSendToCP, h), Copies)
          /\ \A c : In(c, Append(toSendToCP, h)) <=> In(c, toSendToCP) \/ c = h
      BY <2>2, <2>3, <3>1, AppendSole
    <3> QED BY <2>1, <3>2
  <2>5. \A c \in Copies : c # None
    BY JobKinds
  <2>6. \A c : In(c, dmaToCP)' <=> In(c, dmaToCP)
    BY <2>1 DEF In
  <2>7. \A c \in Copies :
           /\ In(c, dmaToCP)' => processingReq' # c /\ ~ In(c, toSendToCP)' /\ ToDMA' # c
           /\ processingReq' = c => ~ In(c, toSendToCP)' /\ ToDMA' # c
           /\ In(c, toSendToCP)' => ToDMA' # c
    BY <2>1, <2>2, <2>4, <2>5, <2>6 DEF JobInv, JobOrder
  <2>8. \A c \in Copies : InEngine(c)' <=> InEngine(c)
    BY <2>1, <2>3, <2>4, <2>5, <2>6 DEF InEngine
  <2>9. /\ dmaToCP' \in Seq(Copies) /\ Sole(dmaToCP', Copies)
        /\ processingReq' \in Copies \cup {None} /\ ToDMA' \in Copies \cup {None}
    BY <2>1 DEF JobInv, JobTypes, JobOrder
  <2> QED BY <2>1, <2>4, <2>7, <2>8, <2>9, EngineMoves DEF driverVars
<1> QED BY <1>1, <1>2

LEMMA DMASendToCPJobs ==
  ASSUME JobInv, DMASendToCP
  PROVE  JobInv'
<1> DEFINE h == Head(toSendToCP)
<1>1. /\ toSendToCP # <<>> /\ toSendToCP' = Tail(toSendToCP) /\ ToDMA = None /\ ToDMA' = h
      /\ UNCHANGED <<dmaToCP, processingReq, driverVars>>
  BY DEF DMASendToCP, driverVars, drvVars, cpVars, unitVars, gpuVars, copyVars
<1>2. /\ h \in Copies /\ toSendToCP' \in Seq(Copies) /\ Sole(toSendToCP', Copies)
      /\ \A c : In(c, toSendToCP) <=> c = h \/ In(c, toSendToCP)'
      /\ \A c \in Copies : In(c, toSendToCP)' => c # h
  <2>1. /\ h \in Copies /\ Tail(toSendToCP) \in Seq(Copies) /\ Sole(Tail(toSendToCP), Copies)
        /\ \A c : In(c, toSendToCP) <=> c = h \/ In(c, Tail(toSendToCP))
        /\ \A c \in Copies : In(c, Tail(toSendToCP)) => c # h
    BY <1>1, TailSole DEF JobInv, JobTypes, JobOrder
  <2> HIDE DEF h
  <2> QED BY <1>1, <2>1
<1> HIDE DEF h
<1>3. \A d : In(d, dmaToCP)' <=> In(d, dmaToCP)
  BY <1>1 DEF In
<1>4. \A c \in Copies : c # None
  BY JobKinds
<1>5. \A c \in Copies :
           /\ In(c, dmaToCP)' => processingReq' # c /\ ~ In(c, toSendToCP)' /\ ToDMA' # c
           /\ processingReq' = c => ~ In(c, toSendToCP)' /\ ToDMA' # c
           /\ In(c, toSendToCP)' => ToDMA' # c
  BY <1>1, <1>2, <1>3, <1>4 DEF JobInv, JobOrder
<1>6. \A c \in Copies : InEngine(c)' <=> InEngine(c)
  BY <1>1, <1>2, <1>3, <1>4 DEF InEngine
<1>7. /\ dmaToCP' \in Seq(Copies) /\ Sole(dmaToCP', Copies)
      /\ processingReq' \in Copies \cup {None} /\ ToDMA' \in Copies \cup {None}
  BY <1>1, <1>2 DEF JobInv, JobTypes, JobOrder
<1> QED BY <1>1, <1>2, <1>5, <1>6, <1>7, EngineMoves DEF driverVars

LEMMA DMAStepJobs ==
  ASSUME JobInv, PieceInv, DMAStep, UNCHANGED <<driverVars, ToDMA>>
  PROVE  JobInv'
<1>1. CASE ParseFromCP
  BY <1>1, ParseFromCPJobs
<1>2. ASSUME SendToMem \/ \E p \in memReqs : MemoryServes(p) PROVE JobInv'
  <2>1. UNCHANGED <<engineVars, waitsFor, currFlushRequest, ToDriver, toDriverSender, running>>
    BY <1>2 DEF SendToMem, MemoryServes, engineVars, driverVars
  <2> QED BY <2>1, JobStutter
<1>3. ASSUME NEW r \in memRsps, ProcessDataReadyRsp(r) \/ ProcessDoneRsp(r) PROVE JobInv'
  <2>1. Finish /\ UNCHANGED <<driverVars, ToDMA, dmaToCP>>
    BY <1>3 DEF ProcessDataReadyRsp, ProcessDoneRsp
  <2>2. processingReq \in Copies
    <3>1. r.piece \in pendingReqs
      BY DEF PieceInv, AccessInv, Answered
    <3> QED BY <3>1 DEF PieceInv, AccessInv
  <2> QED BY <2>1, <2>2, FinishJobs
<1> QED BY <1>1, <1>2, <1>3 DEF DMAStep

\* The other steps ask, take and answer what is no job.
LEMMA AsideJobs ==
  ASSUME JobInv,
         \/ InitiateRDMADrain \/ (DriverStep /\ ~ ProcessReturnReq)
         \/ ProcessFlushReq \/ ProcessShootdownCommand \/ ProcessGPURestartReq
         \/ \E kind \in Relayed : RelayDown(kind) \/ RelayUp(kind) \/ ServeRelayed(kind)
         \/ (AckStep /\ ~ ProcessMemCopyRsp)
         \/ \E u \in Unit, order \in {"stop", "flush", "restart"} : Obey(u, order)
         \/ \E q \in Queue, c \in Cache : KernelWrites(q, c)
         \/ UNCHANGED vars
  PROVE  JobInv'
<1> USE DEF engineVars, dmaVars, drvVars, cpVars, cntVars, unitVars, gpuVars, migVars
<1>1. ASSUME NEW from, NEW k \in MigKind, Ask(from, k),
             UNCHANGED <<engineVars, waitsFor, currFlushRequest, toDriverSender, running>>
      PROVE  JobInv'
  <2>1. ToDriver' = Append(ToDriver, Alone(k))
    BY <1>1 DEF Ask
  <2>2. Alone(k) \in Request /\ Alone(k) \notin Jobs /\ Alone(k).kind \notin {"launch", "copy"}
    BY JobKinds, RequestKinds DEF MigKind
  <2> QED BY <1>1, <2>1, <2>2, AskAside
<1>2. ASSUME UNCHANGED <<engineVars, waitsFor, currFlushRequest, ToDriver, toDriverSender, running>> PROVE JobInv'
  BY <1>2, JobStutter
<1>3. ASSUME NEW k \in MigKind \cup {"flush"}, Takes(k),
             currFlushRequest' \in {Flush(q) : q \in Queue} \cup {None},
             UNCHANGED <<engineVars, waitsFor, toDriverSender, running>>
      PROVE  JobInv'
  <2>1. ToDriver # <<>> /\ ToDriver' = Tail(ToDriver) /\ Head(ToDriver).kind = k
    BY <1>3 DEF Takes
  <2>2. Head(ToDriver) \notin Jobs
    BY <2>1, JobKinds DEF MigKind
  <2> QED BY <1>3, <2>1, <2>2, TakeAside
<1>4. ASSUME NEW k \in MigKind, Respond(Alone(k)),
             UNCHANGED <<engineVars, waitsFor, currFlushRequest, ToDriver, running>>
      PROVE  JobInv'
  <2> DEFINE e == Alone(k)
  <2>1. e \in Request \cup {None} /\ e.kind \notin {"launch", "copy"}
    BY JobKinds, RequestKinds DEF MigKind
  <2>2. toDriverSender' = Append(toDriverSender, e)
    BY <1>4 DEF Respond
  <2>3. currFlushRequest' \in {Flush(q) : q \in Queue} \cup {None}
    BY <1>4 DEF JobInv, JobTypes
  <2>4. UNCHANGED <<engineVars, waitsFor, ToDriver, running>>
    BY <1>4
  <2> HIDE DEF e
  <2> QED BY <2>1, <2>2, <2>3, <2>4, RespondAside
<1>5. ASSUME InitiateRDMADrain \/ SendShootDownReqs \/ SendMigrationReqToCP
             \/ PrepareGPURestartReqs \/ PrepareRDMARestartReqs
      PROVE  JobInv'
  <2>1. UNCHANGED <<engineVars, waitsFor, currFlushRequest, toDriverSender, running>>
    BY <1>5 DEF InitiateRDMADrain, SendShootDownReqs, SendMigrationReqToCP, PrepareGPURestartReqs,
                PrepareRDMARestartReqs, DriverUnchanged
  <2>2. \/ \E from, k \in {"none", "drained", "shot", "migrated", "restarted"} \cup MigKind :
              k \in MigKind /\ Ask(from, k)
        \/ UNCHANGED ToDriver
    BY <1>5 DEF InitiateRDMADrain, SendShootDownReqs, SendMigrationReqToCP, PrepareGPURestartReqs,
                PrepareRDMARestartReqs, Others, MigKind
  <2> QED BY <1>1, <1>2, <2>1, <2>2
<1>6. ASSUME ProcessFlushReq PROVE JobInv'
  <2>1. /\ Takes("flush") /\ currFlushRequest' = Head(ToDriver)
        /\ UNCHANGED <<engineVars, waitsFor, toDriverSender, running>>
    BY <1>6 DEF ProcessFlushReq
  <2>2. Head(ToDriver) \in Request /\ Head(ToDriver).kind = "flush"
    BY <2>1, JobTaken DEF Takes
  <2>3. currFlushRequest' \in {Flush(q) : q \in Queue} \cup {None}
    BY <2>1, <2>2, RequestKinds
  <2> QED BY <1>3, <2>1, <2>3
<1>7. ASSUME ProcessShootdownCommand \/ ProcessGPURestartReq \/ \E kind \in Relayed : RelayDown(kind)
      PROVE  JobInv'
  <2>1. UNCHANGED <<engineVars, waitsFor, currFlushRequest, toDriverSender, running>>
    BY <1>7 DEF ProcessShootdownCommand, ProcessGPURestartReq, RelayDown
  <2>2. \E k \in MigKind : Takes(k)
    BY <1>7 DEF ProcessShootdownCommand, ProcessGPURestartReq, RelayDown, Relayed, MigKind
  <2>3. currFlushRequest' \in {Flush(q) : q \in Queue} \cup {None}
    BY <2>1 DEF JobInv, JobTypes
  <2> QED BY <1>3, <2>1, <2>2, <2>3
<1>8. ASSUME \E kind \in Relayed : ServeRelayed(kind) PROVE JobInv'
  <2>1. UNCHANGED <<engineVars, waitsFor, currFlushRequest, ToDriver, toDriverSender, running>>
    BY <1>8 DEF ServeRelayed
  <2> QED BY <1>2, <2>1
<1>9. ASSUME \E u \in Unit, order \in {"stop", "flush", "restart"} : Obey(u, order) PROVE JobInv'
  <2>1. UNCHANGED <<engineVars, waitsFor, currFlushRequest, ToDriver, toDriverSender, running>>
    BY <1>9 DEF Obey
  <2> QED BY <1>2, <2>1
<1>10. ASSUME UNCHANGED vars \/ \E q \in Queue, c \in Cache : KernelWrites(q, c) PROVE JobInv'
  <2>1. UNCHANGED <<engineVars, waitsFor, currFlushRequest, ToDriver, toDriverSender, running>>
    BY <1>10 DEF KernelWrites, vars
  <2> QED BY <1>2, <2>1
<1>11. ASSUME ProcessCUPipelineFlushRsp \/ ProcessAddressTranslatorFlushRsp \/ ProcessCacheRestartRsp
              \/ ProcessTLBRestartRsp \/ ProcessAddressTranslatorRestartRsp
       PROVE  JobInv'
  <2>1. UNCHANGED <<engineVars, waitsFor, currFlushRequest, ToDriver, toDriverSender, running>>
    BY <1>11 DEF ProcessCUPipelineFlushRsp, ProcessAddressTranslatorFlushRsp, ProcessCacheRestartRsp,
                 ProcessTLBRestartRsp, ProcessAddressTranslatorRestartRsp, AckUnchanged
  <2> QED BY <1>2, <2>1
<1>12. ASSUME ProcessTLBFlushRsp \/ ProcessCUPipelineRestartRsp \/ \E kind \in Relayed : RelayUp(kind)
       PROVE  JobInv'
  <2>1. UNCHANGED <<engineVars, waitsFor, currFlushRequest, ToDriver, running>>
    BY <1>12 DEF ProcessTLBFlushRsp, ProcessCUPipelineRestartRsp, RelayUp, AckUnchanged
  <2>2. UNCHANGED toDriverSender \/ \E k \in MigKind : Respond(Alone(k))
    BY <1>12 DEF ProcessTLBFlushRsp, ProcessCUPipelineRestartRsp, RelayUp, MigKind, Relayed
  <2> QED BY <1>2, <1>4, <2>1, <2>2
<1>13. ASSUME ProcessCacheFlushRsp PROVE JobInv'
  <2>1. UNCHANGED <<engineVars, waitsFor, ToDriver, running>>
    BY <1>13 DEF ProcessCacheFlushRsp, AckUnchanged
  <2>2. \/ UNCHANGED <<toDriverSender, currFlushRequest>>
        \/ UNCHANGED toDriverSender /\ currFlushRequest' = None
        \/ Respond(currFlushRequest) /\ currFlushRequest' = None
    BY <1>13 DEF ProcessCacheFlushRsp
  <2>3. currFlushRequest \in {Flush(q) : q \in Queue} \cup {None}
    BY DEF JobInv, JobTypes
  <2>4. CASE UNCHANGED <<toDriverSender, currFlushRequest>>
    BY <1>2, <2>1, <2>4
  <2>5. CASE UNCHANGED toDriverSender /\ currFlushRequest' = None
    <3>1. JobTypes' /\ JobOrder'
      BY <2>1, <2>5 DEF JobInv, JobTypes, JobOrder, Asked, Told, In, Sole
    <3>2. \A r \in Jobs : Working(r)' <=> Working(r)
      BY <2>1, SameWorking DEF InEngine, In
    <3>3. JobPlaces'
      BY <2>1, <2>5, <3>2, SamePlaces DEF JobInv, Asked, Told, In
    <3> QED BY <3>1, <3>3 DEF JobInv
  <2>6. CASE Respond(currFlushRequest) /\ currFlushRequest' = None
    <3> DEFINE e == currFlushRequest
    <3>1. e \in Request \cup {None} /\ (e # None => e.kind \notin {"launch", "copy"})
      BY <2>3, RequestKinds
    <3>2. toDriverSender' = Append(toDriverSender, e)
      BY <2>6 DEF Respond
    <3>3. currFlushRequest' \in {Flush(q) : q \in Queue} \cup {None}
      BY <2>6
    <3> HIDE DEF e
    <3> QED BY <2>1, <3>1, <3>2, <3>3, RespondAside
  <2> QED BY <2>2, <2>4, <2>5, <2>6
<1> QED BY <1>5, <1>6, <1>7, <1>8, <1>9, <1>10, <1>11, <1>12, <1>13, Zenon DEF DriverStep, AckStep

-----------------------------------------------------------------------------
(* The host buffer of the copy in process has what was read, and is blank  *)
(* before.                                                                 *)

Blank(q) == \A a \in Addr : DstBuffer[q][a] = None
Read(c, i, pending) == i < c.len /\ \A p \in pending : c.addr + i \notin Bytes(p)

BufferInv ==
  /\ DstBuffer = [q \in Queue |-> [a \in Addr |-> DstBuffer[q][a]]]
  /\ \A c \in Copies : Asked(CopyReq(c)) \/ In(c, dmaToCP) => Blank(c.queue)
  /\ processingReq # None /\ processingReq.dir = "D2H" =>
       \A i \in Addr : DstBuffer[processingReq.queue][i] =
         IF Read(processingReq, i, pendingReqs) THEN before[processingReq.addr + i] ELSE None

\* An answer with data is put at its place.
LEMMA DataIsRead ==
  ASSUME PieceInv, BufferInv, NEW r \in memRsps, ProcessDataReadyRsp(r)
  PROVE  /\ DstBuffer' = [q \in Queue |-> [a \in Addr |-> DstBuffer'[q][a]]]
         /\ \A q \in Queue : q # processingReq.queue => DstBuffer'[q] = DstBuffer[q]
         /\ \A i \in Addr : DstBuffer'[processingReq.queue][i] =
              IF Read(processingReq, i, pendingReqs') THEN before[processingReq.addr + i] ELSE None
<1> DEFINE c == processingReq
           p == r.piece
           offset == p.addr - c.addr
           old == DstBuffer[c.queue]
           new == [a \in Addr |-> IF a \in offset .. offset + p.len - 1 THEN r.data[a - offset] ELSE old[a]]
<1>0. AccessInv /\ MemoryInv
  BY DEF PieceInv
<1>1. /\ c.dir = "D2H" /\ pendingReqs' = pendingReqs \ {p}
      /\ DstBuffer' = [DstBuffer EXCEPT ![c.queue] = new]
  BY DEF ProcessDataReadyRsp
<1>2. p \in pendingReqs /\ p \in Chunk /\ c # None /\ Bytes(p) \subseteq RangeOf(c)
  <2>1. p \in Answered
    BY DEF Answered
  <2>2. p \in pendingReqs
    BY <1>0, <2>1 DEF AccessInv
  <2> HIDE DEF p
  <2> QED BY <1>0, <2>2 DEF AccessInv
<1>3. c \in Copies
  BY <1>2 DEF PieceInv
<1>4. c.queue \in Queue /\ c.addr \in Nat /\ c.len \in Nat
  BY <1>3, CopiesAssumption
<1>5. r.data = [i \in 0 .. p.len - 1 |-> before[p.addr + i]]
  BY <1>0, <1>1, <1>2 DEF MemoryInv
<1>6. DstBuffer = [q \in Queue |-> [a \in Addr |-> DstBuffer[q][a]]]
  BY DEF BufferInv
<1>7. \A i \in Addr : old[i] = IF Read(c, i, pendingReqs) THEN before[c.addr + i] ELSE None
  BY <1>1, <1>2 DEF BufferInv
<1>8. new = [a \in Addr |-> new[a]]
  OBVIOUS
<1>9. \A q \in Queue : DstBuffer'[q] = IF q = c.queue THEN new ELSE DstBuffer[q]
  <2> HIDE DEF new, c
  <2> QED BY <1>1, <1>6
<1>10. DstBuffer' = [q \in Queue |-> [a \in Addr |-> DstBuffer'[q][a]]]
  <2>1. DstBuffer' = [q \in Queue |-> DstBuffer'[q]]
    <3> HIDE DEF new, c
    <3> QED BY <1>1, <1>6
  <2>2. ASSUME NEW q \in Queue PROVE DstBuffer'[q] = [a \in Addr |-> DstBuffer'[q][a]]
    <3>1. DstBuffer[q] = [a \in Addr |-> DstBuffer[q][a]]
      BY <1>6
    <3> HIDE DEF new, c
    <3> QED BY <1>8, <1>9, <3>1
  <2> QED BY <2>1, <2>2
<1>11. p.addr \in Nat /\ p.len \in Nat \ {0} /\ c.addr <= p.addr /\ p.addr + p.len <= c.addr + c.len
  <2>1. p.addr \in Nat /\ p.len \in Nat \ {0}
    BY <1>2 DEF Chunk
  <2>2. p.addr \in p.addr .. p.addr + p.len - 1 /\ p.addr + p.len - 1 \in p.addr .. p.addr + p.len - 1
    BY <2>1
  <2>3. p.addr \in c.addr .. c.addr + c.len - 1 /\ p.addr + p.len - 1 \in c.addr .. c.addr + c.len - 1
    BY <1>2, <2>2 DEF Bytes, RangeOf
  <2> QED BY <1>4, <2>1, <2>3
<1>12. ASSUME NEW i \in Addr
       PROVE  new[i] = IF Read(c, i, pendingReqs') THEN before[c.addr + i] ELSE None
  <2>0. i \in Nat
    BY LineAssumption DEF Addr
  <2>1. new[i] = IF i \in offset .. offset + p.len - 1 THEN r.data[i - offset] ELSE old[i]
    OBVIOUS
  <2> HIDE DEF old, new, c
  <2>2. CASE c.addr + i \in Bytes(p)
    <3>1. /\ c.addr + i \in p.addr .. p.addr + p.len - 1
      BY <2>2 DEF Bytes
    <3>2. /\ i \in offset .. offset + p.len - 1 /\ i - offset \in 0 .. p.len - 1
          /\ p.addr + (i - offset) = c.addr + i /\ i < c.len
      BY <1>4, <1>11, <2>0, <3>1
    <3>3. r.data[i - offset] = before[p.addr + (i - offset)]
      BY <1>5, <3>2
    <3>4. \A o \in pendingReqs' : c.addr + i \notin Bytes(o)
      BY <1>0, <1>1, <1>2, <2>2 DEF AccessInv
    <3>5. Read(c, i, pendingReqs')
      BY <3>2, <3>4 DEF Read
    <3>6. new[i] = r.data[i - offset]
      BY <2>1, <3>2
    <3> QED BY <3>2, <3>3, <3>5, <3>6
  <2>3. CASE c.addr + i \notin Bytes(p)
    <3>1. i \notin offset .. offset + p.len - 1
      <4>1. ~ (c.addr + i \in p.addr .. p.addr + p.len - 1)
        BY <2>3 DEF Bytes
      <4> QED BY <1>4, <1>11, <2>0, <4>1
    <3>2. Read(c, i, pendingReqs') <=> Read(c, i, pendingReqs)
      BY <1>1, <2>3 DEF Read
    <3>3. new[i] = old[i]
      BY <2>1, <3>1
    <3> QED BY <1>7, <3>2, <3>3
  <2> QED BY <2>2, <2>3
<1> HIDE DEF new, c
<1>13. DstBuffer'[c.queue] = new
  BY <1>4, <1>9
<1> QED BY <1>9, <1>10, <1>12, <1>13 DEF c

\* Steps that leave the buffers, the copy in process and the copies before it.
LEMMA SameBuffer ==
  ASSUME BufferInv, UNCHANGED <<DstBuffer, processingReq, pendingReqs, before>>,
         \A c \in Copies : (Asked(CopyReq(c)) \/ In(c, dmaToCP))' => Asked(CopyReq(c)) \/ In(c, dmaToCP)
  PROVE  BufferInv'
<1>1. \A q : Blank(q)' <=> Blank(q)
  BY DEF Blank
<1> QED BY <1>1 DEF BufferInv

LEMMA ParseFromCPBuffer ==
  ASSUME JobInv, BufferInv, ParseFromCP, UNCHANGED <<driverVars, ToDMA>>
  PROVE  BufferInv'
<1> DEFINE h == Head(dmaToCP)
<1>1. /\ dmaToCP # <<>> /\ dmaToCP' = Tail(dmaToCP) /\ processingReq' = h
      /\ pendingReqs' = {Pieces(h)[i] : i \in DOMAIN Pieces(h)}
      /\ DstBuffer' = DstBuffer /\ ToDriver' = ToDriver
  BY DEF ParseFromCP, driverVars
<1>2. /\ h \in Copies /\ In(h, dmaToCP)
      /\ \A c : In(c, dmaToCP)' => In(c, dmaToCP)
  <2>1. /\ h \in Copies /\ In(h, dmaToCP)
        /\ \A c : In(c, dmaToCP) <=> c = h \/ In(c, Tail(dmaToCP))
    BY <1>1, TailSole DEF JobInv, JobTypes
  <2> HIDE DEF h
  <2> QED BY <1>1, <2>1
<1> HIDE DEF h
<1>3. Blank(h.queue)
  BY <1>2 DEF BufferInv
<1>4. \A q : Blank(q)' <=> Blank(q)
  BY <1>1 DEF Blank
<1>5. \A i \in Addr : ~ Read(h, i, pendingReqs')
  <2> SUFFICES ASSUME NEW i \in Addr, i < h.len PROVE \E p \in pendingReqs' : h.addr + i \in Bytes(p)
    BY DEF Read
  <2>1. i \in Nat /\ h.addr \in Nat /\ h.len \in Nat
    BY <1>2, CopiesAssumption, LineAssumption DEF Addr
  <2>2. h.addr + i \in Nat /\ h.addr + i \in RangeOf(h)
    BY <2>1 DEF RangeOf
  <2> DEFINE s == Pieces(h)
  <2>3. \E k \in DOMAIN s : h.addr + i \in Bytes(s[k])
    BY <1>2, <2>2, PiecesAre
  <2> HIDE DEF s
  <2>4. pendingReqs' = {s[k] : k \in DOMAIN s}
    BY <1>1 DEF s
  <2> QED BY <2>3, <2>4
<1>6. \A i \in Addr : DstBuffer'[h.queue][i] = None
  BY <1>1, <1>3 DEF Blank
<1>7. \A c \in Copies : (Asked(CopyReq(c)) \/ In(c, dmaToCP))' => Blank(c.queue)'
  BY <1>1, <1>2, <1>4 DEF BufferInv, Asked
<1>8. DstBuffer' = [q \in Queue |-> [a \in Addr |-> DstBuffer'[q][a]]]
  BY <1>1 DEF BufferInv
<1> QED BY <1>1, <1>5, <1>6, <1>7, <1>8 DEF BufferInv

LEMMA AnswerBuffer ==
  ASSUME JobInv, PieceInv, BufferInv, NEW r \in memRsps, ProcessDataReadyRsp(r) \/ ProcessDoneRsp(r),
         UNCHANGED <<driverVars, ToDMA>>
  PROVE  /\ BufferInv'
         /\ processingReq' = None => Arrived(processingReq, memory', DstBuffer')
<1> DEFINE c == processingReq
<1>0. /\ memRsps' = memRsps \ {r} /\ pendingReqs' = pendingReqs \ {r.piece} /\ Finish
      /\ UNCHANGED <<toSendToMem, memReqs, memory, before, dmaToCP, ToDriver>>
  BY DEF ProcessDataReadyRsp, ProcessDoneRsp, driverVars
<1>1. /\ PieceInv' /\ c \in Copies /\ r.piece \in pendingReqs
      /\ pendingReqs' = {} => Unsent \cup memReqs = {}
  BY <1>0, AnswerPieces
<1>2. c # None /\ c.queue \in Queue /\ CopyReq(c) \in Jobs /\ Working(CopyReq(c)) /\ CopyReq(c).queue = c.queue
  BY <1>1, JobKinds, WorkingIs DEF InEngine
<1>3. \A d \in Copies : (Asked(CopyReq(d)) \/ In(d, dmaToCP))' <=> Asked(CopyReq(d)) \/ In(d, dmaToCP)
  BY <1>0 DEF Asked
<1>4. ASSUME NEW d \in Copies, Asked(CopyReq(d)) \/ In(d, dmaToCP) PROVE d.queue # c.queue
  <2> SUFFICES ASSUME d.queue = c.queue PROVE FALSE
    OBVIOUS
  <2>1. CopyReq(d) \in Jobs /\ CopyReq(d).queue = CopyReq(c).queue /\ CopyReq(d).copy = d /\ CopyReq(c).copy = c
    BY <1>1, JobKinds
  <2>2. Asked(CopyReq(d)) \/ Working(CopyReq(d))
    BY <1>4, WorkingIs DEF InEngine
  <2>3. CopyReq(d) = CopyReq(c)
    BY <1>2, <2>1, <2>2, OneJob
  <2>4. d = c
    BY <2>1, <2>3
  <2>5. ~ Asked(CopyReq(c)) /\ ~ In(c, dmaToCP)
    BY <1>1, <1>2 DEF JobInv, JobPlaces, JobOrder
  <2> QED BY <1>4, <2>4, <2>5
<1>5. processingReq' = (IF pendingReqs' = {} THEN None ELSE c)
  BY <1>0 DEF Finish
<1>6. (pendingReqs' = {} /\ c.dir = "H2D") => memory = [a \in Addr |-> IF a \in RangeOf(c)
                  THEN [queue |-> c.queue, at |-> a - c.addr] ELSE before[a]]
  BY <1>1, <1>2 DEF PieceInv, MemoryInv
<1>7. c.dir \in {"H2D", "D2H"}
  BY <1>1, CopiesAssumption
<1>8. CASE c.dir = "H2D"
  <2>1. ProcessDoneRsp(r) /\ DstBuffer' = DstBuffer
    BY <1>8 DEF ProcessDataReadyRsp, ProcessDoneRsp
  <2>2. BufferInv'
    <3>1. \A q : Blank(q)' <=> Blank(q)
      BY <2>1 DEF Blank
    <3> QED BY <1>3, <1>5, <1>8, <2>1, <3>1 DEF BufferInv
  <2>3. processingReq' = None => Arrived(c, memory', DstBuffer')
    BY <1>0, <1>2, <1>5, <1>6, <1>8 DEF Arrived, RangeOf
  <2> QED BY <2>2, <2>3
<1>9. CASE c.dir = "D2H"
  <2>1. ProcessDataReadyRsp(r)
    BY <1>9 DEF ProcessDataReadyRsp, ProcessDoneRsp
  <2>2. /\ DstBuffer' = [q \in Queue |-> [a \in Addr |-> DstBuffer'[q][a]]]
        /\ \A q \in Queue : q # c.queue => DstBuffer'[q] = DstBuffer[q]
        /\ \A i \in Addr : DstBuffer'[c.queue][i] =
             IF Read(c, i, pendingReqs') THEN before[c.addr + i] ELSE None
    BY <2>1, DataIsRead
  <2>3. \A d \in Copies : (Asked(CopyReq(d)) \/ In(d, dmaToCP))' => Blank(d.queue)'
    <3> SUFFICES ASSUME NEW d \in Copies, Asked(CopyReq(d)) \/ In(d, dmaToCP) PROVE Blank(d.queue)'
      BY <1>3
    <3>1. d.queue # c.queue /\ d.queue \in Queue
      BY <1>4, JobKinds
    <3>2. Blank(d.queue)
      BY DEF BufferInv
    <3> QED BY <2>2, <3>1, <3>2 DEF Blank
  <2>4. BufferInv'
    BY <1>0, <1>5, <2>2, <2>3 DEF BufferInv
  <2>5. ASSUME processingReq' = None PROVE Arrived(c, memory', DstBuffer')
    <3>1. pendingReqs' = {}
      BY <1>2, <1>5, <2>5
    <3>2. memory' = before
      BY <1>0, <1>2, <1>9 DEF PieceInv, MemoryInv
    <3>3. \A i \in Addr : DstBuffer'[c.queue][i] = IF i < c.len THEN before[c.addr + i] ELSE None
      BY <2>2, <3>1 DEF Read
    <3> QED BY <1>9, <3>2, <3>3 DEF Arrived
  <2> QED BY <2>4, <2>5
<1> QED BY <1>7, <1>8, <1>9

LEMMA DMAStepBuffer ==
  ASSUME JobInv, PieceInv, BufferInv, DMAStep, UNCHANGED <<driverVars, ToDMA>>
  PROVE  /\ BufferInv'
         /\ processingReq # None /\ processingReq' = None => Arrived(processingReq, memory', DstBuffer')
<1>1. CASE ParseFromCP
  <2>1. processingReq = None
    BY <1>1 DEF ParseFromCP
  <2> QED BY <1>1, <2>1, ParseFromCPBuffer
<1>2. ASSUME SendToMem \/ \E p \in memReqs : MemoryServes(p)
      PROVE  BufferInv' /\ processingReq' = processingReq
  <2>1. UNCHANGED <<DstBuffer, processingReq, pendingReqs, before, dmaToCP, ToDriver>>
    BY <1>2 DEF SendToMem, MemoryServes, driverVars
  <2>2. \A c \in Copies : (Asked(CopyReq(c)) \/ In(c, dmaToCP))' => Asked(CopyReq(c)) \/ In(c, dmaToCP)
    BY <2>1 DEF Asked, In
  <2> QED BY <2>1, <2>2, SameBuffer
<1>3. ASSUME NEW r \in memRsps, ProcessDataReadyRsp(r) \/ ProcessDoneRsp(r)
      PROVE  BufferInv' /\ (processingReq' = None => Arrived(processingReq, memory', DstBuffer'))
  BY <1>3, AnswerBuffer
<1> QED BY <1>1, <1>2, <1>3 DEF DMAStep

LEMMA ProcessMemCopyCommandBuffer ==
  ASSUME JobInv, BufferInv, NEW q \in Queue, ProcessMemCopyCommand(q)
  PROVE  BufferInv'
<1>1. /\ DstBuffer' = [DstBuffer EXCEPT ![q] = [a \in Addr |-> None]]
      /\ UNCHANGED <<dmaToCP, processingReq, pendingReqs, before>>
  BY DEF ProcessMemCopyCommand, copyVars
<1>2. waitsFor[q] = {}
  BY ProcessMemCopyCommandJobs
<1>3. PICK c \in Copies :
        /\ c.queue = q
        /\ \A x : Asked(x)' <=> Asked(x) \/ x = CopyReq(c) \/ (x = Flush(q) /\ q \in l2Dirty)
  BY ProcessMemCopyCommandJobs
<1>4. DstBuffer = [p \in Queue |-> [a \in Addr |-> DstBuffer[p][a]]]
  BY DEF BufferInv
<1> DEFINE new == [a \in Addr |-> None]
<1>5. /\ DstBuffer' = [p \in Queue |-> DstBuffer'[p]] /\ DstBuffer'[q] = new
      /\ \A p \in Queue : p # q => DstBuffer'[p] = DstBuffer[p]
  <2>1. DstBuffer' = [DstBuffer EXCEPT ![q] = new]
    BY <1>1
  <2> HIDE DEF new
  <2> QED BY <1>4, <2>1
<1>6. Blank(q)' /\ \A p \in Queue : p # q => (Blank(p)' <=> Blank(p))
  BY <1>5 DEF Blank
<1>7. ASSUME NEW p \in Queue PROVE DstBuffer'[p] = [a \in Addr |-> DstBuffer'[p][a]]
  <2>1. DstBuffer[p] = [a \in Addr |-> DstBuffer[p][a]]
    BY <1>4
  <2>2. CASE p = q
    BY <1>5, <2>2
  <2>3. CASE p # q
    BY <1>5, <2>1, <2>3
  <2> QED BY <2>2, <2>3
<1>8. \A d \in Copies : (Asked(CopyReq(d)) \/ In(d, dmaToCP))' => Blank(d.queue)'
  <2> SUFFICES ASSUME NEW d \in Copies, (Asked(CopyReq(d)) \/ In(d, dmaToCP))', d.queue # q PROVE Blank(d.queue)'
    BY <1>6
  <2>1. d.queue \in Queue /\ CopyReq(d).queue = d.queue /\ CopyReq(d).kind = "copy" /\ CopyReq(c).queue = q
    BY <1>3, JobKinds
  <2>2. Flush(q).kind = "flush"
    BY RequestKinds
  <2>3. Asked(CopyReq(d)) \/ In(d, dmaToCP)
    BY <1>1, <1>3, <2>1, <2>2 DEF In
  <2> QED BY <1>6, <2>1, <2>3 DEF BufferInv
<1>9. processingReq # None => processingReq.queue \in Queue /\ processingReq.queue # q
  <2> SUFFICES ASSUME processingReq \in Copies PROVE processingReq.queue \in Queue /\ processingReq.queue # q
    BY DEF JobInv, JobTypes
  <2>1. /\ CopyReq(processingReq) \in Jobs /\ CopyReq(processingReq).queue = processingReq.queue
        /\ processingReq.queue \in Queue
    BY JobKinds
  <2>2. Working(CopyReq(processingReq))
    BY WorkingIs DEF InEngine
  <2> QED BY <1>2, <2>1, <2>2 DEF JobInv, JobPlaces
<1>10. DstBuffer' = [p \in Queue |-> [a \in Addr |-> DstBuffer'[p][a]]]
  BY <1>5, <1>7
<1> QED BY <1>1, <1>5, <1>8, <1>9, <1>10 DEF BufferInv

LEMMA ProcessMemCopyReqBuffer ==
  ASSUME JobInv, BufferInv, ProcessMemCopyReq
  PROVE  BufferInv'
<1>1. UNCHANGED <<DstBuffer, processingReq, pendingReqs, before>>
  BY DEF ProcessMemCopyReq, copyVars
<1>2. PICK c \in Copies : /\ Asked(CopyReq(c)) /\ ToDriver' = Tail(ToDriver)
                          /\ \A d : In(d, dmaToCP)' <=> In(d, dmaToCP) \/ d = c
  BY ProcessMemCopyReqJobs
<1>3. ToDriver # <<>>
  BY DEF ProcessMemCopyReq, Takes
<1>4. \A r : Asked(r)' => Asked(r)
  BY <1>2, <1>3, JobTaken
<1> QED BY <1>1, <1>2, <1>4, SameBuffer

\* The steps that are none of a copy ask for none.
LEMMA AsideAsks ==
  ASSUME JobInv,
         \/ InitiateRDMADrain \/ DriverStep \/ ProcessFlushReq \/ ProcessShootdownCommand \/ ProcessGPURestartReq
         \/ ProcessLaunchKernelReq
         \/ \E kind \in Relayed : RelayDown(kind) \/ RelayUp(kind) \/ ServeRelayed(kind)
         \/ AckStep \/ DMASendToCP
         \/ \E u \in Unit, order \in {"stop", "flush", "restart"} : Obey(u, order)
         \/ \E q \in Queue : KernelEnds(q) \/ \E c \in Cache : KernelWrites(q, c)
         \/ UNCHANGED vars
  PROVE  /\ UNCHANGED <<dmaToCP, DstBuffer, copyVars>>
         /\ \A c \in Copies : Asked(CopyReq(c))' => Asked(CopyReq(c))
<1> USE DEF dmaVars, drvVars, cpVars, cntVars, unitVars, gpuVars, migVars, copyVars
<1> DEFINE P == UNCHANGED <<dmaToCP, DstBuffer, copyVars>>
           Q == \/ UNCHANGED ToDriver
                \/ ToDriver # <<>> /\ ToDriver' = Tail(ToDriver)
                \/ \E k \in MigKind : ToDriver' = Append(ToDriver, Alone(k))
<1>1. ASSUME InitiateRDMADrain \/ SendShootDownReqs \/ SendMigrationReqToCP
             \/ PrepareGPURestartReqs \/ PrepareRDMARestartReqs
      PROVE  P /\ Q
  BY <1>1 DEF InitiateRDMADrain, SendShootDownReqs, SendMigrationReqToCP, PrepareGPURestartReqs,
              PrepareRDMARestartReqs, DriverUnchanged, Ask, Others, MigKind
<1>2. ASSUME ProcessFlushReq \/ ProcessShootdownCommand \/ ProcessGPURestartReq \/ ProcessLaunchKernelReq
             \/ \E kind \in Relayed : RelayDown(kind)
      PROVE  P /\ Q
  BY <1>2 DEF ProcessFlushReq, ProcessShootdownCommand, ProcessGPURestartReq, ProcessLaunchKernelReq, RelayDown, Takes
<1>3. ASSUME ProcessReturnReq \/ ProcessMemCopyRsp \/ DMASendToCP \/ UNCHANGED vars
             \/ (\E kind \in Relayed : RelayUp(kind) \/ ServeRelayed(kind))
             \/ (\E u \in Unit, order \in {"stop", "flush", "restart"} : Obey(u, order))
             \/ (\E q \in Queue : KernelEnds(q) \/ \E c \in Cache : KernelWrites(q, c))
      PROVE  P /\ Q
  BY <1>3 DEF ProcessReturnReq, ProcessMemCopyRsp, DMASendToCP, RelayUp, ServeRelayed, Obey, KernelEnds,
              KernelWrites, vars
<1>4. ASSUME \/ ProcessCUPipelineFlushRsp \/ ProcessAddressTranslatorFlushRsp
             \/ ProcessCacheFlushRsp \/ ProcessTLBFlushRsp
             \/ ProcessCacheRestartRsp \/ ProcessTLBRestartRsp
             \/ ProcessAddressTranslatorRestartRsp \/ ProcessCUPipelineRestartRsp
      PROVE  P /\ Q
  BY <1>4 DEF ProcessCUPipelineFlushRsp, ProcessAddressTranslatorFlushRsp, ProcessCacheFlushRsp,
              ProcessTLBFlushRsp, ProcessCacheRestartRsp, ProcessTLBRestartRsp,
              ProcessAddressTranslatorRestartRsp, ProcessCUPipelineRestartRsp, AckUnchanged
<1> HIDE DEF P, Q
<1>5. P /\ Q
  BY <1>1, <1>2, <1>3, <1>4, Zenon DEF DriverStep, AckStep
<1>6. ASSUME NEW c \in Copies, Asked(CopyReq(c))' PROVE Asked(CopyReq(c))
  <2>1. CASE UNCHANGED ToDriver
    BY <1>6, <2>1 DEF Asked, In
  <2>2. CASE ToDriver # <<>> /\ ToDriver' = Tail(ToDriver)
    BY <1>6, <2>2, JobTaken
  <2>3. ASSUME NEW k \in MigKind, ToDriver' = Append(ToDriver, Alone(k)) PROVE Asked(CopyReq(c))
    <3> DEFINE e == Alone(k)
    <3>1. e \in Request /\ e \notin Jobs /\ CopyReq(c) \in Jobs
      BY JobKinds
    <3>2. ToDriver \in Seq(Request) /\ ToDriver' = Append(ToDriver, e)
      BY <2>3 DEF JobInv, JobTypes
    <3> HIDE DEF e
    <3>3. \A r : In(r, Append(ToDriver, e)) <=> In(r, ToDriver) \/ r = e
      BY <3>1, <3>2, AppendSole
    <3> QED BY <1>6, <3>1, <3>2, <3>3 DEF Asked
  <2> QED BY <1>5, <2>1, <2>2, <2>3 DEF Q
<1> QED BY <1>5, <1>6 DEF P

CopyInv == JobInv /\ PieceInv /\ BufferInv

LEMMA InitCopyInv == Init => CopyInv
<1> SUFFICES ASSUME Init PROVE CopyInv
  OBVIOUS
<1> USE DEF Init, DMAInit
<1>1. /\ \A r : ~ Asked(r) /\ ~ Told(r) /\ ~ In(r, dmaToCP) /\ ~ In(r, toSendToCP)
      /\ \A K : Sole(ToDriver, K) /\ Sole(toDriverSender, K) /\ Sole(dmaToCP, K) /\ Sole(toSendToCP, K)
  BY NoneIn DEF Asked, Told
<1>2. \A c \in Copies : ~ InEngine(c)
  BY <1>1, JobKinds DEF InEngine
<1>3. JobTypes
  <2>1. \A S : <<>> \in Seq(S)
    BY EmptySeq
  <2> QED BY <2>1 DEF JobTypes
<1>4. JobOrder
  <2>1. \A c \in Copies : ToDMA # c /\ processingReq # c
    BY JobKinds
  <2> QED BY <1>1, <2>1 DEF JobOrder
<1>5. JobPlaces
  <2>1. \A r \in Jobs : ~ Asked(r) /\ ~ Told(r) /\ ~ Working(r)
    BY <1>1, <1>2, WorkingIs DEF Jobs
  <2>2. \A q \in Queue : waitsFor[q] = {}
    OBVIOUS
  <2> QED BY <2>1, <2>2 DEF JobPlaces
<1>6. PieceInv
  <2>1. Unsent = {} /\ Answered = {}
    BY DEF Unsent, Answered
  <2>2. toSendToMem \in Seq(Chunk) /\ DOMAIN toSendToMem = {}
    OBVIOUS
  <2>3. AccessInv
    BY <2>1, <2>2 DEF AccessInv
  <2>4. MemoryInv
    <3>1. memory = [a \in Addr |-> [queue |-> None, at |-> a]]
      OBVIOUS
    <3>2. memory = [a \in Addr |-> memory[a]]
      BY <3>1
    <3> QED BY <3>2 DEF MemoryInv
  <2> QED BY <2>3, <2>4 DEF PieceInv
<1>7. BufferInv
  <2>1. DstBuffer = [q \in Queue |-> [a \in Addr |-> None]]
    OBVIOUS
  <2>2. DstBuffer = [q \in Queue |-> [a \in Addr |-> DstBuffer[q][a]]]
    <3>1. \A q \in Queue : DstBuffer[q] = [a \in Addr |-> DstBuffer[q][a]]
      BY <2>1
    <3>2. DstBuffer = [q \in Queue |-> DstBuffer[q]]
      BY <2>1
    <3> QED BY <3>1, <3>2
  <2> QED BY <1>1, <2>2 DEF BufferInv
<1> QED BY <1>3, <1>4, <1>5, <1>6, <1>7 DEF CopyInv, JobInv

\* Every step keeps the account of the copies, and ends one only when all of
\* it has arrived.
CopyEnds == processingReq # None /\ processingReq' = None => Arrived(processingReq, memory', DstBuffer')

LEMMA NextCopyInv == CopyInv /\ [Next]_vars => CopyInv' /\ CopyEnds
<1> SUFFICES ASSUME CopyInv, [Next]_vars PROVE CopyInv' /\ CopyEnds
  OBVIOUS
<1>0. JobInv /\ PieceInv /\ BufferInv
  BY DEF CopyInv
<1> DEFINE Quiet == UNCHANGED <<processingReq, toSendToMem, pendingReqs, memReqs, memRsps, memory, before>>
<1>1. ASSUME Quiet PROVE PieceInv' /\ CopyEnds
  <2>1. UNCHANGED <<processingReq, toSendToMem, pendingReqs, memReqs, memRsps, memory, before>>
    BY <1>1
  <2>2. AccessInv' /\ MemoryInv'
    <3>1. Unsent' = Unsent /\ Answered' = Answered
      BY <2>1 DEF Unsent, Answered
    <3>2. AccessInv'
      BY <1>0, <2>1, <3>1 DEF PieceInv, AccessInv
    <3>3. MemoryInv'
      BY <1>0, <2>1, <3>1 DEF PieceInv, MemoryInv
    <3> QED BY <3>2, <3>3
  <2> QED BY <1>0, <2>1, <2>2 DEF PieceInv, CopyEnds
<1>2. ASSUME Quiet, UNCHANGED <<dmaToCP, DstBuffer>>, \A c \in Copies : Asked(CopyReq(c))' => Asked(CopyReq(c))
      PROVE  BufferInv'
  <2>1. UNCHANGED <<DstBuffer, processingReq, pendingReqs, before>>
    BY <1>2
  <2>2. \A c \in Copies : (Asked(CopyReq(c)) \/ In(c, dmaToCP))' => Asked(CopyReq(c)) \/ In(c, dmaToCP)
    BY <1>2 DEF In
  <2> QED BY <1>0, <2>1, <2>2, SameBuffer
<1>3. ASSUME NEW q \in Queue, ProcessLaunchKernelCommand(q) PROVE CopyInv' /\ CopyEnds
  <2>1. JobInv' /\ \A x : Asked(x)' <=> Asked(x) \/ x = Launch(q)
    BY <1>0, <1>3, ProcessLaunchKernelCommandJobs
  <2>2. \A c \in Copies : Asked(CopyReq(c))' => Asked(CopyReq(c))
    BY <2>1, JobKinds
  <2>3. Quiet /\ UNCHANGED <<dmaToCP, DstBuffer>>
    BY <1>3 DEF ProcessLaunchKernelCommand, dmaVars
  <2> QED BY <1>1, <1>2, <2>1, <2>2, <2>3 DEF CopyInv
<1>4. ASSUME NEW q \in Queue, ProcessMemCopyCommand(q) PROVE CopyInv' /\ CopyEnds
  <2>1. JobInv' /\ BufferInv'
    BY <1>0, <1>4, ProcessMemCopyCommandJobs, ProcessMemCopyCommandBuffer
  <2>2. Quiet
    BY <1>4 DEF ProcessMemCopyCommand, copyVars
  <2> QED BY <1>1, <2>1, <2>2 DEF CopyInv
<1>5. ASSUME ProcessMemCopyReq PROVE CopyInv' /\ CopyEnds
  <2>1. JobInv' /\ BufferInv'
    BY <1>0, <1>5, ProcessMemCopyReqJobs, ProcessMemCopyReqBuffer
  <2>2. Quiet
    BY <1>5 DEF ProcessMemCopyReq, copyVars
  <2> QED BY <1>1, <2>1, <2>2 DEF CopyInv
<1>6. ASSUME DMAStep, UNCHANGED <<drvVars, ToDriver, toDriverSender, cpVars, ToDMA, unitVars>> PROVE CopyInv' /\ CopyEnds
  <2>1. UNCHANGED <<driverVars, ToDMA>>
    BY <1>6 DEF driverVars, drvVars, cpVars, unitVars, gpuVars
  <2>2. JobInv' /\ BufferInv' /\ CopyEnds
    BY <1>0, <1>6, <2>1, DMAStepJobs, DMAStepBuffer DEF CopyEnds
  <2>3. PieceInv'
    BY <1>0, <1>6, DMAStepPieces DEF JobInv, JobTypes
  <2> QED BY <2>2, <2>3 DEF CopyInv
<1>7. ASSUME \/ InitiateRDMADrain \/ DriverStep \/ ProcessFlushReq \/ ProcessShootdownCommand \/ ProcessGPURestartReq
             \/ ProcessLaunchKernelReq
             \/ \E kind \in Relayed : RelayDown(kind) \/ RelayUp(kind) \/ ServeRelayed(kind)
             \/ AckStep \/ DMASendToCP
             \/ \E u \in Unit, order \in {"stop", "flush", "restart"} : Obey(u, order)
             \/ \E q \in Queue : KernelEnds(q) \/ \E c \in Cache : KernelWrites(q, c)
             \/ UNCHANGED vars
      PROVE  CopyInv' /\ CopyEnds
  <2>1. /\ UNCHANGED <<dmaToCP, DstBuffer, copyVars>>
        /\ \A c \in Copies : Asked(CopyReq(c))' => Asked(CopyReq(c))
    BY <1>0, <1>7, AsideAsks
  <2>2. Quiet /\ UNCHANGED <<dmaToCP, DstBuffer>>
    BY <2>1 DEF copyVars
  <2>3. JobInv'
    BY <1>0, <1>7, AsideJobs, ProcessReturnReqJobs, ProcessLaunchKernelReqJobs, ProcessMemCopyRspJobs,
       DMASendToCPJobs, KernelEndsJobs
  <2> QED BY <1>1, <1>2, <2>1, <2>2, <2>3 DEF CopyInv
<1> HIDE DEF Quiet
<1> QED BY <1>3, <1>4, <1>5, <1>6, <1>7 DEF Next, CPStep, RequestStep, CopyStep, UnitStep

\* A copy ends when all its bytes, and no others, have arrived: each of them
\* was in one piece, each piece was in one place until it was answered, and
\* the memory and the buffer of the queue were touched by no other copy
\* (timing/cp/dma.go:96-98, 186-205).
THEOREM CopiesArrive == Spec => CopyIsExact
<1>1. CopyInv /\ [Next]_vars => CopyInv' /\ [CopyEnds]_vars
  BY NextCopyInv
<1> QED BY <1>1, InitCopyInv, PTL DEF Spec, CopyIsExact, CopyEnds

-----------------------------------------------------------------------------
(* A copy comes after the flush of its queue, and the flush after the      *)
(* kernels.                                                                *)

Before(s, x, y) == \A i, j \in DOMAIN s : s[i] = x /\ s[j] = y => i < j

LEMMA ConcatBefore ==
  ASSUME NEW S, NEW s \in Seq(S), NEW t \in Seq(S), NEW x, NEW y,
         Before(s, x, y), Before(t, x, y), ~ (In(y, s) /\ In(x, t))
  PROVE  Before(s \o t, x, y)
<1> DEFINE u == s \o t
           m == Len(s)
           n == Len(t)
<1>1. /\ m \in Nat /\ n \in Nat /\ u \in Seq(S) /\ Len(u) = m + n
      /\ \A i \in 1 .. m + n : u[i] = IF i <= m THEN s[i] ELSE t[i - m]
      /\ DOMAIN s = 1 .. m /\ DOMAIN t = 1 .. n
  BY ConcatProperties, LenProperties
<1>2. DOMAIN u = 1 .. m + n
  BY <1>1, LenProperties
<1> HIDE DEF u, m, n
<1>3. \A i \in DOMAIN u : \/ i \in DOMAIN s /\ i <= m /\ u[i] = s[i]
                          \/ ~ (i <= m) /\ i - m \in DOMAIN t /\ u[i] = t[i - m]
  BY <1>1, <1>2
<1> SUFFICES ASSUME NEW i \in DOMAIN u, NEW j \in DOMAIN u, u[i] = x, u[j] = y PROVE i < j
  BY DEF Before, u
<1>4. i \in Nat /\ j \in Nat
  BY <1>1, <1>2
<1>5. CASE i <= m /\ j <= m
  BY <1>3, <1>5 DEF Before
<1>6. CASE i <= m /\ ~ (j <= m)
  BY <1>1, <1>4, <1>6
<1>7. CASE ~ (i <= m) /\ j <= m
  BY <1>3, <1>7 DEF In
<1>8. CASE ~ (i <= m) /\ ~ (j <= m)
  <2>1. i - m < j - m
    BY <1>3, <1>8 DEF Before
  <2> QED BY <1>1, <1>4, <2>1
<1> QED BY <1>5, <1>6, <1>7, <1>8

LEMMA FewBefore ==
  ASSUME NEW e, NEW x, NEW y, x # y
  PROVE  Before(<<e>>, x, y) /\ Before(<<>>, x, y)
<1>1. DOMAIN <<e>> = {1} /\ DOMAIN <<>> = {}
  OBVIOUS
<1> QED BY <1>1 DEF Before

LEMMA AppendBefore ==
  ASSUME NEW S, NEW s \in Seq(S), NEW e \in S, NEW x, NEW y, x # y, e # x, Before(s, x, y)
  PROVE  Before(Append(s, e), x, y)
<1> DEFINE t == <<e>>
<1>1. t \in Seq(S) /\ (\A r : In(r, t) <=> r = e)
  BY SingleSole
<1>2. Before(t, x, y)
  BY FewBefore
<1>3. Append(s, e) = s \o t
  BY AppendIsConcat
<1> HIDE DEF t
<1>4. Before(s \o t, x, y)
  BY <1>1, <1>2, ConcatBefore
<1> QED BY <1>3, <1>4

LEMMA TailBefore ==
  ASSUME NEW S, NEW s \in Seq(S), s # <<>>, NEW x, NEW y, Before(s, x, y)
  PROVE  Before(Tail(s), x, y) /\ (Head(s) = y => ~ In(x, s))
<1> DEFINE t == Tail(s)
<1>1. t \in Seq(S) /\ Len(t) = Len(s) - 1 /\ \A i \in 1 .. Len(t) : t[i] = s[i + 1]
  BY HeadTailProperties
<1>2. Len(s) \in Nat /\ DOMAIN s = 1 .. Len(s) /\ DOMAIN t = 1 .. Len(t)
  BY <1>1, LenProperties
<1>3. 1 \in DOMAIN s /\ Head(s) = s[1]
  BY HeadCons
<1> HIDE DEF t
<1>4. \A i \in DOMAIN t : i \in Nat /\ i + 1 \in DOMAIN s /\ t[i] = s[i + 1]
  BY <1>1, <1>2
<1>5. Before(t, x, y)
  <2> SUFFICES ASSUME NEW i \in DOMAIN t, NEW j \in DOMAIN t, t[i] = x, t[j] = y PROVE i < j
    BY DEF Before
  <2>1. i + 1 < j + 1
    BY <1>4 DEF Before
  <2> QED BY <1>4, <2>1
<1>6. ASSUME Head(s) = y, NEW i \in DOMAIN s, s[i] = x PROVE FALSE
  <2>1. i < 1
    BY <1>3, <1>6 DEF Before
  <2>2. i \in Nat \ {0}
    BY <1>2
  <2> QED BY <2>1, <2>2
<1> QED BY <1>5, <1>6 DEF t, In

\* The caches have nothing of a queue, or are asked for it.
Clean(q) == \A k \in Cache : <<q, k>> \notin dirty
Cleaning(q) == \A k \in Cache : <<q, k>> \in dirty => <<k, "flush">> \in sent

\* A copy was taken, and not answered.
Begun(c) == CopyReq(c) \in waitsFor[c.queue] /\ ~ Asked(CopyReq(c))

FreshInv ==
  /\ dirty \subseteq l2Dirty \X Cache /\ running \subseteq l2Dirty
  /\ \A q \in Queue : Asked(Launch(q)) => q \in l2Dirty
  /\ \A c \in Copies :
       /\ Asked(CopyReq(c)) => Asked(Flush(c.queue)) \/ Cleaning(c.queue)
       /\ Before(ToDriver, Flush(c.queue), CopyReq(c))
       /\ Begun(c) => Clean(c.queue)

\* With no acknowledgement missing no cache has a flush to do.
LEMMA NothingToFlush ==
  ASSUME IInv, numCacheACK = 0, NEW k
  PROVE  <<k, "flush">> \notin sent
<1> SUFFICES ASSUME <<k, "flush">> \in sent PROVE FALSE
  OBVIOUS
<1>1. <<k, "flush">> \in Pending
  BY DEF Pending
<1>2. k \in Cache /\ (Resting("run") \/ Resting("stopped"))
  BY <1>1, StageOf
<1>3. Round(Cache, "flush", numCacheACK)
  BY <1>2 DEF Resting
<1>4. Pending = {}
  BY <1>3, Units, RoundOver
<1> QED BY <1>1, <1>4

LEMMA FlushIsNoJob ==
  \A q \in Queue, c \in Copies :
    Flush(q) # CopyReq(c) /\ Flush(q) # Launch(q) /\ CopyReq(c) # Launch(q)
BY JobKinds

\* Steps that make nothing dirty, ask for nothing and begin no copy.
LEMMA SameFresh ==
  ASSUME FreshInv, dirty' \subseteq dirty, l2Dirty' = l2Dirty, running' \subseteq running,
         \A q \in Queue : Asked(Launch(q))' => Asked(Launch(q)),
         \A c \in Copies :
           /\ Asked(CopyReq(c))' => Asked(CopyReq(c))
           /\ Asked(Flush(c.queue)) => Asked(Flush(c.queue))'
           /\ Cleaning(c.queue) => Cleaning(c.queue)'
           /\ Before(ToDriver, Flush(c.queue), CopyReq(c))'
           /\ Begun(c)' => Begun(c)
  PROVE  FreshInv'
<1>1. \A q : Clean(q) => Clean(q)'
  BY DEF Clean
<1> QED BY <1>1 DEF FreshInv

\* Such steps, told by what they do to the requests.
LEMMA StillFresh ==
  ASSUME JobInv, FreshInv, dirty' = dirty, l2Dirty' = l2Dirty, sent \subseteq sent', running' \subseteq running,
         \A q \in Queue : waitsFor'[q] \subseteq waitsFor[q],
         \/ ToDriver' = ToDriver
         \/ \E k \in MigKind : ToDriver' = Append(ToDriver, Alone(k))
         \/ ToDriver # <<>> /\ ToDriver' = Tail(ToDriver) /\ Head(ToDriver).kind \in MigKind
  PROVE  FreshInv'
<1>1. /\ \A q \in Queue : Asked(Launch(q))' <=> Asked(Launch(q))
      /\ \A c \in Copies : /\ Asked(CopyReq(c))' <=> Asked(CopyReq(c))
                           /\ Asked(Flush(c.queue))' <=> Asked(Flush(c.queue))
                           /\ Before(ToDriver, Flush(c.queue), CopyReq(c))'
  <2>0. /\ \A c \in Copies : Before(ToDriver, Flush(c.queue), CopyReq(c))
        /\ \A c \in Copies : c.queue \in Queue /\ Flush(c.queue) # CopyReq(c)
        /\ ToDriver \in Seq(Request)
    BY JobKinds, FlushIsNoJob DEF FreshInv, JobInv, JobTypes
  <2>1. CASE ToDriver' = ToDriver
    BY <2>0, <2>1 DEF Asked, In, Before
  <2>2. ASSUME NEW k \in MigKind, ToDriver' = Append(ToDriver, Alone(k))
        PROVE  /\ \A q \in Queue : Asked(Launch(q))' <=> Asked(Launch(q))
               /\ \A c \in Copies : /\ Asked(CopyReq(c))' <=> Asked(CopyReq(c))
                                    /\ Asked(Flush(c.queue))' <=> Asked(Flush(c.queue))
                                    /\ Before(ToDriver, Flush(c.queue), CopyReq(c))'
    <3> DEFINE e == Alone(k)
    <3>1. /\ e \in Request /\ \A q \in Queue : e # Launch(q) /\ e # Flush(q)
          /\ \A c \in Copies : e # CopyReq(c)
      BY JobKinds, RequestKinds
    <3>2. ToDriver' = Append(ToDriver, e)
      BY <2>2
    <3> HIDE DEF e
    <3>3. \A r : In(r, Append(ToDriver, e)) <=> In(r, ToDriver) \/ r = e
      BY <2>0, <3>1, AppendSole
    <3>4. \A r : Asked(r)' <=> Asked(r) \/ r = e
      BY <3>2, <3>3 DEF Asked
    <3>5. ASSUME NEW c \in Copies PROVE Before(ToDriver, Flush(c.queue), CopyReq(c))'
      <4>1. Before(Append(ToDriver, e), Flush(c.queue), CopyReq(c))
        BY <2>0, <3>1, AppendBefore
      <4> QED BY <3>2, <4>1
    <3> QED BY <2>0, <3>1, <3>4, <3>5
  <2>3. CASE ToDriver # <<>> /\ ToDriver' = Tail(ToDriver) /\ Head(ToDriver).kind \in MigKind
    <3>1. \A r : Asked(r) <=> r = Head(ToDriver) \/ Asked(r)'
      BY <2>3, JobTaken
    <3>2. /\ \A q \in Queue : Head(ToDriver) # Launch(q) /\ Head(ToDriver) # Flush(q)
          /\ \A c \in Copies : Head(ToDriver) # CopyReq(c)
      BY <2>3, JobKinds, RequestKinds DEF MigKind
    <3>3. ASSUME NEW c \in Copies PROVE Before(ToDriver, Flush(c.queue), CopyReq(c))'
      <4>1. Before(Tail(ToDriver), Flush(c.queue), CopyReq(c))
        BY <2>0, <2>3, TailBefore
      <4> QED BY <2>3, <4>1
    <3> QED BY <2>0, <3>1, <3>2, <3>3
  <2> QED BY <2>1, <2>2, <2>3
<1>2. \A c \in Copies : (Cleaning(c.queue) => Cleaning(c.queue)') /\ (Begun(c)' => Begun(c))
  BY <1>1, JobKinds DEF Cleaning, Begun
<1> QED BY <1>1, <1>2, SameFresh

\* A launch is of a queue that the driver counts as dirty.
LEMMA ProcessLaunchKernelCommandFresh ==
  ASSUME JobInv, FreshInv, NEW q \in Queue, ProcessLaunchKernelCommand(q)
  PROVE  FreshInv'
<1>1. /\ l2Dirty' = l2Dirty \cup {q} /\ ToDriver' = ToDriver \o <<Launch(q)>>
      /\ waitsFor' = [waitsFor EXCEPT ![q] = ToSet(<<Launch(q)>>)]
      /\ UNCHANGED <<dirty, running, sent>>
  BY DEF ProcessLaunchKernelCommand, Begin, Launch, unitVars, gpuVars
<1>2. \A x : Asked(x)' <=> Asked(x) \/ x = Launch(q)
  BY ProcessLaunchKernelCommandJobs
<1>3. \A x \in waitsFor'[q] : x = Launch(q)
  <2>1. waitsFor \in [Queue -> SUBSET Request]
    BY DEF JobInv, JobTypes
  <2>2. ToSet(<<Launch(q)>>) = {Launch(q)}
    BY DEF ToSet
  <2> QED BY <1>1, <2>1, <2>2
<1>4. \A p \in Queue : p # q => waitsFor'[p] = waitsFor[p]
  BY <1>1 DEF JobInv, JobTypes
<1>5. ASSUME NEW c \in Copies PROVE Before(ToDriver, Flush(c.queue), CopyReq(c))'
  <2> DEFINE e == Launch(q)
  <2>1. e \in Request /\ e # Flush(c.queue) /\ Flush(c.queue) # CopyReq(c) /\ ToDriver \in Seq(Request)
    BY JobKinds, FlushIsNoJob DEF JobInv, JobTypes
  <2>2. ToDriver' = Append(ToDriver, e)
    BY <1>1, <2>1, AppendIsConcat
  <2> HIDE DEF e
  <2>3. Before(ToDriver, Flush(c.queue), CopyReq(c))
    BY DEF FreshInv
  <2>4. Before(Append(ToDriver, e), Flush(c.queue), CopyReq(c))
    BY <2>1, <2>3, AppendBefore
  <2> QED BY <2>2, <2>4
<1>6. ASSUME NEW c \in Copies
      PROVE  /\ Asked(CopyReq(c))' <=> Asked(CopyReq(c))
             /\ Asked(Flush(c.queue))' <=> Asked(Flush(c.queue))
             /\ Begun(c)' => Begun(c)
  <2>1. CopyReq(c) # Launch(q) /\ Flush(c.queue) # Launch(q) /\ c.queue \in Queue
    BY JobKinds, FlushIsNoJob
  <2> QED BY <1>2, <1>3, <1>4, <2>1 DEF Begun
<1>7. \A p : (Clean(p)' <=> Clean(p)) /\ (Cleaning(p)' <=> Cleaning(p))
  BY <1>1 DEF Clean, Cleaning
<1>8. \A p \in Queue : Asked(Launch(p))' => p \in l2Dirty'
  <2> SUFFICES ASSUME NEW p \in Queue, Asked(Launch(p))' PROVE p \in l2Dirty'
    OBVIOUS
  <2>1. Asked(Launch(p)) \/ p = q
    BY <1>2, JobKinds
  <2> QED BY <1>1, <2>1 DEF FreshInv
<1> QED BY <1>1, <1>5, <1>6, <1>7, <1>8 DEF FreshInv

\* A copy of such a queue is asked for after a flush.
LEMMA ProcessMemCopyCommandFresh ==
  ASSUME IInv, JobInv, FreshInv, NEW q \in Queue, ProcessMemCopyCommand(q)
  PROVE  FreshInv'
<1>1. UNCHANGED <<dirty, running, sent, l2Dirty>>
  BY DEF ProcessMemCopyCommand, unitVars, gpuVars
<1>2. PICK c \in Copies :
        /\ c.queue = q /\ Begin(q, CopyReqs(q, c))
        /\ \A x : Asked(x)' <=> Asked(x) \/ x = CopyReq(c) \/ (x = Flush(q) /\ q \in l2Dirty)
  BY ProcessMemCopyCommandJobs
<1>3. /\ waitsFor[q] = {} /\ ToDriver' = ToDriver \o CopyReqs(q, c)
      /\ waitsFor' = [waitsFor EXCEPT ![q] = ToSet(CopyReqs(q, c))]
  BY <1>2 DEF Begin
<1>4. \A p \in Queue : p # q => waitsFor'[p] = waitsFor[p]
  BY <1>3 DEF JobInv, JobTypes
<1>5. waitsFor'[q] = ToSet(CopyReqs(q, c))
  BY <1>3 DEF JobInv, JobTypes
<1>6. /\ CopyReqs(q, c) \in Seq(Request)
      /\ \A x : In(x, CopyReqs(q, c)) <=> x = CopyReq(c) \/ (x = Flush(q) /\ q \in l2Dirty)
  BY CopyReqsAre
<1>7. ~ Asked(Flush(q)) /\ \A d \in Copies : d.queue = q => ~ Asked(CopyReq(d))
  <2>1. ~ Asked(Flush(q))
    BY <1>3 DEF IInv, FlushInv
  <2>2. ASSUME NEW d \in Copies, d.queue = q PROVE ~ Asked(CopyReq(d))
    <3>1. CopyReq(d) \in Jobs /\ CopyReq(d).queue = q
      BY <2>2, JobKinds
    <3> QED BY <1>3, <3>1 DEF JobInv, JobPlaces
  <2> QED BY <2>1, <2>2
<1>8. \A p : (Clean(p)' <=> Clean(p)) /\ (Cleaning(p)' <=> Cleaning(p))
  BY <1>1 DEF Clean, Cleaning
<1>9. Flush(q) # CopyReq(c) /\ Flush(q) \in Request /\ CopyReq(c) \in Request
  BY FlushIsNoJob, JobKinds
<1>10. Before(CopyReqs(q, c), Flush(q), CopyReq(c))
  <2> DEFINE f == Flush(q)
             r == CopyReq(c)
             last == <<r>>
  <2>1. f # r /\ f \in Request /\ r \in Request
    BY <1>9
  <2>2. (\A e : Before(<<e>>, f, r)) /\ Before(<<>>, f, r)
    BY <2>1, FewBefore
  <2>3. last \in Seq(Request) /\ (\A x : In(x, last) <=> x = r) /\ Before(last, f, r)
    BY <2>1, <2>2, SingleSole
  <2> HIDE DEF f, r, last
  <2>4. <<f>> \in Seq(Request) /\ (\A x : In(x, <<f>>) <=> x = f) /\ Before(<<f>>, f, r)
    BY <2>1, <2>2, SingleSole
  <2>5. <<>> \in Seq(Request) /\ Before(<<>>, f, r) /\ ~ In(r, <<>>)
    BY <2>2, NoneIn
  <2>6. CopyReqs(q, c) = (IF q \in l2Dirty THEN <<f>> ELSE <<>>) \o last
    BY DEF CopyReqs, f, r, last
  <2> DEFINE first == IF q \in l2Dirty THEN <<f>> ELSE <<>>
  <2>7. first \in Seq(Request) /\ Before(first, f, r) /\ ~ In(r, first)
    BY <2>1, <2>4, <2>5
  <2> HIDE DEF first
  <2>8. Before(first \o last, f, r)
    BY <2>3, <2>7, ConcatBefore
  <2> QED BY <2>6, <2>8 DEF first, f, r
<1>11. ASSUME NEW d \in Copies PROVE Before(ToDriver, Flush(d.queue), CopyReq(d))'
  <2> DEFINE f == Flush(d.queue)
             r == CopyReq(d)
             reqs == CopyReqs(q, c)
  <2>1. ToDriver \in Seq(Request) /\ reqs \in Seq(Request) /\ Before(ToDriver, f, r)
    BY <1>6 DEF JobInv, JobTypes, FreshInv
  <2>2. Before(reqs, f, r) /\ ~ (In(r, ToDriver) /\ In(f, reqs))
    <3>1. CASE d = c
      BY <1>2, <1>7, <1>10, <3>1 DEF Asked
    <3>2. CASE d # c
      <4>1. r # CopyReq(c) /\ r # Flush(q)
        BY <3>2, JobKinds, FlushIsNoJob
      <4>2. ~ In(r, reqs)
        BY <1>6, <4>1
      <4>3. Before(reqs, f, r)
        BY <4>2 DEF Before, In
      <4>4. In(f, reqs) => d.queue = q
        <5>1. d.queue \in Queue /\ f # CopyReq(c)
          BY JobKinds, FlushIsNoJob
        <5> QED BY <1>6, <5>1, RequestKinds
      <4> QED BY <1>7, <4>3, <4>4 DEF Asked
    <3> QED BY <3>1, <3>2
  <2> HIDE DEF f, r, reqs
  <2>3. Before(ToDriver \o reqs, f, r)
    BY <2>1, <2>2, ConcatBefore
  <2> QED BY <1>3, <2>3 DEF f, r, reqs
<1>12. \A x : x \in waitsFor'[q] <=> x = CopyReq(c) \/ (x = Flush(q) /\ q \in l2Dirty)
  BY <1>5, <1>6 DEF ToSet, In
<1>13. ASSUME NEW d \in Copies
       PROVE  /\ Asked(CopyReq(d))' => Asked(Flush(d.queue))' \/ Cleaning(d.queue)'
              /\ Begun(d)' => Clean(d.queue)'
  <2>0. d.queue \in Queue /\ CopyReq(d) # Flush(q) /\ CopyReq(d).queue = d.queue /\ CopyReq(c).queue = q
    BY <1>2, JobKinds, FlushIsNoJob
  <2>1. CASE d.queue # q
    <3>1. CopyReq(d) # CopyReq(c)
      BY <2>0, <2>1
    <3>2. Asked(CopyReq(d))' <=> Asked(CopyReq(d))
      BY <1>2, <2>0, <3>1
    <3>3. Begun(d)' <=> Begun(d)
      BY <1>4, <2>0, <2>1, <3>2 DEF Begun
    <3> QED BY <1>2, <1>8, <3>2, <3>3 DEF FreshInv
  <2>2. CASE d.queue = q
    <3>1. ~ Begun(d)'
      BY <1>2, <1>12, <2>0, <2>2 DEF Begun
    <3>2. CASE q \in l2Dirty
      BY <1>2, <2>2, <3>1, <3>2
    <3>3. CASE q \notin l2Dirty
      <4>1. Cleaning(q)
        BY <3>3 DEF FreshInv, Cleaning
      <4> QED BY <1>8, <2>2, <3>1, <4>1
    <3> QED BY <3>2, <3>3
  <2> QED BY <2>1, <2>2
<1>14. ASSUME NEW p \in Queue, Asked(Launch(p))' PROVE p \in l2Dirty'
  <2>1. Asked(Launch(p))
    BY <1>2, <1>14, JobKinds
  <2> QED BY <1>1, <2>1 DEF FreshInv
<1> QED BY <1>1, <1>11, <1>13, <1>14 DEF FreshInv

\* The kernel that runs is of such a queue.
LEMMA ProcessLaunchKernelReqFresh ==
  ASSUME JobInv, FreshInv, ProcessLaunchKernelReq
  PROVE  FreshInv'
<1>1. PICK q \in Queue : Asked(Launch(q)) /\ running' = running \cup {q} /\ ToDriver' = Tail(ToDriver)
  BY ProcessLaunchKernelReqJobs
<1>2. /\ ToDriver # <<>> /\ Head(ToDriver).kind = "launch"
      /\ UNCHANGED <<dirty, l2Dirty, sent, waitsFor>>
  BY DEF ProcessLaunchKernelReq, Takes, drvVars
<1>3. \A r : Asked(r) <=> r = Head(ToDriver) \/ Asked(r)'
  BY <1>1, <1>2, JobTaken
<1>4. running' \subseteq l2Dirty
  BY <1>1 DEF FreshInv
<1>5. ASSUME NEW c \in Copies
      PROVE  /\ Asked(CopyReq(c))' <=> Asked(CopyReq(c))
             /\ Asked(Flush(c.queue))' <=> Asked(Flush(c.queue))
             /\ Before(ToDriver, Flush(c.queue), CopyReq(c))'
  <2>1. Head(ToDriver) # CopyReq(c) /\ Head(ToDriver) # Flush(c.queue)
    BY <1>2, JobKinds, RequestKinds
  <2>2. Before(Tail(ToDriver), Flush(c.queue), CopyReq(c))
    BY <1>2, TailBefore DEF JobInv, JobTypes, FreshInv
  <2> QED BY <1>1, <1>3, <2>1, <2>2
<1>6. \A p : (Clean(p)' <=> Clean(p)) /\ (Cleaning(p)' <=> Cleaning(p))
  BY <1>2 DEF Clean, Cleaning
<1>7. \A c \in Copies : Begun(c)' <=> Begun(c)
  BY <1>2, <1>5 DEF Begun
<1> QED BY <1>2, <1>3, <1>4, <1>5, <1>6, <1>7 DEF FreshInv

\* Every cache is asked for what its queue has left there.
LEMMA ProcessFlushReqFresh ==
  ASSUME JobInv, FreshInv, ProcessFlushReq
  PROVE  FreshInv'
<1>1. /\ ToDriver # <<>> /\ Head(ToDriver).kind = "flush" /\ ToDriver' = Tail(ToDriver)
      /\ sent' = sent \cup (Cache \X {"flush"})
      /\ UNCHANGED <<dirty, l2Dirty, running, waitsFor>>
  BY DEF ProcessFlushReq, Takes, Tell, Orders, drvVars, gpuVars
<1>2. \A r : Asked(r) <=> r = Head(ToDriver) \/ Asked(r)'
  BY <1>1, JobTaken
<1>3. \A q : Cleaning(q)'
  BY <1>1 DEF Cleaning
<1>4. ASSUME NEW c \in Copies
      PROVE  /\ Asked(CopyReq(c))' <=> Asked(CopyReq(c))
             /\ Before(ToDriver, Flush(c.queue), CopyReq(c))'
  <2>1. Head(ToDriver) # CopyReq(c)
    BY <1>1, JobKinds
  <2>2. Before(Tail(ToDriver), Flush(c.queue), CopyReq(c))
    BY <1>1, TailBefore DEF JobInv, JobTypes, FreshInv
  <2> QED BY <1>1, <1>2, <2>1, <2>2
<1>5. \A c \in Copies : Begun(c)' <=> Begun(c)
  BY <1>1, <1>4 DEF Begun
<1>6. \A p : Clean(p)' <=> Clean(p)
  BY <1>1 DEF Clean
<1> QED BY <1>1, <1>2, <1>3, <1>4, <1>5, <1>6 DEF FreshInv

\* A copy is taken when no cache has anything of its queue.
LEMMA ProcessMemCopyReqFresh ==
  ASSUME IInv, JobInv, FreshInv, ProcessMemCopyReq
  PROVE  FreshInv'
<1>1. /\ ToDriver # <<>> /\ Head(ToDriver).kind = "copy" /\ ToDriver' = Tail(ToDriver) /\ numCacheACK = 0
      /\ UNCHANGED <<dirty, l2Dirty, running, waitsFor, sent>>
  BY DEF ProcessMemCopyReq, Takes, drvVars, unitVars, gpuVars
<1>2. PICK c \in Copies : Asked(CopyReq(c)) /\ Head(ToDriver) = CopyReq(c)
  BY ProcessMemCopyReqJobs
<1>3. \A r : Asked(r) <=> r = Head(ToDriver) \/ Asked(r)'
  BY <1>1, JobTaken
<1>4. \A d \in Copies : Before(ToDriver, Flush(d.queue), CopyReq(d))
  BY DEF FreshInv
<1>5. ~ Asked(Flush(c.queue))
  BY <1>1, <1>2, <1>4, TailBefore DEF JobInv, JobTypes, Asked
<1>6. Clean(c.queue)
  <2>1. Cleaning(c.queue)
    BY <1>2, <1>5 DEF FreshInv
  <2> QED BY <1>1, <2>1, NothingToFlush DEF Cleaning, Clean
<1>7. ASSUME NEW d \in Copies
      PROVE  /\ Asked(CopyReq(d))' => Asked(CopyReq(d))
             /\ Asked(Flush(d.queue))' <=> Asked(Flush(d.queue))
             /\ Before(ToDriver, Flush(d.queue), CopyReq(d))'
             /\ Begun(d)' => Begun(d) \/ d = c
  <2>1. Head(ToDriver) # Flush(d.queue) /\ (CopyReq(d) = CopyReq(c) => d = c)
    BY <1>2, JobKinds, FlushIsNoJob
  <2>2. Before(Tail(ToDriver), Flush(d.queue), CopyReq(d))
    BY <1>1, <1>4, TailBefore DEF JobInv, JobTypes
  <2>3. Begun(d)' => Begun(d) \/ d = c
    BY <1>1, <1>2, <1>3, <2>1 DEF Begun
  <2> QED BY <1>1, <1>3, <2>1, <2>2, <2>3
<1>8. \A p : (Clean(p)' <=> Clean(p)) /\ (Cleaning(p)' <=> Cleaning(p))
  BY <1>1 DEF Clean, Cleaning
<1> QED BY <1>1, <1>3, <1>6, <1>7, <1>8 DEF FreshInv

\* A unit that is flushed or stopped keeps nothing.
LEMMA ObeyFresh ==
  ASSUME JobInv, FreshInv, NEW u \in Unit, NEW order \in {"stop", "flush", "restart"}, Obey(u, order)
  PROVE  FreshInv'
<1>1. /\ sent' = sent \ {<<u, order>>}
      /\ dirty' = (IF order = "restart" THEN dirty ELSE {d \in dirty : d[2] # u})
      /\ UNCHANGED <<ToDriver, l2Dirty, running, waitsFor>>
  BY DEF Obey, drvVars
<1>2. dirty' \subseteq dirty
  BY <1>1
<1>3. \A q : Cleaning(q) => Cleaning(q)'
  <2> SUFFICES ASSUME NEW q, Cleaning(q), NEW k \in Cache, <<q, k>> \in dirty'
               PROVE  <<k, "flush">> \in sent'
    BY DEF Cleaning
  <2>1. <<k, "flush">> \in sent
    BY <1>2 DEF Cleaning
  <2>2. <<k, "flush">> # <<u, order>>
    <3>1. CASE order = "restart"
      BY <3>1
    <3>2. CASE order # "restart"
      <4>1. k # u
        BY <1>1, <3>2
      <4> QED BY <4>1
    <3> QED BY <3>1, <3>2
  <2> QED BY <1>1, <2>1, <2>2
<1>4. \A r : Asked(r)' <=> Asked(r)
  BY <1>1 DEF Asked, In
<1>5. \A c \in Copies : Before(ToDriver, Flush(c.queue), CopyReq(c))'
  BY <1>1 DEF FreshInv, Before
<1>6. \A c \in Copies : Begun(c)' <=> Begun(c)
  BY <1>1, <1>4 DEF Begun
<1> QED BY <1>1, <1>2, <1>3, <1>4, <1>5, <1>6, SameFresh

\* A kernel writes only while its queue has nothing else to do.
LEMMA KernelWritesFresh ==
  ASSUME JobInv, FreshInv, NEW q \in Queue, NEW k \in Cache, KernelWrites(q, k)
  PROVE  FreshInv'
<1>1. /\ q \in running /\ dirty' = dirty \cup {<<q, k>>}
      /\ UNCHANGED <<ToDriver, l2Dirty, running, waitsFor, sent>>
  BY DEF KernelWrites, drvVars
<1>2. q \in l2Dirty
  BY <1>1 DEF FreshInv
<1>3. ASSUME NEW c \in Copies, c.queue = q PROVE ~ Asked(CopyReq(c)) /\ ~ Begun(c)
  <2>1. /\ Launch(q) \in Jobs /\ Launch(q).queue = q /\ CopyReq(c) \in Jobs /\ CopyReq(c).queue = q
        /\ Launch(q) # CopyReq(c)
    BY <1>3, JobKinds, FlushIsNoJob
  <2>2. Launch(q) \in waitsFor[q]
    BY <1>1, <2>1, WorkingIs DEF JobInv, JobPlaces
  <2>3. CopyReq(c) \notin waitsFor[q]
    BY <2>1, <2>2 DEF JobInv, JobPlaces
  <2> QED BY <1>3, <2>1, <2>3 DEF Begun, JobInv, JobPlaces
<1>4. \A r : Asked(r)' <=> Asked(r)
  BY <1>1 DEF Asked, In
<1>5. \A c \in Copies : Begun(c)' <=> Begun(c)
  BY <1>1, <1>4 DEF Begun
<1>6. \A p : p # q => (Clean(p)' <=> Clean(p)) /\ (Cleaning(p)' <=> Cleaning(p))
  BY <1>1 DEF Clean, Cleaning
<1>7. ASSUME NEW c \in Copies
      PROVE  /\ Asked(CopyReq(c))' => Asked(Flush(c.queue))' \/ Cleaning(c.queue)'
             /\ Before(ToDriver, Flush(c.queue), CopyReq(c))'
             /\ Begun(c)' => Clean(c.queue)'
  <2>1. Before(ToDriver, Flush(c.queue), CopyReq(c))'
    BY <1>1 DEF FreshInv, Before
  <2> QED BY <1>3, <1>4, <1>5, <1>6, <2>1 DEF FreshInv
<1>8. dirty' \subseteq l2Dirty' \X Cache
  BY <1>1, <1>2 DEF FreshInv
<1> QED BY <1>1, <1>4, <1>7, <1>8 DEF FreshInv

\* The other steps.
LEMMA AsideFresh ==
  ASSUME JobInv, FreshInv,
         \/ InitiateRDMADrain \/ DriverStep \/ ProcessShootdownCommand \/ ProcessGPURestartReq
         \/ \E kind \in Relayed : RelayDown(kind) \/ RelayUp(kind) \/ ServeRelayed(kind)
         \/ AckStep
         \/ CopyStep \/ \E q \in Queue : KernelEnds(q)
         \/ UNCHANGED vars
  PROVE  FreshInv'
<1> USE DEF drvVars, cpVars, cntVars, unitVars, gpuVars, migVars
<1> DEFINE P == /\ UNCHANGED <<dirty, l2Dirty>> /\ sent \subseteq sent' /\ running' \subseteq running
                /\ \A q \in Queue : waitsFor'[q] \subseteq waitsFor[q]
           Q == \/ ToDriver' = ToDriver
                \/ \E k \in MigKind : ToDriver' = Append(ToDriver, Alone(k))
                \/ ToDriver # <<>> /\ ToDriver' = Tail(ToDriver) /\ Head(ToDriver).kind \in MigKind
<1>1. ASSUME InitiateRDMADrain \/ SendShootDownReqs \/ SendMigrationReqToCP
             \/ PrepareGPURestartReqs \/ PrepareRDMARestartReqs
      PROVE  P /\ Q
  BY <1>1 DEF InitiateRDMADrain, SendShootDownReqs, SendMigrationReqToCP, PrepareGPURestartReqs,
              PrepareRDMARestartReqs, DriverUnchanged, Ask, Others, MigKind
<1>2. ASSUME ProcessReturnReq PROVE P /\ Q
  <2>1. waitsFor \in [Queue -> SUBSET Request]
    BY DEF JobInv, JobTypes
  <2>2. UNCHANGED <<dirty, l2Dirty, sent, running, ToDriver>>
    BY <1>2 DEF ProcessReturnReq
  <2>3. waitsFor' = waitsFor \/ \E r : waitsFor' = [waitsFor EXCEPT ![r.queue] = @ \ {r}]
    BY <1>2 DEF ProcessReturnReq
  <2>4. \A q \in Queue : waitsFor'[q] \subseteq waitsFor[q]
    BY <2>1, <2>3
  <2> QED BY <2>2, <2>4
<1>3. ASSUME ProcessShootdownCommand \/ ProcessGPURestartReq \/ \E kind \in Relayed : RelayDown(kind)
      PROVE  P /\ Q
  BY <1>3 DEF ProcessShootdownCommand, ProcessGPURestartReq, RelayDown, Takes, Tell, Relayed, MigKind
<1>4. ASSUME ProcessMemCopyRsp \/ CopyStep \/ UNCHANGED vars
             \/ (\E kind \in Relayed : RelayUp(kind) \/ ServeRelayed(kind))
             \/ (\E q \in Queue : KernelEnds(q))
      PROVE  P /\ Q
  BY <1>4 DEF ProcessMemCopyRsp, CopyStep, DMASendToCP, RelayUp, ServeRelayed, KernelEnds, vars
<1>5. ASSUME \/ ProcessCUPipelineFlushRsp \/ ProcessAddressTranslatorFlushRsp
             \/ ProcessCacheFlushRsp \/ ProcessTLBFlushRsp
             \/ ProcessCacheRestartRsp \/ ProcessTLBRestartRsp
             \/ ProcessAddressTranslatorRestartRsp \/ ProcessCUPipelineRestartRsp
      PROVE  P /\ Q
  <2>1. UNCHANGED <<dirty, l2Dirty, running, waitsFor, ToDriver>>
    BY <1>5 DEF ProcessCUPipelineFlushRsp, ProcessAddressTranslatorFlushRsp,
                ProcessCacheFlushRsp, ProcessTLBFlushRsp, ProcessCacheRestartRsp, ProcessTLBRestartRsp,
                ProcessAddressTranslatorRestartRsp, ProcessCUPipelineRestartRsp, AckUnchanged
  <2>2. sent \subseteq sent'
    BY <1>5 DEF ProcessCUPipelineFlushRsp, ProcessAddressTranslatorFlushRsp,
                ProcessCacheFlushRsp, ProcessTLBFlushRsp, ProcessCacheRestartRsp, ProcessTLBRestartRsp,
                ProcessAddressTranslatorRestartRsp, ProcessCUPipelineRestartRsp, Tell
  <2> QED BY <2>1, <2>2
<1> HIDE DEF P, Q
<1>6. P /\ Q
  BY <1>1, <1>2, <1>3, <1>4, <1>5, Zenon DEF DriverStep, AckStep
<1> QED BY <1>6, StillFresh DEF P, Q

LEMMA InitFreshInv == Init => FreshInv
<1> SUFFICES ASSUME Init PROVE FreshInv
  OBVIOUS
<1>1. \A r : ~ Asked(r)
  BY NoneIn DEF Init, Asked
<1>2. dirty \subseteq l2Dirty \X Cache /\ running \subseteq l2Dirty
  BY DEF Init
<1>3. \A c \in Copies : ~ Begun(c)
  BY JobKinds DEF Init, Begun
<1>4. \A x, y : Before(ToDriver, x, y)
  <2>1. DOMAIN ToDriver = {}
    BY DEF Init
  <2> QED BY <2>1 DEF Before
<1> QED BY <1>1, <1>2, <1>3, <1>4 DEF FreshInv

LEMMA NextFreshInv == IInv /\ JobInv /\ FreshInv /\ [Next]_vars => FreshInv'
<1> SUFFICES ASSUME IInv, JobInv, FreshInv, [Next]_vars PROVE FreshInv'
  OBVIOUS
<1>1. CASE \E q \in Queue : ProcessLaunchKernelCommand(q) \/ ProcessMemCopyCommand(q)
  BY <1>1, ProcessLaunchKernelCommandFresh, ProcessMemCopyCommandFresh
<1>2. CASE ProcessLaunchKernelReq \/ ProcessFlushReq \/ ProcessMemCopyReq
  BY <1>2, ProcessLaunchKernelReqFresh, ProcessFlushReqFresh, ProcessMemCopyReqFresh
<1>3. CASE \E u \in Unit, order \in {"stop", "flush", "restart"} : Obey(u, order)
  BY <1>3, ObeyFresh
<1>4. CASE \E q \in Queue, k \in Cache : KernelWrites(q, k)
  BY <1>4, KernelWritesFresh
<1>5. CASE \/ InitiateRDMADrain \/ DriverStep \/ ProcessShootdownCommand \/ ProcessGPURestartReq
           \/ \E kind \in Relayed : RelayDown(kind) \/ RelayUp(kind) \/ ServeRelayed(kind)
           \/ AckStep
           \/ CopyStep \/ \E q \in Queue : KernelEnds(q)
           \/ UNCHANGED vars
  BY <1>5, AsideFresh
<1> QED BY <1>1, <1>2, <1>3, <1>4, <1>5, Zenon DEF Next, CPStep, RequestStep, UnitStep

LEMMA FreshIs == JobInv /\ FreshInv => CopyIsFresh
<1> SUFFICES ASSUME JobInv, FreshInv, processingReq # None PROVE Clean(processingReq.queue)
  BY DEF CopyIsFresh, Clean
<1> DEFINE c == processingReq
<1>1. c \in Copies
  BY DEF JobInv, JobTypes
<1>2. CopyReq(c) \in Jobs /\ CopyReq(c).queue = c.queue /\ Working(CopyReq(c))
  BY <1>1, JobKinds, WorkingIs DEF InEngine
<1>3. Begun(c)
  BY <1>2 DEF Begun, JobInv, JobPlaces
<1> QED BY <1>1, <1>3 DEF FreshInv

\* A copy that the DMA engine works on finds nothing of its queue left in a
\* cache: the driver asks for the flush first when a kernel of the queue may
\* have written, the command processor takes the two in order, and a copy is
\* not taken while an acknowledgement of the caches is missing
\* (timing/cp/commandprocessor.go:751-753, 799-801).
THEOREM CopiesFindCleanCaches == Spec /\ ~ Overlap => []CopyIsFresh
<1>1. Init => CopyInv /\ FreshInv
  BY InitCopyInv, InitFreshInv
<1>2. IInv /\ (CopyInv /\ FreshInv) /\ [Next]_vars => (CopyInv /\ FreshInv)'
  BY NextCopyInv, NextFreshInv DEF CopyInv
<1>3. CopyInv /\ FreshInv => CopyIsFresh
  BY FreshIs DEF CopyInv
<1> QED BY <1>1, <1>2, <1>3, Invariance, PTL DEF Spec
=============================================================================
