------------------------- MODULE PageMigrationProofs -------------------------
(***************************************************************************)
(* Proofs about PageMigration, for every number of GPUs and pages, every   *)
(* placement of the pages and any number of migrations: no TLB keeps a     *)
(* translation the page table has given up, no engine waits for a request  *)
(* that a flush has dropped, one page is copied at a time, and a migration *)
(* loses no write.                                                         *)
(*                                                                         *)
(* The first three hold for one reason: a migration is in one phase at a   *)
(* time.  In each phase one kind of command is under way, each GPU it is   *)
(* for has it in one place, and the counter of the phase is the number of  *)
(* GPUs whose answer is missing.                                           *)
(***************************************************************************)
EXTENDS PageMigration, SequenceTheorems, FiniteSetTheorems, TLAPS

-----------------------------------------------------------------------------
(* The invariant.                                                          *)

\* A request of the MMU names a GPU and a page at least.
GoodReq(r) == r \in MigrationReq /\ r.accessing # {} /\ Wanted(r) # {}

Kinds == {"drain", "shootdown", "restart", "rdmaRestart"}

\* The command of a kind for a GPU, and those for a set of GPUs.
Cmd(kind, g, v) == [kind |-> kind, gpu |-> g, vAddr |-> v]
Cmds(kind, gpus, v) == {Cmd(kind, g, v) : g \in gpus}

\* The GPUs with a command in a queue, those whose port holds one or the
\* queue does, and those that have not answered it or whose answer is not
\* received.
InQueue(q) == {q[i].gpu : i \in DOMAIN q}
Ordered(q, to) == {g \in GPU : g \in InQueue(q) \/ to[g] # None}
Pending(q, to, from, work) ==
  {g \in GPU : g \in InQueue(q) \/ to[g] # None \/ g \in work \/ from[g] # None}

\* A command of one kind goes to every GPU of a set: each is in one place on
\* its way, and as many answers are missing as the driver counts.
Places(q, to, from, kind, rsp, gpus, v, work) ==
  /\ q \in Seq(Cmds(kind, gpus, v))
  /\ \A i, j \in DOMAIN q : q[i] = q[j] => i = j
  /\ to \in [GPU -> Cmds(kind, GPU, v) \cup {None}]
  /\ \A g \in GPU : to[g] \in {None, Cmd(kind, g, v)}
  /\ from \in [GPU -> {rsp, None}]
  /\ gpus \subseteq GPU /\ work \subseteq GPU
  /\ Pending(q, to, from, work) \subseteq gpus
  /\ \A g \in GPU :
       /\ g \in InQueue(q) => to[g] = None /\ g \notin work /\ from[g] = None
       /\ to[g] # None => g \notin work /\ from[g] = None
       /\ g \in work => from[g] = None

Round(q, to, from, kind, rsp, gpus, v, n, work) ==
  /\ Places(q, to, from, kind, rsp, gpus, v, work)
  /\ n = Cardinality(Pending(q, to, from, work)) /\ n # 0

NoOrders == /\ requestsToSend = <<>>
            /\ toCP = [g \in GPU |-> None] /\ fromCP = [g \in GPU |-> None]
NoCopies == /\ migrationReqToSendToCP = <<>> /\ numPagesMigratingACK = 0
            /\ ~ isCurrentlyMigratingOnePage /\ \A g \in GPU : pmc[g] = None

Draining   == {g \in GPU : rdma[g] = "draining"}
Flushing   == {g \in GPU : stage[g] \in {"cuFlush", "atFlush", "cacheFlush", "tlbFlush"}}
Restarting == {g \in GPU : stage[g] \in {"cacheRestart", "tlbRestart", "atRestart",
                                         "cuRestart"}}

Accessing == currentPageMigrationReq.accessing
Handling  == isCurrentlyHandlingMigrationReq /\ GoodReq(currentPageMigrationReq)
AllPaused == \A g \in GPU : rdma[g] = "paused"

Idle ==
  /\ ~ isCurrentlyHandlingMigrationReq /\ NoOrders /\ NoCopies
  /\ numRDMADrainACK = 0 /\ numShootDownACK = 0
  /\ numRestartACK = 0 /\ numRDMARestartACK = 0
  /\ \A g \in GPU : stage[g] = "run" /\ rdma[g] = "run"

DrainPhase ==
  /\ Handling /\ NoCopies
  /\ Round(requestsToSend, toCP, fromCP, "drain", "drainRsp", GPU, {},
           numRDMADrainACK, Draining)
  /\ numShootDownACK = 0 /\ numRestartACK = 0 /\ numRDMARestartACK = 0
  /\ \A g \in GPU : /\ stage[g] = "run"
                    /\ g \in Ordered(requestsToSend, toCP) <=> rdma[g] = "run"

ShootPhase ==
  /\ Handling /\ NoCopies /\ AllPaused
  /\ Round(requestsToSend, toCP, fromCP, "shootdown", "shootdownRsp", Accessing,
           Wanted(currentPageMigrationReq), numShootDownACK, Flushing)
  /\ numRDMADrainACK = 0 /\ numRestartACK = 0 /\ numRDMARestartACK = 0
  /\ \A g \in GPU :
       IF g \in Ordered(requestsToSend, toCP) \/ g \notin Accessing THEN stage[g] = "run"
       ELSE g \in Flushing \/ stage[g] = "stopped"

\* One page is under way, at one place.
OneUnderWay ==
  \E g \in GPU :
    /\ \A h \in GPU \ {g} : toCP[h] = None /\ pmc[h] = None /\ fromCP[h] = None
    /\ \/ toCP[g] \in CopyReq /\ pmc[g] = None /\ fromCP[g] = None
       \/ toCP[g] = None /\ fromCP[g] = None
       \/ toCP[g] = None /\ pmc[g] = None /\ fromCP[g] = "migrateRsp"

CopyPhase ==
  /\ Handling /\ AllPaused /\ requestsToSend = <<>>
  /\ numRDMADrainACK = 0 /\ numShootDownACK = 0
  /\ numRestartACK = 0 /\ numRDMARestartACK = 0
  /\ \A g \in GPU : stage[g] = IF g \in Accessing THEN "stopped" ELSE "run"
  /\ numPagesMigratingACK # 0
  /\ \/ /\ isCurrentlyMigratingOnePage /\ OneUnderWay
        /\ numPagesMigratingACK = Len(migrationReqToSendToCP) + 1
     \/ /\ ~ isCurrentlyMigratingOnePage
        /\ \A g \in GPU : toCP[g] = None /\ pmc[g] = None /\ fromCP[g] = None
        /\ numPagesMigratingACK = Len(migrationReqToSendToCP)

RestartPhase ==
  /\ Handling /\ NoCopies /\ AllPaused
  /\ Round(requestsToSend, toCP, fromCP, "restart", "restartRsp", Accessing, {},
           numRestartACK, Restarting)
  /\ numRDMADrainACK = 0 /\ numShootDownACK = 0 /\ numRDMARestartACK = 0
  /\ \A g \in GPU :
       IF g \in Ordered(requestsToSend, toCP) THEN stage[g] = "stopped"
       ELSE g \in Restarting \/ stage[g] = "run"

RDMARestartPhase ==
  /\ Handling /\ NoCopies
  /\ Round(requestsToSend, toCP, fromCP, "rdmaRestart", "rdmaRestartRsp", GPU, {},
           numRDMARestartACK, {})
  /\ numRDMADrainACK = 0 /\ numShootDownACK = 0 /\ numRestartACK = 0
  /\ \A g \in GPU :
       /\ stage[g] = "run"
       /\ rdma[g] = IF g \in Ordered(requestsToSend, toCP) THEN "paused" ELSE "run"

PhaseInv == \/ Idle \/ DrainPhase \/ ShootPhase
            \/ CopyPhase \/ RestartPhase \/ RDMARestartPhase

\* A paused engine waits for nothing, and none waits for what is lost.
RDMAInv ==
  /\ \A g \in GPU : rdma[g] = "paused" => flight[g] = None
  /\ RemoteAccessKept

\* The request of the MMU is in one place until it is answered.
BeforeCopies == numRDMADrainACK # 0 \/ numShootDownACK # 0
MMUInv ==
  /\ mmuPort # None => GoodReq(mmuPort)
  /\ (mmuPort # None \/ BeforeCopies \/ numPagesMigratingACK # 0
        \/ toSendToMMU # None \/ mmuRsp # None) => isDoingMigration
  /\ mmuPort # None =>
       ~ BeforeCopies /\ numPagesMigratingACK = 0 /\ toSendToMMU = None /\ mmuRsp = None
  /\ BeforeCopies \/ numPagesMigratingACK # 0 => toSendToMMU = None /\ mmuRsp = None
  /\ toSendToMMU # None => mmuRsp = None

\* Who may hold a translation of a page that is to move.
Blocked(r) ==
  \A p \in Wanted(r) : /\ isMigrating[p]
                       /\ \A g \in GPU \ r.accessing : tlb[g][p] = None
TranslationInv ==
  /\ TranslationsCurrent
  /\ mmuPort # None => Blocked(mmuPort)
  /\ BeforeCopies => Blocked(currentPageMigrationReq)
  /\ numShootDownACK # 0 =>
       /\ \A g \in Flushing : currShootdownRequest[g] = Wanted(currentPageMigrationReq)
       /\ \A g \in GPU : stage[g] = "stopped" =>
            \A p \in Wanted(currentPageMigrationReq) : tlb[g][p] = None

TypeInv ==
  /\ requestsToSend \in Seq(Command)
  /\ migrationReqToSendToCP \in Seq(CopyReq)
  /\ isCurrentlyHandlingMigrationReq \in BOOLEAN
  /\ isCurrentlyMigratingOnePage \in BOOLEAN
  /\ numRDMADrainACK \in Nat /\ numShootDownACK \in Nat
  /\ numPagesMigratingACK \in Nat
  /\ numRestartACK \in Nat /\ numRDMARestartACK \in Nat
  /\ isMigrating \in [Page -> BOOLEAN]
  /\ pageTable \in [Page -> GPU \X Nat]
  /\ allocated \in [GPU -> Nat]
  /\ toCP \in [GPU -> Command \cup CopyReq \cup {None}]
  /\ fromCP \in [GPU -> Rsp \cup {None}]
  /\ stage \in [GPU -> Stages]
  /\ currShootdownRequest \in [GPU -> SUBSET Page]
  /\ rdma \in [GPU -> {"run", "draining", "paused"}]
  /\ DOMAIN toRDMA = GPU /\ DOMAIN flight = GPU /\ DOMAIN pmc = GPU
  /\ tlb \in [GPU -> [Page -> (GPU \X Nat) \cup {None}]]

IInv == TypeInv /\ PhaseInv /\ RDMAInv /\ MMUInv /\ TranslationInv

-----------------------------------------------------------------------------
(* Sets of numbers, in ascending order.                                    *)

\* The GPUs are finitely many.
LEMMA FiniteGPU ==
  /\ IsFiniteSet(GPU) /\ Cardinality(GPU) = NumGPUs /\ NumGPUs \in Nat
  /\ IsFiniteSet(Page) /\ NumPages \in Nat
<1>1. NumGPUs \in Nat /\ NumPages \in Nat
  BY BoundAssumption
<1> QED  BY <1>1, FS_Interval DEF GPU, Page

\* Ascending lists every element of a set once.
LEMMA AscendingLists ==
  ASSUME NEW S \in SUBSET Nat, IsFiniteSet(S)
  PROVE  /\ Cardinality(S) \in Nat
         /\ \A i \in 1 .. Cardinality(S) : Ascending(S)[i] \in S
         /\ \A i, j \in 1 .. Cardinality(S) :
              Ascending(S)[i] = Ascending(S)[j] => i = j
         /\ \A x \in S : \E i \in 1 .. Cardinality(S) : Ascending(S)[i] = x
<1> DEFINE n == Cardinality(S)
           Upto(x) == {y \in S : y <= x}
           rank == [x \in S |-> Cardinality(Upto(x))]
<1>1. n \in Nat
  BY FS_CardinalityType
<1>2. \A x \in S : /\ IsFiniteSet(Upto(x)) /\ Cardinality(Upto(x)) <= n
                   /\ Cardinality(Upto(x)) \in Nat
  BY FS_Subset, FS_CardinalityType
<1>3. \A x \in S : Cardinality(Upto(x)) # 0
  <2> SUFFICES ASSUME NEW x \in S PROVE Cardinality(Upto(x)) # 0
    OBVIOUS
  <2>1. x \in Upto(x)
    OBVIOUS
  <2> HIDE DEF Upto
  <2> QED  BY <1>2, <2>1, FS_EmptySet
<1>4. \A x, z \in S : x < z => Cardinality(Upto(x)) # Cardinality(Upto(z))
  <2> SUFFICES ASSUME NEW x \in S, NEW z \in S, x < z
               PROVE  Cardinality(Upto(x)) # Cardinality(Upto(z))
    OBVIOUS
  <2>2. x \in Nat /\ z \in Nat /\ z <= z /\ ~ (z <= x)
    OBVIOUS
  <2>3. \A y \in S : y <= x => y <= z
    OBVIOUS
  <2>1. Upto(x) \in SUBSET Upto(z) /\ z \in Upto(z) /\ z \notin Upto(x)
    BY <2>2, <2>3
  <2> HIDE DEF Upto
  <2> QED  BY <1>2, <2>1, FS_Subset
<1>5. \A x, z \in S : x # z => x < z \/ z < x
  OBVIOUS
<1> HIDE DEF Upto
<1>6. rank \in [S -> 1 .. n]
  BY <1>1, <1>2, <1>3 DEF n
<1>7. rank \in Injection(S, 1 .. n)
  BY <1>4, <1>5, <1>6 DEF Injection, IsInjective
<1>8. IsFiniteSet(1 .. n) /\ Cardinality(1 .. n) = n
  BY <1>1, FS_Interval
<1>9. rank \in Surjection(S, 1 .. n)
  BY <1>7, <1>8, FS_Injection
<1>10. \A i \in 1 .. n : \E x \in S : Cardinality(Upto(x)) = i
  BY <1>9 DEF Surjection
<1>11. \A i \in 1 .. n : /\ Ascending(S)[i] \in S
                         /\ Cardinality(Upto(Ascending(S)[i])) = i
  BY <1>10 DEF Ascending, Upto
<1>12. \A x \in S : Cardinality(Upto(x)) \in 1 .. n
                    /\ Ascending(S)[Cardinality(Upto(x))] = x
  <2> SUFFICES ASSUME NEW x \in S
               PROVE  /\ Cardinality(Upto(x)) \in 1 .. n
                      /\ Ascending(S)[Cardinality(Upto(x))] = x
    OBVIOUS
  <2>1. Cardinality(Upto(x)) \in 1 .. n
    BY <1>6
  <2> QED  BY <2>1, <1>11, <1>4, <1>5
<1> QED  BY <1>1, <1>11, <1>12

-----------------------------------------------------------------------------
(* A command that goes to each GPU of a set.                               *)

\* Fields of a command.
LEMMA CmdFields ==
  ASSUME NEW kind, NEW g, NEW v
  PROVE  /\ Cmd(kind, g, v).kind = kind /\ Cmd(kind, g, v).gpu = g
         /\ Cmd(kind, g, v).vAddr = v
BY DEF Cmd

LEMMA CmdNotNone ==
  ASSUME NEW kind \in Kinds,
         NEW g \in GPU, NEW v \in SUBSET Page
  PROVE  Cmd(kind, g, v) \in Command /\ Cmd(kind, g, v) # None
BY NoneAssumption DEF Cmd, Command, Kinds

\* What a queue of commands holds, and what is left when its first is sent.
LEMMA QueueTail ==
  ASSUME NEW kind, NEW gpus, NEW v, NEW q \in Seq(Cmds(kind, gpus, v)), q # <<>>,
         \A i, j \in DOMAIN q : q[i] = q[j] => i = j
  PROVE  \E h \in gpus :
           /\ Head(q) = Cmd(kind, h, v)
           /\ Tail(q) \in Seq(Cmds(kind, gpus, v))
           /\ \A i, j \in DOMAIN Tail(q) : Tail(q)[i] = Tail(q)[j] => i = j
           /\ InQueue(q) = InQueue(Tail(q)) \cup {h}
           /\ h \notin InQueue(Tail(q))
<1> DEFINE t == Tail(q)
           n == Len(q)
<1>1. n \in Nat \ {0} /\ DOMAIN q = 1..n
  BY EmptySeq, LenProperties
<1>2. /\ Head(q) \in Cmds(kind, gpus, v) /\ Head(q) = q[1]
      /\ t \in Seq(Cmds(kind, gpus, v)) /\ Len(t) = n - 1
      /\ \A i \in 1..(n - 1) : t[i] = q[i + 1]
  BY HeadTailProperties
<1>3. DOMAIN t = 1..(n - 1)
  BY <1>2, LenProperties
<1>4. \A i \in DOMAIN q : q[i] \in Cmds(kind, gpus, v)
  BY <1>1, ElementOfSeq
<1>5. \A i \in DOMAIN q : q[i] = Cmd(kind, q[i].gpu, v)
  BY <1>4 DEF Cmds, Cmd
<1> HIDE DEF t, n
<1>6. \A i \in DOMAIN t : i + 1 \in DOMAIN q /\ i + 1 # 1 /\ t[i] = q[i + 1]
  BY <1>1, <1>2, <1>3
<1>7. \A j \in DOMAIN q : j = 1 \/ (j - 1 \in DOMAIN t /\ t[j - 1] = q[j])
  <2> SUFFICES ASSUME NEW j \in DOMAIN q, j # 1
               PROVE  j - 1 \in DOMAIN t /\ t[j - 1] = q[j]
    OBVIOUS
  <2>1. j - 1 \in 1..(n - 1) /\ (j - 1) + 1 = j
    BY <1>1
  <2> QED  BY <2>1, <1>2, <1>3
<1>8. 1 \in DOMAIN q
  BY <1>1
<1>9. PICK h \in gpus : Head(q) = Cmd(kind, h, v)
  BY <1>2 DEF Cmds
<1>10. q[1].gpu = h
  BY <1>2, <1>9, CmdFields
<1>11. \A i, j \in DOMAIN t : t[i] = t[j] => i = j
  <2> SUFFICES ASSUME NEW i \in DOMAIN t, NEW j \in DOMAIN t, t[i] = t[j]
               PROVE  i = j
    OBVIOUS
  <2>1. i + 1 = j + 1
    BY <1>6
  <2>2. i \in Int /\ j \in Int
    BY <1>1, <1>3
  <2> QED  BY <2>1, <2>2
<1>12. InQueue(q) = InQueue(t) \cup {h}
  BY <1>6, <1>7, <1>8, <1>10 DEF InQueue
<1>13. h \notin InQueue(t)
  <2> SUFFICES ASSUME NEW i \in DOMAIN t, t[i].gpu = h PROVE FALSE
    BY DEF InQueue
  <2>1. q[i + 1] = q[1]
    BY <1>5, <1>6, <1>8, <1>10
  <2> QED  BY <2>1, <1>6, <1>8
<1> QED  BY <1>2, <1>9, <1>11, <1>12, <1>13 DEF t

\* How many GPUs there are in a set.
LEMMA CountGPUs ==
  ASSUME NEW gpus \in SUBSET GPU
  PROVE  /\ Cardinality(gpus) \in Nat
         /\ Cardinality(gpus) = 0 <=> gpus = {}
<1>1. IsFiniteSet(gpus)
  BY FiniteGPU, FS_Subset
<1> QED  BY <1>1, FS_CardinalityType, FS_EmptySet

\* ToEach makes one command for each GPU.
LEMMA ToEachQueue ==
  ASSUME NEW kind, NEW gpus \in SUBSET GPU, NEW v
  PROVE  /\ ToEach(kind, gpus, v) \in Seq(Cmds(kind, gpus, v))
         /\ \A i, j \in DOMAIN ToEach(kind, gpus, v) :
              ToEach(kind, gpus, v)[i] = ToEach(kind, gpus, v)[j] => i = j
         /\ InQueue(ToEach(kind, gpus, v)) = gpus
         /\ IsFiniteSet(gpus) /\ Cardinality(gpus) \in Nat
         /\ Cardinality(gpus) = 0 <=> gpus = {}
<1> DEFINE q == ToEach(kind, gpus, v)
           n == Cardinality(gpus)
           a == Ascending(gpus)
<1>1. IsFiniteSet(gpus) /\ gpus \in SUBSET Nat
  <2>1. IsFiniteSet(gpus)
    BY FiniteGPU, FS_Subset
  <2>2. GPU \in SUBSET Nat
    BY FiniteGPU DEF GPU
  <2> QED  BY <2>1, <2>2
<1>2. /\ n \in Nat /\ \A i \in 1 .. n : a[i] \in gpus
      /\ \A i, j \in 1 .. n : a[i] = a[j] => i = j
      /\ \A x \in gpus : \E i \in 1 .. n : a[i] = x
  BY <1>1, AscendingLists
<1>3. DOMAIN q = 1 .. n /\ \A i \in 1 .. n : q[i] = Cmd(kind, a[i], v)
  BY DEF ToEach, Cmd
<1>4. n = 0 <=> gpus = {}
  BY <1>1, FS_EmptySet
<1>5. q \in [1 .. n -> Cmds(kind, gpus, v)]
  BY <1>2 DEF ToEach, Cmds, Cmd
<1> HIDE DEF q, n, a
<1>6. q \in Seq(Cmds(kind, gpus, v))
  BY <1>2, <1>5, SeqDef
<1>7. \A i \in 1 .. n : q[i].gpu = a[i]
  BY <1>3, CmdFields
<1>8. \A i, j \in DOMAIN q : q[i] = q[j] => i = j
  BY <1>2, <1>3, <1>7
<1>9. InQueue(q) = gpus
  BY <1>2, <1>3, <1>7 DEF InQueue
<1> QED  BY <1>1, <1>2, <1>4, <1>6, <1>8, <1>9 DEF q, n

-----------------------------------------------------------------------------
(* The steps of a round.                                                   *)

\* The commands in ports are of one kind, and so are the answers.
LEMMA RoundCommands ==
  ASSUME NEW q, NEW to, NEW from, NEW kind, NEW rsp, NEW gpus, NEW v, NEW n, NEW work,
         kind \in Kinds, rsp \in Rsp, v \in SUBSET Page,
         Round(q, to, from, kind, rsp, gpus, v, n, work)
  PROVE  \A g \in GPU : to[g] # None => to[g].kind = kind
BY CmdFields DEF Round, Places

LEMMA RoundAnswers ==
  ASSUME NEW q, NEW to, NEW from, NEW kind, NEW rsp, NEW gpus, NEW v, NEW n, NEW work,
         kind \in Kinds, rsp \in Rsp, v \in SUBSET Page,
         Round(q, to, from, kind, rsp, gpus, v, n, work)
  PROVE  \A g \in GPU : from[g] # None => from[g] = rsp
BY DEF Round, Places

LEMMA RoundData ==
  ASSUME NEW q, NEW to, NEW from, NEW kind, NEW rsp, NEW gpus, NEW v, NEW n, NEW work,
         kind \in Kinds, rsp \in Rsp, v \in SUBSET Page,
         Round(q, to, from, kind, rsp, gpus, v, n, work)
  PROVE  \A g \in GPU : to[g] # None => to[g].vAddr = v /\ g \in Ordered(q, to)
BY CmdFields DEF Round, Places, Ordered

\* A round is among its GPUs, and a GPU at work has no command to come.
LEMMA RoundMembers ==
  ASSUME NEW q, NEW to, NEW from, NEW kind, NEW rsp, NEW gpus, NEW v, NEW n, NEW work,
         kind \in Kinds, rsp \in Rsp, v \in SUBSET Page,
         Round(q, to, from, kind, rsp, gpus, v, n, work)
  PROVE  /\ gpus \subseteq GPU /\ work \subseteq gpus /\ Ordered(q, to) \subseteq gpus
         /\ work \cap Ordered(q, to) = {}
BY DEF Round, Places, Ordered, Pending

\* The first command of the queue goes to the port of its GPU.
LEMMA RoundSend ==
  ASSUME NEW q, NEW to, NEW from, NEW kind \in Kinds, NEW rsp \in Rsp, NEW gpus,
         NEW v \in SUBSET Page, NEW n, NEW work,
         Round(q, to, from, kind, rsp, gpus, v, n, work),
         q # <<>>, to[Head(q).gpu] = None,
         NEW to2, to2 = [to EXCEPT ![Head(q).gpu] = Head(q)]
  PROVE  /\ Round(Tail(q), to2, from, kind, rsp, gpus, v, n, work)
         /\ Ordered(Tail(q), to2) = Ordered(q, to)
<1> USE DEF Round
<1>1. PICK h \in gpus :
        /\ Head(q) = Cmd(kind, h, v)
        /\ Tail(q) \in Seq(Cmds(kind, gpus, v))
        /\ \A i, j \in DOMAIN Tail(q) : Tail(q)[i] = Tail(q)[j] => i = j
        /\ InQueue(q) = InQueue(Tail(q)) \cup {h}
        /\ h \notin InQueue(Tail(q))
  BY QueueTail DEF Places
<1>2. Head(q).gpu = h /\ h \in GPU /\ Head(q) # None
  BY <1>1, CmdFields, CmdNotNone DEF Places
<1>3. /\ to2 \in [GPU -> Cmds(kind, GPU, v) \cup {None}] /\ to2[h] = Cmd(kind, h, v)
      /\ \A g \in GPU \ {h} : to2[g] = to[g]
  BY <1>1, <1>2 DEF Places, Cmds
<1>4. Pending(Tail(q), to2, from, work) = Pending(q, to, from, work)
  BY <1>1, <1>2, <1>3 DEF Pending
<1>5. Ordered(Tail(q), to2) = Ordered(q, to)
  BY <1>1, <1>2, <1>3 DEF Ordered
<1>6. Places(Tail(q), to2, from, kind, rsp, gpus, v, work)
  <2>1. ASSUME NEW g \in GPU
        PROVE  /\ g \in InQueue(Tail(q)) => to2[g] = None /\ g \notin work /\ from[g] = None
               /\ to2[g] # None => g \notin work /\ from[g] = None
               /\ g \in work => from[g] = None
    BY <1>1, <1>2, <1>3 DEF Places
  <2>2. \A g \in GPU : to2[g] \in {None, Cmd(kind, g, v)}
    BY <1>1, <1>2, <1>3 DEF Places
  <2> HIDE DEF Pending, InQueue
  <2> QED  BY <1>1, <1>3, <1>4, <2>1, <2>2 DEF Places
<1> QED  BY <1>4, <1>5, <1>6

\* A command is taken from a port, and its GPU has it to do.
LEMMA RoundQueue ==
  ASSUME NEW q, NEW to, NEW from, NEW kind, NEW rsp, NEW gpus, NEW v, NEW n, NEW work,
         kind \in Kinds, rsp \in Rsp, v \in SUBSET Page,
         Round(q, to, from, kind, rsp, gpus, v, n, work)
  PROVE  \A g \in GPU : to[g] # None => g \notin InQueue(q)
BY DEF Round, Places

LEMMA RoundTake ==
  ASSUME NEW q, NEW to, NEW from, NEW kind, NEW rsp, NEW gpus, NEW v, NEW n, NEW work,
         kind \in Kinds, rsp \in Rsp, v \in SUBSET Page,
         Round(q, to, from, kind, rsp, gpus, v, n, work),
         NEW g \in GPU, to[g] # None, NEW to2, to2 = [to EXCEPT ![g] = None]
  PROVE  Round(q, to2, from, kind, rsp, gpus, v, n, work \cup {g})
<1> USE DEF Round
<1>1. /\ to2 \in [GPU -> Cmds(kind, GPU, v) \cup {None}] /\ to2[g] = None
      /\ \A h \in GPU \ {g} : to2[h] = to[h]
  BY DEF Places
<1>2. Pending(q, to2, from, work \cup {g}) = Pending(q, to, from, work)
  BY <1>1 DEF Pending
<1>3. Places(q, to2, from, kind, rsp, gpus, v, work \cup {g})
  BY <1>1, <1>2 DEF Places
<1> QED  BY <1>2, <1>3

\* A GPU has done its command and answers.
LEMMA RoundAnswer ==
  ASSUME NEW q, NEW to, NEW from, NEW kind \in Kinds, NEW rsp \in Rsp, NEW gpus,
         NEW v \in SUBSET Page, NEW n, NEW work,
         Round(q, to, from, kind, rsp, gpus, v, n, work),
         NEW g \in work, NEW from2, from2 = [from EXCEPT ![g] = rsp]
  PROVE  Round(q, to, from2, kind, rsp, gpus, v, n, work \ {g})
<1> USE DEF Round
<1>1. /\ from2 \in [GPU -> {rsp, None}] /\ from2[g] = rsp
      /\ \A h \in GPU \ {g} : from2[h] = from[h]
      /\ g \in GPU /\ rsp # None
  BY NoneAssumption DEF Places
<1>2. Pending(q, to, from2, work \ {g}) = Pending(q, to, from, work)
  BY <1>1 DEF Pending
<1>3. Places(q, to, from2, kind, rsp, gpus, v, work \ {g})
  BY <1>1, <1>2 DEF Places
<1> QED  BY <1>2, <1>3

\* Answers are missing.
LEMMA RoundCount ==
  ASSUME NEW q, NEW to, NEW from, NEW kind, NEW rsp, NEW gpus, NEW v, NEW n, NEW work,
         kind \in Kinds, rsp \in Rsp, v \in SUBSET Page,
         Round(q, to, from, kind, rsp, gpus, v, n, work)
  PROVE  n \in Nat /\ n # 0
<1>1. IsFiniteSet(Pending(q, to, from, work))
  BY FiniteGPU, FS_Subset DEF Pending
<1> QED  BY <1>1, FS_CardinalityType DEF Round

\* Nothing of a round is left.
Over(q, to, from, work) ==
  /\ q = <<>> /\ work = {} /\ Ordered(q, to) = {}
  /\ to = [h \in GPU |-> None] /\ from = [h \in GPU |-> None]

\* The driver receives an answer, the last one or not.
LEMMA RoundReceive ==
  ASSUME NEW q, NEW to, NEW from, NEW kind \in Kinds, NEW rsp \in Rsp, NEW gpus,
         NEW v \in SUBSET Page, NEW n, NEW work,
         Round(q, to, from, kind, rsp, gpus, v, n, work),
         NEW g \in GPU, from[g] # None, NEW from2, from2 = [from EXCEPT ![g] = None]
  PROVE  /\ n - 1 # 0 => Round(q, to, from2, kind, rsp, gpus, v, n - 1, work)
         /\ n - 1 = 0 => Over(q, to, from2, work)
<1> DEFINE P == Pending(q, to, from, work)
           P2 == Pending(q, to, from2, work)
<1>1. /\ from2 \in [GPU -> {rsp, None}] /\ from2[g] = None
      /\ \A h \in GPU \ {g} : from2[h] = from[h]
  BY DEF Round, Places
<1>2. g \notin InQueue(q) /\ to[g] = None /\ g \notin work
  BY DEF Round, Places
<1>3. P2 = P \ {g} /\ g \in P
  BY <1>1, <1>2 DEF Pending
<1>4. IsFiniteSet(P)
  BY FiniteGPU, FS_Subset DEF Pending
<1>5. n = Cardinality(P) /\ n # 0
  BY DEF Round
<1> HIDE DEF P, P2
<1>6. Cardinality(P2) = n - 1 /\ n \in Nat /\ Cardinality(P2) \in Nat /\ IsFiniteSet(P2)
  BY <1>3, <1>4, <1>5, FS_RemoveElement, FS_CardinalityType
<1>7. Places(q, to, from2, kind, rsp, gpus, v, work)
  <2>1. P2 \subseteq gpus
    BY <1>3 DEF Round, Places, P
  <2> QED  BY <1>1, <2>1 DEF Round, Places, P2
<1>8. ASSUME n - 1 = 0
      PROVE  /\ q = <<>> /\ work = {} /\ Ordered(q, to) = {}
             /\ to = [h \in GPU |-> None] /\ from2 = [h \in GPU |-> None]
  <2>1. P2 = {}
    BY <1>6, <1>8, FS_EmptySet
  <2>2. \A h \in GPU : h \notin InQueue(q) /\ to[h] = None /\ h \notin work /\ from2[h] = None
    BY <2>1 DEF P2, Pending
  <2>3. q = <<>>
    <3> SUFFICES ASSUME q # <<>> PROVE FALSE
      OBVIOUS
    <3>1. \E h \in gpus : InQueue(q) = InQueue(Tail(q)) \cup {h}
      BY QueueTail DEF Round, Places
    <3> QED  BY <2>2, <3>1 DEF Round, Places
  <2>4. work = {} /\ Ordered(q, to) = {}
    BY <2>2 DEF Round, Places, Ordered
  <2> QED  BY <1>1, <2>2, <2>3, <2>4 DEF Round, Places
<1> QED  BY <1>5, <1>6, <1>7, <1>8 DEF Round, P2, Over

\* A round starts when nothing is on its way.
LEMMA RoundStart ==
  ASSUME NEW kind \in Kinds, NEW rsp \in Rsp, NEW gpus \in SUBSET GPU, gpus # {},
         NEW v \in SUBSET Page, NEW q, q = ToEach(kind, gpus, v),
         NEW to, to = [g \in GPU |-> None], NEW from, from = [g \in GPU |-> None]
  PROVE  /\ Round(q, to, from, kind, rsp, gpus, v, Cardinality(gpus), {})
         /\ Ordered(q, to) = gpus
<1>1. /\ q \in Seq(Cmds(kind, gpus, v))
      /\ \A i, j \in DOMAIN q : q[i] = q[j] => i = j
      /\ InQueue(q) = gpus /\ Cardinality(gpus) # 0
  BY ToEachQueue, ZenonT(60)
<1>2. Pending(q, to, from, {}) = gpus /\ Ordered(q, to) = gpus
  BY <1>1 DEF Pending, Ordered
<1>3. Places(q, to, from, kind, rsp, gpus, v, {})
  BY <1>1, <1>2 DEF Places
<1> QED  BY <1>1, <1>2, <1>3 DEF Round

-----------------------------------------------------------------------------
(* The phases of a migration.                                              *)

phaseVars == <<cntVars, flagVars, requestsToSend, migrationReqToSendToCP, toCP,
               fromCP, stage, rdma, pmc>>

\* A phase depends on nothing else.
LEMMA PhaseUnchanged == PhaseInv /\ UNCHANGED phaseVars => PhaseInv'
<1> SUFFICES ASSUME PhaseInv, UNCHANGED phaseVars  PROVE PhaseInv'
  OBVIOUS
<1> USE DEF phaseVars, cntVars, flagVars
<1>1. /\ (NoOrders)' = NoOrders /\ (NoCopies)' = NoCopies
      /\ Draining' = Draining /\ Flushing' = Flushing /\ Restarting' = Restarting
      /\ Accessing' = Accessing /\ Handling' = Handling /\ AllPaused' = AllPaused
  BY DEF NoOrders, NoCopies, Draining, Flushing, Restarting, Accessing, Handling,
         AllPaused
<1>2. Idle => Idle'
  BY <1>1 DEF Idle
<1>3. DrainPhase => DrainPhase'
  BY <1>1 DEF DrainPhase
<1>4. ShootPhase => ShootPhase'
  BY <1>1 DEF ShootPhase
<1>5. CopyPhase => CopyPhase'
  BY <1>1 DEF CopyPhase, OneUnderWay
<1>6. RestartPhase => RestartPhase'
  BY <1>1 DEF RestartPhase
<1>7. RDMARestartPhase => RDMARestartPhase'
  BY <1>1 DEF RDMARestartPhase
<1> QED  BY <1>2, <1>3, <1>4, <1>5, <1>6, <1>7 DEF PhaseInv

\* The commands and their answers.
LEMMA KindNames ==
  /\ "drain" \in Kinds /\ "shootdown" \in Kinds /\ "restart" \in Kinds
  /\ "rdmaRestart" \in Kinds
  /\ "drainRsp" \in Rsp /\ "shootdownRsp" \in Rsp /\ "restartRsp" \in Rsp
  /\ "rdmaRestartRsp" \in Rsp /\ "migrateRsp" \in Rsp
  /\ None \notin Rsp
BY NoneAssumption DEF Kinds, Rsp

\* What each phase lets be under way at a GPU.
LEMMA UnderWay ==
  ASSUME TypeInv, NEW g \in GPU
  PROVE  /\ Idle => /\ toCP[g] = None /\ fromCP[g] = None /\ pmc[g] = None
                    /\ stage[g] = "run" /\ rdma[g] = "run"
         /\ DrainPhase => /\ toCP[g] # None => toCP[g].kind = "drain"
                          /\ fromCP[g] # None => fromCP[g] = "drainRsp" /\ pmc[g] = None
                          /\ stage[g] = "run"
         /\ ShootPhase => /\ toCP[g] # None => toCP[g].kind = "shootdown"
                          /\ fromCP[g] # None => fromCP[g] = "shootdownRsp" /\ pmc[g] = None
                          /\ g \in Flushing \/ stage[g] \in {"run", "stopped"}
                          /\ rdma[g] = "paused"
         /\ CopyPhase => /\ toCP[g] # None => toCP[g].kind = "migrate"
                         /\ fromCP[g] # None => fromCP[g] = "migrateRsp"
                         /\ stage[g] \in {"run", "stopped"} /\ rdma[g] = "paused"
         /\ RestartPhase => /\ toCP[g] # None => toCP[g].kind = "restart"
                            /\ fromCP[g] # None => fromCP[g] = "restartRsp" /\ pmc[g] = None
                            /\ g \in Restarting \/ stage[g] \in {"run", "stopped"}
                            /\ rdma[g] = "paused"
         /\ RDMARestartPhase => /\ toCP[g] # None => toCP[g].kind = "rdmaRestart"
                                /\ fromCP[g] # None => fromCP[g] = "rdmaRestartRsp" /\ pmc[g] = None
                                /\ stage[g] = "run" /\ rdma[g] \in {"run", "paused"}
<1> USE KindNames
<1>1. Idle => /\ toCP[g] = None /\ fromCP[g] = None /\ pmc[g] = None
              /\ stage[g] = "run" /\ rdma[g] = "run"
  BY DEF Idle, NoOrders, NoCopies
<1>2. DrainPhase => /\ toCP[g] # None => toCP[g].kind = "drain"
                    /\ fromCP[g] # None => fromCP[g] = "drainRsp" /\ pmc[g] = None
                    /\ stage[g] = "run"
  BY RoundCommands, RoundAnswers DEF DrainPhase, NoCopies
<1>3. currentPageMigrationReq \in MigrationReq => Wanted(currentPageMigrationReq) \in SUBSET Page
  BY DEF Wanted
<1>4. ShootPhase => /\ toCP[g] # None => toCP[g].kind = "shootdown"
                    /\ fromCP[g] # None => fromCP[g] = "shootdownRsp" /\ pmc[g] = None
                    /\ g \in Flushing \/ stage[g] \in {"run", "stopped"}
                    /\ rdma[g] = "paused"
  <2> SUFFICES ASSUME ShootPhase
               PROVE  /\ toCP[g] # None => toCP[g].kind = "shootdown"
                      /\ fromCP[g] # None => fromCP[g] = "shootdownRsp" /\ pmc[g] = None
                      /\ g \in Flushing \/ stage[g] \in {"run", "stopped"}
                      /\ rdma[g] = "paused"
    OBVIOUS
  <2>1. Wanted(currentPageMigrationReq) \in SUBSET Page
    BY <1>3 DEF ShootPhase, Handling, GoodReq
  <2>2. Round(requestsToSend, toCP, fromCP, "shootdown", "shootdownRsp", Accessing,
              Wanted(currentPageMigrationReq), numShootDownACK, Flushing)
    BY DEF ShootPhase
  <2>3. /\ toCP[g] # None => toCP[g].kind = "shootdown"
        /\ fromCP[g] # None => fromCP[g] = "shootdownRsp"
    BY <2>1, <2>2, RoundCommands, RoundAnswers
  <2> QED  BY <2>3 DEF ShootPhase, NoCopies, AllPaused
<1>5. CopyPhase => /\ toCP[g] # None => toCP[g].kind = "migrate"
                   /\ fromCP[g] # None => fromCP[g] = "migrateRsp"
                   /\ stage[g] \in {"run", "stopped"} /\ rdma[g] = "paused"
  BY DEF CopyPhase, OneUnderWay, AllPaused, CopyReq
<1>6. RestartPhase => /\ toCP[g] # None => toCP[g].kind = "restart"
                      /\ fromCP[g] # None => fromCP[g] = "restartRsp" /\ pmc[g] = None
                      /\ g \in Restarting \/ stage[g] \in {"run", "stopped"}
                      /\ rdma[g] = "paused"
  BY RoundCommands, RoundAnswers DEF RestartPhase, NoCopies, AllPaused
<1>7. RDMARestartPhase => /\ toCP[g] # None => toCP[g].kind = "rdmaRestart"
                          /\ fromCP[g] # None => fromCP[g] = "rdmaRestartRsp" /\ pmc[g] = None
                          /\ stage[g] = "run" /\ rdma[g] \in {"run", "paused"}
  <2> SUFFICES ASSUME RDMARestartPhase
               PROVE  /\ toCP[g] # None => toCP[g].kind = "rdmaRestart"
                      /\ fromCP[g] # None => fromCP[g] = "rdmaRestartRsp" /\ pmc[g] = None
                      /\ stage[g] = "run" /\ rdma[g] \in {"run", "paused"}
    OBVIOUS
  <2>1. Round(requestsToSend, toCP, fromCP, "rdmaRestart", "rdmaRestartRsp", GPU, {},
              numRDMARestartACK, {})
    BY DEF RDMARestartPhase
  <2>2. /\ toCP[g] # None => toCP[g].kind = "rdmaRestart"
        /\ fromCP[g] # None => fromCP[g] = "rdmaRestartRsp"
    BY <2>1, RoundCommands, RoundAnswers
  <2> QED  BY <2>2 DEF RDMARestartPhase, NoCopies
<1> QED  BY <1>1, <1>2, <1>4, <1>5, <1>6, <1>7

\* What is under way at a GPU tells the phase.
LEMMA PhaseOf ==
  ASSUME TypeInv, PhaseInv, NEW g \in GPU
  PROVE  /\ toCP[g] # None =>
              /\ toCP[g].kind = "drain" => DrainPhase
              /\ toCP[g].kind = "shootdown" => ShootPhase
              /\ toCP[g].kind = "migrate" => CopyPhase
              /\ toCP[g].kind = "restart" => RestartPhase
              /\ toCP[g].kind = "rdmaRestart" => RDMARestartPhase
         /\ fromCP[g] = "drainRsp" => DrainPhase
         /\ fromCP[g] = "shootdownRsp" => ShootPhase
         /\ fromCP[g] = "migrateRsp" => CopyPhase
         /\ fromCP[g] = "restartRsp" => RestartPhase
         /\ fromCP[g] = "rdmaRestartRsp" => RDMARestartPhase
         /\ g \in Flushing => ShootPhase
         /\ g \in Restarting => RestartPhase
         /\ rdma[g] = "draining" => DrainPhase
         /\ pmc[g] # None => CopyPhase
         /\ None \notin Rsp
<1> HIDE DEF Idle, DrainPhase, ShootPhase, CopyPhase, RestartPhase, RDMARestartPhase
<1>1. g \in Flushing => stage[g] \notin {"run", "stopped"} /\ g \notin Restarting
  BY DEF Flushing, Restarting
<1>2. g \in Restarting => stage[g] \notin {"run", "stopped"} /\ g \notin Flushing
  BY DEF Flushing, Restarting
<1>3. None \notin Rsp
  BY NoneAssumption
<1>4. PICK ph \in 1 .. 6 : /\ ph = 1 => Idle
                           /\ ph = 2 => DrainPhase
                           /\ ph = 3 => ShootPhase
                           /\ ph = 4 => CopyPhase
                           /\ ph = 5 => RestartPhase
                           /\ ph = 6 => RDMARestartPhase
  BY DEF PhaseInv
<1>5. toCP[g] # None => /\ toCP[g].kind = "drain" => DrainPhase
                        /\ toCP[g].kind = "shootdown" => ShootPhase
                        /\ toCP[g].kind = "migrate" => CopyPhase
                        /\ toCP[g].kind = "restart" => RestartPhase
                        /\ toCP[g].kind = "rdmaRestart" => RDMARestartPhase
  BY <1>4, UnderWay
<1>6. /\ fromCP[g] = "drainRsp" => DrainPhase
      /\ fromCP[g] = "shootdownRsp" => ShootPhase
      /\ fromCP[g] = "migrateRsp" => CopyPhase
      /\ fromCP[g] = "restartRsp" => RestartPhase
      /\ fromCP[g] = "rdmaRestartRsp" => RDMARestartPhase
  <2>1. \A r \in Rsp : fromCP[g] = r => fromCP[g] # None
    BY <1>3
  <2> QED  BY <1>4, <2>1, UnderWay, KindNames
<1>7. g \in Flushing => ShootPhase
  BY <1>1, <1>4, UnderWay
<1>8. g \in Restarting => RestartPhase
  BY <1>2, <1>4, UnderWay
<1>9. rdma[g] = "draining" => DrainPhase
  BY <1>4, UnderWay
<1>10. pmc[g] # None => CopyPhase
  <2>1. NoCopies => pmc[g] = None
    BY DEF NoCopies
  <2>2. PhaseInv => NoCopies \/ CopyPhase
    BY DEF PhaseInv, Idle, DrainPhase, ShootPhase, RestartPhase, RDMARestartPhase
  <2> QED  BY <2>1, <2>2
<1> QED  BY <1>3, <1>5, <1>6, <1>7, <1>8, <1>9, <1>10

\* In the middle of a migration nothing waits in an RDMA engine.
LEMMA EnginesPaused ==
  ASSUME TypeInv, PhaseInv, RDMAInv, NEW g \in GPU
  PROVE  g \in Flushing \/ g \in Restarting =>
           \A h \in GPU : rdma[h] = "paused" /\ flight[h] = None
<1>1. g \in Flushing \/ g \in Restarting => AllPaused
  BY PhaseOf DEF ShootPhase, RestartPhase
<1> QED  BY <1>1 DEF AllPaused, RDMAInv

-----------------------------------------------------------------------------
(* The accesses to memory and the MMU, which leave the phase as it is.     *)

\* What the other parts of the invariant depend on.
LEMMA RDMAUnchanged == RDMAInv /\ UNCHANGED rdmaVars => RDMAInv'
BY DEF RDMAInv, RemoteAccessKept, rdmaVars

LEMMA MMUUnchanged ==
  MMUInv /\ UNCHANGED <<mmuPort, mmuRsp, isDoingMigration, toSendToMMU, numRDMADrainACK,
                        numShootDownACK, numPagesMigratingACK>> => MMUInv'
BY DEF MMUInv, BeforeCopies, GoodReq, Wanted

LEMMA TranslationUnchanged ==
  TranslationInv /\ UNCHANGED <<tlb, pageTable, isMigrating, mmuPort, currentPageMigrationReq,
                                numRDMADrainACK, numShootDownACK, cpVars>>
    => TranslationInv'
BY DEF TranslationInv, TranslationsCurrent, Blocked, BeforeCopies, Wanted, Flushing, cpVars

LEMMA StutterIInv == IInv /\ UNCHANGED vars => IInv'
<1> SUFFICES ASSUME IInv, UNCHANGED vars  PROVE IInv'
  OBVIOUS
<1> USE DEF vars, drvVars, mmuVars, pageVars, linkVars, gpuVars, cpVars, memVars, cntVars,
            flagVars, sendVars
<1>1. TypeInv'
  BY DEF IInv, TypeInv, rdmaVars
<1>2. PhaseInv'
  BY PhaseUnchanged DEF IInv, phaseVars, rdmaVars
<1>3. RDMAInv' /\ MMUInv' /\ TranslationInv'
  BY RDMAUnchanged, MMUUnchanged, TranslationUnchanged DEF IInv
<1> QED  BY <1>1, <1>2, <1>3 DEF IInv

\* A TLB takes a translation: the page is not to move.
LEMMA TranslateIInv ==
  ASSUME NEW g \in GPU, NEW p \in Page
  PROVE  IInv /\ Translate(g, p) => IInv'
<1> SUFFICES ASSUME IInv, Translate(g, p)  PROVE IInv'
  OBVIOUS
<1> USE DEF Translate, drvVars, mmuVars, pageVars, linkVars, gpuVars, cpVars, cntVars,
            flagVars, sendVars
<1>1. TypeInv'
  BY DEF IInv, TypeInv, rdmaVars
<1>2. PhaseInv'
  BY PhaseUnchanged DEF IInv, phaseVars, rdmaVars
<1>3. RDMAInv' /\ MMUInv'
  BY RDMAUnchanged, MMUUnchanged DEF IInv
<1>4. /\ tlb'[g][p] = pageTable[p]
      /\ \A h \in GPU, q \in Page : tlb'[h][q] = tlb[h][q] \/ (h = g /\ q = p)
  BY DEF IInv, TypeInv
<1>5. TranslationInv'
  <2>1. TranslationsCurrent'
    BY <1>4 DEF IInv, TranslationInv, TranslationsCurrent
  <2>2. ASSUME NEW r, Blocked(r)  PROVE Blocked(r)'
    BY <1>4, <2>2 DEF Blocked, Wanted
  <2>3. mmuPort # None => Blocked(mmuPort)'
    BY <2>2 DEF IInv, TranslationInv
  <2>4. BeforeCopies => Blocked(currentPageMigrationReq)'
    BY <2>2 DEF IInv, TranslationInv
  <2>5. ASSUME numShootDownACK # 0, NEW h \in GPU, stage[h] = "stopped",
               NEW q \in Wanted(currentPageMigrationReq)
        PROVE  tlb'[h][q] = None
    <3>1. h # g /\ q \in Page
      BY <2>5 DEF Wanted
    <3> QED  BY <1>4, <2>5, <3>1 DEF IInv, TranslationInv
  <2>6. /\ Wanted(currentPageMigrationReq)' = Wanted(currentPageMigrationReq)
        /\ BeforeCopies' = BeforeCopies /\ Flushing' = Flushing
        /\ stage' = stage /\ currShootdownRequest' = currShootdownRequest
    BY DEF Wanted, BeforeCopies, Flushing
  <2>7. /\ mmuPort' = mmuPort /\ currentPageMigrationReq' = currentPageMigrationReq
        /\ numShootDownACK' = numShootDownACK
    OBVIOUS
  <2> HIDE DEF Translate
  <2> QED  BY <2>1, <2>3, <2>4, <2>5, <2>6, <2>7 DEF IInv, TranslationInv
<1> QED  BY <1>1, <1>2, <1>3, <1>5 DEF IInv

\* A write to a local frame, or one that leaves for another GPU.
LEMMA WriteIInv ==
  ASSUME NEW g \in GPU, NEW p \in Page
  PROVE  IInv /\ (WriteLocal(g, p) \/ WriteRemote(g, p)) => IInv'
<1> SUFFICES ASSUME IInv, WriteLocal(g, p) \/ WriteRemote(g, p)  PROVE IInv'
  OBVIOUS
<1> USE DEF WriteLocal, WriteRemote, drvVars, mmuVars, pageVars, linkVars, gpuVars, cpVars,
            cntVars, flagVars, sendVars, rdmaVars
<1>1. TypeInv'
  BY DEF IInv, TypeInv
<1>2. PhaseInv'
  BY PhaseUnchanged DEF IInv, phaseVars
<1>3. MMUInv' /\ TranslationInv'
  BY MMUUnchanged, TranslationUnchanged DEF IInv
<1>4. RDMAInv'
  BY DEF IInv, RDMAInv, RemoteAccessKept
<1> QED  BY <1>1, <1>2, <1>3, <1>4 DEF IInv

\* An engine that runs forwards a request, or one is answered.
LEMMA MemoryStepIInv ==
  ASSUME NEW g \in GPU
  PROVE  IInv /\ MemoryStep(g) => IInv'
<1> SUFFICES ASSUME IInv, MemoryStep(g)  PROVE IInv'
  OBVIOUS
<1> USE DEF MemoryStep, ProcessReqFromL1, Serve, drvVars, mmuVars, pageVars, linkVars,
            gpuVars, cpVars, memVars, cntVars, flagVars, sendVars
<1>1. TypeInv'
  BY DEF IInv, TypeInv
<1>2. PhaseInv'
  BY PhaseUnchanged DEF IInv, phaseVars
<1>3. MMUInv' /\ TranslationInv'
  BY MMUUnchanged, TranslationUnchanged DEF IInv
<1>4. RDMAInv'
  <2>1. /\ rdma' = rdma /\ DOMAIN flight = GPU
        /\ \A h \in GPU : rdma[h] = "paused" => flight[h] = None
        /\ \A h \in GPU : flight[h] # None => h \in carried
    BY DEF IInv, TypeInv, RDMAInv, RemoteAccessKept
  <2>2. CASE ProcessReqFromL1(g)
    BY <2>1, <2>2 DEF RDMAInv, RemoteAccessKept
  <2>3. CASE Serve(g)
    BY <2>1, <2>3 DEF RDMAInv, RemoteAccessKept
  <2> QED  BY <2>2, <2>3 DEF MemoryStep
<1> QED  BY <1>1, <1>2, <1>3, <1>4 DEF IInv

\* The MMU asks for pages: it gives no translation of them any more, and
\* names every GPU that has one.
LEMMA RequestMigrationIInv == IInv /\ RequestMigration => IInv'
<1> SUFFICES ASSUME IInv, RequestMigration  PROVE IInv'
  OBVIOUS
<1> USE DEF drvVars, linkVars, gpuVars, memVars, cntVars, flagVars, sendVars
<1>1. PICK want \in [Page -> GPU \cup {None}], host \in GPU :
        LET pages == {p \in Page : want[p] # None}
        IN  /\ pages # {}
            /\ mmuPort' =
                 [want |-> want, host |-> host,
                  accessing |-> {host} \cup
                     {g \in GPU : \E p \in pages : tlb[g][p] # None}]
            /\ isMigrating' = [p \in Page |-> isMigrating[p] \/ p \in pages]
  BY DEF RequestMigration
<1>2. /\ ~ isDoingMigration /\ mmuPort = None /\ isDoingMigration'
      /\ UNCHANGED <<drvVars, mmuRsp, pageTable, allocated, linkVars, gpuVars, memVars>>
  BY DEF RequestMigration
<1>3. GoodReq(mmuPort')
  BY <1>1 DEF GoodReq, MigrationReq, Wanted
<1>4. Blocked(mmuPort)'
  BY <1>1, <1>2 DEF Blocked, Wanted
<1>5. ~ BeforeCopies /\ numPagesMigratingACK = 0 /\ toSendToMMU = None /\ mmuRsp = None
  BY <1>2 DEF IInv, MMUInv
<1>6. TypeInv'
  BY <1>1, <1>2 DEF IInv, TypeInv, cpVars, rdmaVars
<1>7. PhaseInv'
  BY <1>2, PhaseUnchanged DEF IInv, phaseVars, cpVars, rdmaVars
<1>8. RDMAInv'
  BY <1>2, RDMAUnchanged DEF IInv
<1>9. MMUInv'
  BY <1>2, <1>3, <1>5 DEF MMUInv, BeforeCopies
<1>10. TranslationInv'
  <2>1. TranslationsCurrent'
    BY <1>2 DEF IInv, TranslationInv, TranslationsCurrent
  <2>2. ~ BeforeCopies' /\ numShootDownACK' = 0
    BY <1>2, <1>5 DEF BeforeCopies
  <2> QED  BY <1>4, <2>1, <2>2 DEF TranslationInv
<1> QED  BY <1>6, <1>7, <1>8, <1>9, <1>10 DEF IInv

\* The answer of the driver reaches the MMU.
LEMMA MigrationReturnIInv == IInv /\ MigrationReturn => IInv'
<1> SUFFICES ASSUME IInv, MigrationReturn  PROVE IInv'
  OBVIOUS
<1> USE DEF MigrationReturn, drvVars, linkVars, gpuVars, memVars, cntVars, flagVars, sendVars
<1>1. /\ ~ BeforeCopies /\ numPagesMigratingACK = 0 /\ toSendToMMU = None /\ mmuPort = None
  BY DEF IInv, MMUInv
<1>2. TypeInv'
  BY DEF IInv, TypeInv, cpVars, rdmaVars
<1>3. PhaseInv'
  BY PhaseUnchanged DEF IInv, phaseVars, cpVars, rdmaVars
<1>4. RDMAInv'
  BY RDMAUnchanged DEF IInv
<1>5. MMUInv'
  BY <1>1 DEF MMUInv, BeforeCopies
<1>6. TranslationInv'
  <2>1. TranslationsCurrent'
    BY DEF IInv, TranslationInv, TranslationsCurrent
  <2>2. ~ BeforeCopies' /\ numShootDownACK' = 0 /\ mmuPort' = None
    BY <1>1 DEF BeforeCopies
  <2> QED  BY <2>1, <2>2 DEF TranslationInv
<1> QED  BY <1>2, <1>3, <1>4, <1>5, <1>6 DEF IInv

LEMMA SendToMMUIInv == IInv /\ SendToMMU => IInv'
<1> SUFFICES ASSUME IInv, SendToMMU  PROVE IInv'
  OBVIOUS
<1> USE DEF SendToMMU, linkVars, gpuVars, memVars, cntVars, flagVars, pageVars
<1>1. TypeInv'
  BY DEF IInv, TypeInv, cpVars, rdmaVars
<1>2. PhaseInv'
  BY PhaseUnchanged DEF IInv, phaseVars, cpVars, rdmaVars
<1>3. RDMAInv' /\ TranslationInv'
  BY RDMAUnchanged, TranslationUnchanged DEF IInv
<1>4. MMUInv'
  BY DEF IInv, MMUInv, BeforeCopies
<1> QED  BY <1>1, <1>2, <1>3, <1>4 DEF IInv

-----------------------------------------------------------------------------
(* The driver.                                                             *)

\* The first command of the queue leaves, in whatever round it is.
LEMMA SendToGPUsIInv == IInv /\ SendToGPUs => IInv'
<1> SUFFICES ASSUME IInv, SendToGPUs  PROVE IInv'
  OBVIOUS
<1> USE DEF mmuVars, pageVars, gpuVars, memVars, cntVars, flagVars
<1>1. /\ requestsToSend # <<>> /\ toCP[Head(requestsToSend).gpu] = None
      /\ toCP' = [toCP EXCEPT ![Head(requestsToSend).gpu] = Head(requestsToSend)]
      /\ requestsToSend' = Tail(requestsToSend)
      /\ UNCHANGED <<cntVars, flagVars, migrationReqToSendToCP, toSendToMMU,
                     mmuVars, pageVars, fromCP, gpuVars, memVars>>
  BY DEF SendToGPUs
<1>2. TypeInv'
  <2>1. requestsToSend' \in Seq(Command) /\ Head(requestsToSend) \in Command
    BY <1>1, HeadTailProperties DEF IInv, TypeInv
  <2> QED  BY <1>1, <2>1 DEF IInv, TypeInv, cpVars, rdmaVars
<1>3. PhaseInv'
  <2> USE <1>1, KindNames DEF cpVars, rdmaVars
  <2>1. /\ (NoCopies)' = NoCopies /\ AllPaused' = AllPaused /\ Handling' = Handling
        /\ Draining' = Draining /\ Flushing' = Flushing /\ Restarting' = Restarting
        /\ Accessing' = Accessing
        /\ Wanted(currentPageMigrationReq)' = Wanted(currentPageMigrationReq)
    BY DEF NoCopies, AllPaused, Handling, Draining, Flushing, Restarting, Accessing, Wanted
  <2>2. CASE DrainPhase
    <3>1. /\ Round(requestsToSend, toCP, fromCP, "drain", "drainRsp", GPU, {},
                   numRDMADrainACK, Draining)'
          /\ Ordered(requestsToSend, toCP)' = Ordered(requestsToSend, toCP)
      BY <2>1, <2>2, RoundSend DEF DrainPhase
    <3> QED  BY <2>1, <2>2, <3>1 DEF DrainPhase, PhaseInv
  <2>3. CASE ShootPhase
    <3>1. Wanted(currentPageMigrationReq) \in SUBSET Page
      BY DEF Wanted
    <3>2. /\ Round(requestsToSend, toCP, fromCP, "shootdown", "shootdownRsp", Accessing,
                   Wanted(currentPageMigrationReq), numShootDownACK, Flushing)'
          /\ Ordered(requestsToSend, toCP)' = Ordered(requestsToSend, toCP)
      BY <2>1, <2>3, <3>1, RoundSend, ZenonT(60) DEF ShootPhase
    <3> QED  BY <2>1, <2>3, <3>2 DEF ShootPhase, PhaseInv
  <2>4. CASE RestartPhase
    <3>1. /\ Round(requestsToSend, toCP, fromCP, "restart", "restartRsp", Accessing, {},
                   numRestartACK, Restarting)'
          /\ Ordered(requestsToSend, toCP)' = Ordered(requestsToSend, toCP)
      BY <2>1, <2>4, RoundSend, ZenonT(60) DEF RestartPhase
    <3> QED  BY <2>1, <2>4, <3>1 DEF RestartPhase, PhaseInv
  <2>5. CASE RDMARestartPhase
    <3>1. /\ Round(requestsToSend, toCP, fromCP, "rdmaRestart", "rdmaRestartRsp", GPU, {},
                   numRDMARestartACK, {})'
          /\ Ordered(requestsToSend, toCP)' = Ordered(requestsToSend, toCP)
      BY <2>1, <2>5, RoundSend, ZenonT(60) DEF RDMARestartPhase
    <3> QED  BY <2>1, <2>5, <3>1 DEF RDMARestartPhase, PhaseInv
  <2>6. ~ Idle /\ ~ CopyPhase
    BY DEF Idle, NoOrders, CopyPhase
  <2> QED  BY <2>2, <2>3, <2>4, <2>5, <2>6 DEF IInv, PhaseInv
<1>4. RDMAInv' /\ MMUInv' /\ TranslationInv'
  BY <1>1, RDMAUnchanged, MMUUnchanged, TranslationUnchanged DEF IInv
<1> QED  BY <1>2, <1>3, <1>4 DEF IInv

\* A request of the MMU: every engine is drained.
LEMMA ParseFromMMUIInv == IInv /\ ParseFromMMU => IInv'
<1> SUFFICES ASSUME IInv, ParseFromMMU  PROVE IInv'
  OBVIOUS
<1> USE DEF pageVars, linkVars, gpuVars, memVars, cpVars, rdmaVars
<1>1. /\ ~ isCurrentlyHandlingMigrationReq /\ mmuPort # None /\ mmuPort' = None
      /\ currentPageMigrationReq' = mmuPort /\ isCurrentlyHandlingMigrationReq' = TRUE
      /\ requestsToSend' = requestsToSend \o ToEach("drain", GPU, {})
      /\ numRDMADrainACK' = numRDMADrainACK + NumGPUs
      /\ UNCHANGED <<isCurrentlyMigratingOnePage, numShootDownACK, numPagesMigratingACK,
                     numRestartACK, numRDMARestartACK, migrationReqToSendToCP, toSendToMMU,
                     mmuRsp, isDoingMigration, pageVars, linkVars, gpuVars, memVars>>
  BY DEF ParseFromMMU
<1>2. Idle
  BY <1>1 DEF IInv, PhaseInv, DrainPhase, ShootPhase, CopyPhase, RestartPhase,
              RDMARestartPhase, Handling
<1>3. GoodReq(mmuPort) /\ GPU # {}
  BY <1>1 DEF IInv, MMUInv, GoodReq, MigrationReq
<1>4. /\ requestsToSend = <<>> /\ requestsToSend' = ToEach("drain", GPU, {})
      /\ toCP = [g \in GPU |-> None] /\ fromCP = [g \in GPU |-> None]
      /\ numRDMADrainACK' = Cardinality(GPU)
  <2>1. requestsToSend = <<>> /\ numRDMADrainACK = 0
    BY <1>2 DEF Idle, NoOrders
  <2>2. ToEach("drain", GPU, {}) \in Seq(Cmds("drain", GPU, {}))
    BY ToEachQueue
  <2>3. requestsToSend' = ToEach("drain", GPU, {})
    BY <1>1, <2>1, <2>2, ConcatSimplifications
  <2>4. numRDMADrainACK' = Cardinality(GPU)
    BY <1>1, <2>1, FiniteGPU
  <2> QED  BY <1>2, <2>1, <2>3, <2>4 DEF Idle, NoOrders
<1>5. /\ Round(requestsToSend', toCP', fromCP', "drain", "drainRsp", GPU, {},
               numRDMADrainACK', {})
      /\ Ordered(requestsToSend', toCP') = GPU
  <2>1. {} \in SUBSET Page /\ GPU \in SUBSET GPU /\ toCP' = toCP /\ fromCP' = fromCP
    BY <1>1
  <2> HIDE DEF linkVars
  <2> QED  BY <1>3, <1>4, <2>1, KindNames, RoundStart
<1>6. Draining' = {} /\ (NoCopies)' /\ Handling'
  <2>1. Draining' = {}
    BY <1>1, <1>2 DEF Draining, Idle
  <2>2. (NoCopies)'
    BY <1>1, <1>2 DEF NoCopies, Idle
  <2>3. Handling'
    BY <1>1, <1>3 DEF Handling, GoodReq, Wanted
  <2> QED  BY <2>1, <2>2, <2>3
<1>7. DrainPhase'
  BY <1>1, <1>2, <1>5, <1>6 DEF Idle, DrainPhase
<1>8. TypeInv'
  <2>1. requestsToSend' \in Seq(Command)
    <3>1. Cmds("drain", GPU, {}) \subseteq Command
      BY CmdNotNone, KindNames DEF Cmds
    <3>2. ToEach("drain", GPU, {}) \in Seq(Cmds("drain", GPU, {}))
      BY ToEachQueue
    <3> QED  BY <1>4, <3>1, <3>2, SeqMonotonic
  <2>2. numRDMADrainACK' \in Nat
    BY <1>4, FiniteGPU
  <2> QED  BY <1>1, <2>1, <2>2 DEF IInv, TypeInv
<1>9. RDMAInv'
  BY <1>1, RDMAUnchanged DEF IInv
<1>10. MMUInv'
  BY <1>1, <1>3 DEF IInv, MMUInv, BeforeCopies, GoodReq, Wanted
<1>11. TranslationInv'
  <2>1. TranslationsCurrent'
    BY <1>1 DEF IInv, TranslationInv, TranslationsCurrent
  <2>2. Blocked(currentPageMigrationReq)'
    BY <1>1 DEF IInv, TranslationInv, Blocked, Wanted
  <2>3. numShootDownACK' = 0 /\ mmuPort' = None
    BY <1>1, <1>2 DEF Idle
  <2> QED  BY <2>1, <2>2, <2>3 DEF TranslationInv
<1> QED  BY <1>7, <1>8, <1>9, <1>10, <1>11 DEF IInv, PhaseInv

\* One page at a time.
LEMMA SendMigrationReqToCPIInv == IInv /\ SendMigrationReqToCP => IInv'
<1> SUFFICES ASSUME IInv, SendMigrationReqToCP  PROVE IInv'
  OBVIOUS
<1> DEFINE req == Head(migrationReqToSendToCP)
<1> USE DEF mmuVars, pageVars, gpuVars, memVars, cntVars, cpVars, rdmaVars
<1>1. /\ migrationReqToSendToCP # <<>> /\ ~ isCurrentlyMigratingOnePage
      /\ toCP[req.gpu] = None /\ toCP' = [toCP EXCEPT ![req.gpu] = req]
      /\ migrationReqToSendToCP' = Tail(migrationReqToSendToCP)
      /\ isCurrentlyMigratingOnePage' = TRUE
      /\ UNCHANGED <<cntVars, currentPageMigrationReq, isCurrentlyHandlingMigrationReq,
                     requestsToSend, toSendToMMU, mmuVars, pageVars, fromCP, gpuVars, memVars>>
  BY DEF SendMigrationReqToCP
<1>2. /\ req \in CopyReq /\ migrationReqToSendToCP' \in Seq(CopyReq)
      /\ Len(migrationReqToSendToCP) \in Nat
      /\ Len(migrationReqToSendToCP') = Len(migrationReqToSendToCP) - 1
  BY <1>1, HeadTailProperties, LenProperties DEF IInv, TypeInv
<1>3. req.gpu \in GPU /\ req # None
  BY <1>2, NoneAssumption DEF CopyReq
<1> HIDE DEF req
<1>4. CopyPhase
  BY <1>1 DEF IInv, PhaseInv, Idle, DrainPhase, ShootPhase, RestartPhase, RDMARestartPhase,
              NoCopies
<1>5. \A g \in GPU : toCP[g] = None /\ pmc[g] = None /\ fromCP[g] = None
  BY <1>1, <1>4 DEF CopyPhase
<1>6. TypeInv'
  BY <1>1, <1>2 DEF IInv, TypeInv
<1>7. OneUnderWay'
  <2>1. toCP'[req.gpu] = req /\ \A h \in GPU \ {req.gpu} : toCP'[h] = None
    BY <1>1, <1>3, <1>5 DEF IInv, TypeInv
  <2> QED  BY <1>1, <1>2, <1>3, <1>5, <2>1 DEF OneUnderWay
<1>8. numPagesMigratingACK' = Len(migrationReqToSendToCP') + 1
  BY <1>1, <1>2, <1>4 DEF CopyPhase
<1>9. CopyPhase'
  <2>1. Accessing' = Accessing /\ Handling' = Handling /\ AllPaused' = AllPaused
    BY <1>1 DEF Accessing, Handling, AllPaused
  <2> QED  BY <1>1, <1>4, <1>7, <1>8, <2>1 DEF CopyPhase
<1>10. RDMAInv' /\ MMUInv' /\ TranslationInv'
  BY <1>1, RDMAUnchanged, MMUUnchanged, TranslationUnchanged DEF IInv
<1> QED  BY <1>6, <1>9, <1>10 DEF IInv, PhaseInv

\* An engine has drained; after the last one the GPUs of the request are
\* shot down.
LEMMA ProcessRDMADrainRspIInv ==
  ASSUME NEW g \in GPU
  PROVE  IInv /\ ProcessRDMADrainRsp(g) => IInv'
<1> SUFFICES ASSUME IInv, ProcessRDMADrainRsp(g)  PROVE IInv'
  OBVIOUS
<1> DEFINE req == currentPageMigrationReq
           new == ToEach("shootdown", Accessing, Wanted(req))
<1> USE KindNames DEF mmuVars, pageVars, gpuVars, memVars, cpVars, rdmaVars, flagVars
<1>1. /\ fromCP[g] = "drainRsp" /\ fromCP' = [fromCP EXCEPT ![g] = None]
      /\ numRDMADrainACK' = numRDMADrainACK - 1
      /\ numRDMADrainACK' = 0 => /\ numShootDownACK' = Cardinality(Accessing)
                                 /\ requestsToSend' = requestsToSend \o new
      /\ numRDMADrainACK' # 0 => UNCHANGED <<numShootDownACK, requestsToSend>>
      /\ UNCHANGED <<numPagesMigratingACK, numRestartACK, numRDMARestartACK, flagVars,
                     migrationReqToSendToCP, toSendToMMU, mmuVars, pageVars, toCP, gpuVars,
                     memVars>>
  BY DEF ProcessRDMADrainRsp, Receive, Accessing
<1> HIDE DEF new
<1>2. DrainPhase
  BY <1>1, PhaseOf DEF IInv
<1>3. /\ Handling' = Handling /\ Accessing' = Accessing /\ (NoCopies)' = NoCopies
      /\ Draining' = Draining /\ Flushing' = Flushing /\ AllPaused' = AllPaused
      /\ Wanted(req)' = Wanted(req)
  BY <1>1 DEF Handling, Accessing, NoCopies, Draining, Flushing, AllPaused, Wanted
<1>4. /\ GoodReq(req) /\ Accessing \in SUBSET GPU /\ Accessing # {}
      /\ Wanted(req) \in SUBSET Page /\ Wanted(req) # {}
  BY <1>2 DEF DrainPhase, Handling, GoodReq, Accessing, MigrationReq, Wanted
<1>5. /\ numRDMADrainACK - 1 # 0 =>
           Round(requestsToSend, toCP, fromCP', "drain", "drainRsp", GPU, {},
                 numRDMADrainACK - 1, Draining)
      /\ numRDMADrainACK - 1 = 0 => Over(requestsToSend, toCP, fromCP', Draining)
      /\ numRDMADrainACK - 1 \in Nat /\ numRDMADrainACK # 0
  <2>1. Round(requestsToSend, toCP, fromCP, "drain", "drainRsp", GPU, {},
              numRDMADrainACK, Draining)
    BY <1>2 DEF DrainPhase
  <2>2. fromCP[g] # None
    BY <1>1, NoneAssumption
  <2>3. fromCP' = [fromCP EXCEPT ![g] = None]
    BY <1>1
  <2>4. {} \in SUBSET Page
    OBVIOUS
  <2>5. /\ numRDMADrainACK - 1 # 0 =>
             Round(requestsToSend, toCP, fromCP', "drain", "drainRsp", GPU, {},
                   numRDMADrainACK - 1, Draining)
        /\ numRDMADrainACK - 1 = 0 => Over(requestsToSend, toCP, fromCP', Draining)
    BY <2>1, <2>2, <2>3, <2>4, RoundReceive
  <2>6. numRDMADrainACK \in Nat /\ numRDMADrainACK # 0
    BY <2>1, <2>4, RoundCount
  <2> QED  BY <2>5, <2>6
<1>6. BeforeCopies
  BY <1>5 DEF BeforeCopies
<1>7. CASE numRDMADrainACK' # 0
  <2>1. DrainPhase'
    BY <1>1, <1>2, <1>3, <1>5, <1>7 DEF DrainPhase
  <2>2. TypeInv'
    BY <1>1, <1>5, <1>7 DEF IInv, TypeInv
  <2>3. RDMAInv'
    BY <1>1, RDMAUnchanged DEF IInv
  <2>4. MMUInv'
    BY <1>1, <1>5, <1>7 DEF IInv, MMUInv, BeforeCopies, GoodReq, Wanted
  <2>5. TranslationInv'
    BY <1>1, <1>6, <1>7 DEF IInv, TranslationInv, TranslationsCurrent, Blocked, BeforeCopies,
       Wanted, Flushing
  <2> QED  BY <2>1, <2>2, <2>3, <2>4, <2>5 DEF IInv, PhaseInv
<1>8. CASE numRDMADrainACK' = 0
  <2>1. requestsToSend' = new /\ new \in Seq(Cmds("shootdown", Accessing, Wanted(req)))
    <3>1. requestsToSend = <<>>
      BY <1>1, <1>5, <1>8 DEF Over
    <3>2. new \in Seq(Cmds("shootdown", Accessing, Wanted(req)))
      BY <1>4, ToEachQueue DEF new
    <3>3. requestsToSend' = <<>> \o new
      BY <1>1, <1>8, <3>1
    <3> QED  BY <3>2, <3>3, ConcatSimplifications
  <2>2. /\ Round(requestsToSend', toCP', fromCP', "shootdown", "shootdownRsp", Accessing,
                 Wanted(req), numShootDownACK', {})
        /\ Ordered(requestsToSend', toCP') = Accessing
    <3>1. /\ toCP' = [h \in GPU |-> None] /\ fromCP' = [h \in GPU |-> None]
          /\ numShootDownACK' = Cardinality(Accessing)
      BY <1>1, <1>5, <1>8 DEF Over
    <3> QED  BY <1>4, <2>1, <3>1, RoundStart DEF new
  <2>3. AllPaused
    <3>1. \A h \in GPU : rdma[h] # "run" /\ rdma[h] # "draining"
      BY <1>1, <1>2, <1>5, <1>8 DEF DrainPhase, Draining, Over
    <3> QED  BY <3>1 DEF AllPaused, IInv, TypeInv
  <2>4. Flushing = {} /\ \A h \in GPU : stage[h] = "run"
    BY <1>2 DEF DrainPhase, Flushing
  <2>5. ShootPhase'
    BY <1>1, <1>2, <1>3, <1>8, <2>2, <2>3, <2>4 DEF DrainPhase, ShootPhase
  <2>6. numShootDownACK' \in Nat /\ numShootDownACK' # 0
    BY <1>1, <1>4, <1>8, CountGPUs
  <2>7. TypeInv'
    <3>1. Cmds("shootdown", Accessing, Wanted(req)) \subseteq Command
      BY <1>4, CmdNotNone DEF Cmds
    <3>2. requestsToSend' \in Seq(Command)
      BY <2>1, <3>1, SeqMonotonic
    <3> QED  BY <1>1, <1>5, <2>6, <3>2 DEF IInv, TypeInv
  <2>8. RDMAInv'
    BY <1>1, RDMAUnchanged DEF IInv
  <2>9. MMUInv'
    BY <1>1, <1>5, <1>8, <2>6 DEF IInv, MMUInv, BeforeCopies, GoodReq, Wanted
  <2>10. TranslationInv'
    <3>1. TranslationsCurrent'
      BY <1>1 DEF IInv, TranslationInv, TranslationsCurrent
    <3>2. Blocked(req)' /\ (mmuPort # None => Blocked(mmuPort))'
      BY <1>1, <1>6 DEF IInv, TranslationInv, Blocked, Wanted
    <3>3. Flushing' = {} /\ \A h \in GPU : stage'[h] # "stopped"
      BY <1>1, <1>3, <2>4
    <3> QED  BY <3>1, <3>2, <3>3 DEF TranslationInv
  <2> QED  BY <2>5, <2>7, <2>8, <2>9, <2>10 DEF IInv, PhaseInv
<1> QED  BY <1>7, <1>8

\* The pages of a request become copies to make, each with a frame of its own.
LEMMA PagesPrepared ==
  ASSUME TypeInv, migrationReqToSendToCP = <<>>, numPagesMigratingACK = 0,
         NEW req, GoodReq(req), PreparePages(req)
  PROVE  /\ migrationReqToSendToCP' \in Seq(CopyReq)
         /\ numPagesMigratingACK' = Len(migrationReqToSendToCP')
         /\ numPagesMigratingACK' \in Nat /\ numPagesMigratingACK' # 0
         /\ pageTable' \in [Page -> GPU \X Nat]
         /\ isMigrating' \in [Page -> BOOLEAN]
         /\ allocated' \in [GPU -> Nat]
         /\ \A p \in Page : p \notin Wanted(req) => pageTable'[p] = pageTable[p]
         /\ \A i \in DOMAIN migrationReqToSendToCP' : \E p \in Wanted(req) :
              /\ migrationReqToSendToCP'[i].from = pageTable[p]
              /\ migrationReqToSendToCP'[i].to = NewFrame(req, p)
         /\ \A p \in Wanted(req) : \E i \in DOMAIN migrationReqToSendToCP' :
              migrationReqToSendToCP'[i].to = NewFrame(req, p)
<1> DEFINE pages == Wanted(req)
           n == Cardinality(pages)
           order == Ascending(pages)
           copies == [i \in DOMAIN order |->
                        [kind |-> "migrate", gpu |-> req.want[order[i]],
                         from |-> pageTable[order[i]],
                         to |-> NewFrame(req, order[i])]]
<1>1. /\ pages \in SUBSET Page /\ pages # {}
      /\ req.want \in [Page -> GPU \cup {None}]
      /\ \A p \in pages : req.want[p] \in GPU
  BY DEF GoodReq, MigrationReq, Wanted
<1>2. Page \in SUBSET Nat /\ IsFiniteSet(pages)
  <2>1. IsFiniteSet(pages)
    BY <1>1, FiniteGPU, FS_Subset
  <2> QED  BY <2>1, FiniteGPU DEF Page
<1>3. \A T \in SUBSET Page : Cardinality(T) \in Nat
  BY FiniteGPU, FS_Subset, FS_CardinalityType
<1>4. n \in Nat /\ n # 0
  BY <1>1, <1>2, <1>3, FS_EmptySet
<1>5. /\ DOMAIN order = 1 .. n /\ \A i \in 1 .. n : order[i] \in pages
      /\ \A p \in pages : \E i \in 1 .. n : order[i] = p
  <2>1. pages \in SUBSET Nat
    BY <1>1, <1>2
  <2>2. DOMAIN order = 1 .. n
    BY DEF Ascending
  <2> HIDE DEF order, pages
  <2> QED  BY <1>2, <2>1, <2>2, AscendingLists DEF order
<1>6. \A p \in pages : NewFrame(req, p) \in GPU \X Nat
  <2> SUFFICES ASSUME NEW p \in pages PROVE NewFrame(req, p) \in GPU \X Nat
    OBVIOUS
  <2>1. p \in Page /\ req.want[p] \in GPU /\ p \in Nat
    BY <1>1, <1>2
  <2>2. 1 .. p \subseteq Page
    BY <2>1, FiniteGPU DEF Page
  <2>3. {q \in 1 .. p : req.want[q] = req.want[p]} \in SUBSET Page
    BY <2>2
  <2>4. Cardinality({q \in 1 .. p : req.want[q] = req.want[p]}) \in Nat
    BY <1>3, <2>3
  <2>5. allocated[req.want[p]] \in Nat
    BY <2>1 DEF TypeInv
  <2> QED  BY <2>1, <2>4, <2>5 DEF NewFrame
<1>7. /\ pageTable' = [p \in Page |-> IF p \in pages THEN NewFrame(req, p) ELSE pageTable[p]]
      /\ isMigrating' = [p \in Page |-> p \in pages \/ isMigrating[p]]
      /\ allocated' = [g \in GPU |->
           allocated[g] + Cardinality({p \in Page : req.want[p] = g})]
      /\ migrationReqToSendToCP' = migrationReqToSendToCP \o copies
      /\ numPagesMigratingACK' = numPagesMigratingACK + n
  BY DEF PreparePages
<1>8. /\ pageTable \in [Page -> GPU \X Nat] /\ isMigrating \in [Page -> BOOLEAN]
      /\ allocated \in [GPU -> Nat]
  BY DEF TypeInv
<1> HIDE DEF order, pages, n
<1>9. copies \in [1 .. n -> CopyReq] /\ copies \in Seq(CopyReq) /\ Len(copies) = n
  <2>1. \A i \in 1 .. n : [kind |-> "migrate", gpu |-> req.want[order[i]],
                           from |-> pageTable[order[i]],
                           to |-> NewFrame(req, order[i])] \in CopyReq
    <3> SUFFICES ASSUME NEW i \in 1 .. n
                 PROVE  [kind |-> "migrate", gpu |-> req.want[order[i]],
                         from |-> pageTable[order[i]],
                         to |-> NewFrame(req, order[i])] \in CopyReq
      OBVIOUS
    <3>1. order[i] \in pages /\ order[i] \in Page
      BY <1>1, <1>5
    <3> QED  BY <1>1, <1>6, <1>8, <3>1 DEF CopyReq
  <2>2. copies \in [1 .. n -> CopyReq]
    BY <1>5, <2>1
  <2> HIDE DEF copies
  <2>3. copies \in Seq(CopyReq)
    BY <1>4, <2>2, SeqDef
  <2> QED  BY <1>4, <2>2, <2>3, LenProperties
<1>9a. /\ \A i \in 1 .. n : \E p \in pages :
             copies[i].from = pageTable[p] /\ copies[i].to = NewFrame(req, p)
       /\ \A p \in pages : \E i \in 1 .. n : copies[i].to = NewFrame(req, p)
  BY <1>5
<1>9b. DOMAIN copies = 1 .. n
  BY <1>5
<1> HIDE DEF copies
<1>10. migrationReqToSendToCP' = copies
  BY <1>7, <1>9, ConcatSimplifications
<1>11. numPagesMigratingACK' = n
  BY <1>4, <1>7
<1>12. pageTable' \in [Page -> GPU \X Nat] /\ isMigrating' \in [Page -> BOOLEAN]
  BY <1>6, <1>7, <1>8
<1>13. allocated' \in [GPU -> Nat]
  <2> DEFINE taken(g) == Cardinality({p \in Page : req.want[p] = g})
  <2>1. \A g \in GPU : taken(g) \in Nat
    BY <1>3
  <2>2. allocated' = [g \in GPU |-> allocated[g] + taken(g)]
    BY <1>7
  <2> HIDE DEF taken
  <2> QED  BY <1>8, <2>1, <2>2
<1>14. \A p \in Page : p \notin pages => pageTable'[p] = pageTable[p]
  BY <1>7
<1>15. /\ \A i \in DOMAIN migrationReqToSendToCP' : \E p \in pages :
             /\ migrationReqToSendToCP'[i].from = pageTable[p]
             /\ migrationReqToSendToCP'[i].to = NewFrame(req, p)
       /\ \A p \in pages : \E i \in DOMAIN migrationReqToSendToCP' :
            migrationReqToSendToCP'[i].to = NewFrame(req, p)
  BY <1>10, <1>9a, <1>9b
<1> QED  BY <1>4, <1>9, <1>10, <1>11, <1>12, <1>13, <1>14, <1>15 DEF pages

\* A GPU is shot down; after the last one the pages are prepared: by then no
\* TLB has a translation of them.
LEMMA ProcessShootdownCompleteRspIInv ==
  ASSUME NEW g \in GPU
  PROVE  IInv /\ ProcessShootdownCompleteRsp(g) => IInv'
<1> SUFFICES ASSUME IInv, ProcessShootdownCompleteRsp(g)  PROVE IInv'
  OBVIOUS
<1> DEFINE req == currentPageMigrationReq
<1> USE KindNames DEF mmuVars, gpuVars, memVars, cpVars, rdmaVars, flagVars
<1>1. /\ fromCP[g] = "shootdownRsp" /\ fromCP' = [fromCP EXCEPT ![g] = None]
      /\ numShootDownACK' = numShootDownACK - 1
      /\ numShootDownACK' = 0 => PreparePages(req)
      /\ numShootDownACK' # 0 =>
           UNCHANGED <<pageVars, migrationReqToSendToCP, numPagesMigratingACK>>
      /\ UNCHANGED <<numRDMADrainACK, numRestartACK, numRDMARestartACK, flagVars,
                     requestsToSend, toSendToMMU, mmuVars, toCP, gpuVars, memVars>>
  BY DEF ProcessShootdownCompleteRsp, Receive
<1>2. ShootPhase
  BY <1>1, PhaseOf DEF IInv
<1>3. /\ Handling' = Handling /\ Accessing' = Accessing /\ Wanted(req)' = Wanted(req)
      /\ Flushing' = Flushing /\ AllPaused' = AllPaused
  BY <1>1 DEF Handling, Accessing, Flushing, AllPaused, Wanted
<1>4. /\ GoodReq(req) /\ Accessing \in SUBSET GPU /\ Wanted(req) \in SUBSET Page
      /\ req.accessing = Accessing
  BY <1>2 DEF ShootPhase, Handling, GoodReq, Accessing, MigrationReq, Wanted
<1>5. /\ numShootDownACK - 1 # 0 =>
           Round(requestsToSend, toCP, fromCP', "shootdown", "shootdownRsp", Accessing,
                 Wanted(req), numShootDownACK - 1, Flushing)
      /\ numShootDownACK - 1 = 0 => Over(requestsToSend, toCP, fromCP', Flushing)
      /\ numShootDownACK - 1 \in Nat /\ numShootDownACK # 0
  <2>1. Round(requestsToSend, toCP, fromCP, "shootdown", "shootdownRsp", Accessing,
              Wanted(req), numShootDownACK, Flushing)
    BY <1>2 DEF ShootPhase
  <2>2. fromCP[g] # None /\ fromCP' = [fromCP EXCEPT ![g] = None]
    BY <1>1, NoneAssumption
  <2>3. /\ numShootDownACK - 1 # 0 =>
             Round(requestsToSend, toCP, fromCP', "shootdown", "shootdownRsp", Accessing,
                   Wanted(req), numShootDownACK - 1, Flushing)
        /\ numShootDownACK - 1 = 0 => Over(requestsToSend, toCP, fromCP', Flushing)
    BY <1>4, <2>1, <2>2, RoundReceive
  <2>4. numShootDownACK \in Nat /\ numShootDownACK # 0
    BY <1>4, <2>1, RoundCount
  <2> QED  BY <2>3, <2>4
<1>6. BeforeCopies /\ Blocked(req)
  BY <1>5 DEF BeforeCopies, IInv, TranslationInv
<1>7. isDoingMigration /\ mmuPort = None /\ toSendToMMU = None /\ mmuRsp = None
  BY <1>6 DEF IInv, MMUInv
<1>8. CASE numShootDownACK' # 0
  <2>1. ShootPhase'
    <3>1. (NoCopies)' = NoCopies
      BY <1>1, <1>8 DEF NoCopies
    <3> QED  BY <1>1, <1>2, <1>3, <1>5, <1>8, <3>1 DEF ShootPhase
  <2>2. TypeInv'
    BY <1>1, <1>5, <1>8 DEF IInv, TypeInv, pageVars
  <2>3. RDMAInv'
    BY <1>1, RDMAUnchanged DEF IInv
  <2>4. MMUInv'
    BY <1>1, <1>7 DEF MMUInv, BeforeCopies
  <2>5. TranslationInv'
    BY <1>1, <1>5, <1>6, <1>8 DEF IInv, TranslationInv, TranslationsCurrent, Blocked,
       BeforeCopies, Wanted, Flushing, pageVars
  <2> QED  BY <2>1, <2>2, <2>3, <2>4, <2>5 DEF IInv, PhaseInv
<1>9. CASE numShootDownACK' = 0
  <2>1. Over(requestsToSend, toCP, fromCP', Flushing) /\ PreparePages(req)
    BY <1>1, <1>5, <1>9
  <2>2. /\ migrationReqToSendToCP' \in Seq(CopyReq)
        /\ numPagesMigratingACK' = Len(migrationReqToSendToCP')
        /\ numPagesMigratingACK' \in Nat /\ numPagesMigratingACK' # 0
        /\ pageTable' \in [Page -> GPU \X Nat]
        /\ isMigrating' \in [Page -> BOOLEAN]
        /\ allocated' \in [GPU -> Nat]
        /\ \A p \in Page : p \notin Wanted(req) => pageTable'[p] = pageTable[p]
    <3>1. TypeInv /\ migrationReqToSendToCP = <<>> /\ numPagesMigratingACK = 0
      BY <1>2 DEF IInv, ShootPhase, NoCopies
    <3> HIDE DEF req
    <3> QED  BY <1>4, <2>1, <3>1, PagesPrepared
  <2>3. \A h \in GPU : stage[h] = IF h \in Accessing THEN "stopped" ELSE "run"
    BY <1>2, <2>1 DEF ShootPhase, Over
  <2>4. CopyPhase'
    <3>1. /\ requestsToSend' = <<>> /\ ~ isCurrentlyMigratingOnePage'
          /\ \A h \in GPU : toCP'[h] = None /\ pmc'[h] = None /\ fromCP'[h] = None
      BY <1>1, <1>2, <2>1 DEF Over, ShootPhase, NoCopies
    <3>2. /\ numRDMADrainACK' = 0 /\ numShootDownACK' = 0 /\ numRestartACK' = 0
          /\ numRDMARestartACK' = 0 /\ Handling' /\ AllPaused'
      BY <1>1, <1>2, <1>3, <1>9 DEF ShootPhase
    <3>3. \A h \in GPU : stage'[h] = IF h \in Accessing' THEN "stopped" ELSE "run"
      BY <1>1, <1>3, <2>3
    <3> QED  BY <2>2, <3>1, <3>2, <3>3 DEF CopyPhase
  <2>5. TypeInv'
    <3>1. /\ migrationReqToSendToCP' \in Seq(CopyReq) /\ numPagesMigratingACK' \in Nat
          /\ pageTable' \in [Page -> GPU \X Nat] /\ isMigrating' \in [Page -> BOOLEAN]
          /\ allocated' \in [GPU -> Nat] /\ numShootDownACK' \in Nat
      BY <1>9, <2>2
    <3>2. fromCP' \in [GPU -> Rsp \cup {None}]
      BY <1>1 DEF IInv, TypeInv
    <3> QED  BY <1>1, <3>1, <3>2 DEF IInv, TypeInv
  <2>6. RDMAInv'
    BY <1>1, RDMAUnchanged DEF IInv
  <2>7. MMUInv'
    BY <1>1, <1>7 DEF MMUInv, BeforeCopies
  <2>8. TranslationInv'
    <3>1. ASSUME NEW h \in GPU, NEW p \in Wanted(req)
          PROVE  tlb[h][p] = None
      <4>1. CASE h \in Accessing
        <5>1. stage[h] = "stopped"
          BY <2>3, <4>1
        <5> QED  BY <1>5, <5>1 DEF IInv, TranslationInv
      <4>2. CASE h \notin Accessing
        BY <1>4, <1>6, <4>2 DEF Blocked
      <4> QED  BY <4>1, <4>2
    <3>2. TranslationsCurrent'
      <4> SUFFICES ASSUME NEW h \in GPU, NEW p \in Page, tlb[h][p] # None
                   PROVE  tlb[h][p] = pageTable'[p]
        BY <1>1 DEF TranslationsCurrent
      <4>1. p \notin Wanted(req)
        BY <3>1
      <4> QED  BY <2>2, <4>1 DEF IInv, TranslationInv, TranslationsCurrent
    <3>3. mmuPort' = None /\ numShootDownACK' = 0 /\ numRDMADrainACK' = 0
      BY <1>1, <1>2, <1>7, <1>9 DEF ShootPhase
    <3> QED  BY <3>2, <3>3 DEF TranslationInv, BeforeCopies
  <2> QED  BY <2>4, <2>5, <2>6, <2>7, <2>8 DEF IInv, PhaseInv
<1> QED  BY <1>8, <1>9

\* A page is copied; after the last one the GPUs restart and the MMU is
\* answered.
LEMMA ProcessPageMigrationRspIInv ==
  ASSUME NEW g \in GPU
  PROVE  IInv /\ ProcessPageMigrationRspFromCP(g) => IInv'
<1> SUFFICES ASSUME IInv, ProcessPageMigrationRspFromCP(g)  PROVE IInv'
  OBVIOUS
<1> DEFINE req == currentPageMigrationReq
           new == ToEach("restart", Accessing, {})
<1> USE KindNames DEF mmuVars, pageVars, gpuVars, memVars, cpVars, rdmaVars
<1>1. /\ fromCP[g] = "migrateRsp" /\ fromCP' = [fromCP EXCEPT ![g] = None]
      /\ numPagesMigratingACK' = numPagesMigratingACK - 1
      /\ isCurrentlyMigratingOnePage' = FALSE
      /\ numPagesMigratingACK' = 0 =>
           /\ requestsToSend' = requestsToSend \o new
           /\ numRestartACK' = numRestartACK + Cardinality(Accessing)
           /\ toSendToMMU' = Wanted(req)
      /\ numPagesMigratingACK' # 0 => UNCHANGED <<requestsToSend, numRestartACK, toSendToMMU>>
      /\ UNCHANGED <<numRDMADrainACK, numShootDownACK, numRDMARestartACK,
                     currentPageMigrationReq, isCurrentlyHandlingMigrationReq,
                     migrationReqToSendToCP, mmuVars, pageVars, toCP, gpuVars, memVars>>
  BY DEF ProcessPageMigrationRspFromCP, Receive, Accessing
<1> HIDE DEF new
<1>2. CopyPhase
  BY <1>1, PhaseOf DEF IInv
<1>3. /\ Handling' = Handling /\ Accessing' = Accessing /\ Wanted(req)' = Wanted(req)
      /\ Restarting' = Restarting /\ AllPaused' = AllPaused
  BY <1>1 DEF Handling, Accessing, Restarting, AllPaused, Wanted
<1>4. GoodReq(req) /\ Accessing \in SUBSET GPU /\ Accessing # {}
  BY <1>2 DEF CopyPhase, Handling, GoodReq, Accessing, MigrationReq
<1>5. /\ isCurrentlyMigratingOnePage /\ OneUnderWay
      /\ numPagesMigratingACK = Len(migrationReqToSendToCP) + 1
  BY <1>1, <1>2, NoneAssumption DEF CopyPhase
<1>6. \A h \in GPU : toCP'[h] = None /\ pmc'[h] = None /\ fromCP'[h] = None
  <2>1. fromCP'[g] = None /\ \A h \in GPU \ {g} : fromCP'[h] = fromCP[h]
    BY <1>1 DEF IInv, TypeInv
  <2>2. fromCP[g] # None
    BY <1>1, NoneAssumption
  <2> QED  BY <1>1, <1>5, <2>1, <2>2 DEF OneUnderWay
<1>7. /\ Len(migrationReqToSendToCP) \in Nat
      /\ numPagesMigratingACK' = Len(migrationReqToSendToCP)
      /\ Len(migrationReqToSendToCP) = 0 => migrationReqToSendToCP = <<>>
  <2>1. migrationReqToSendToCP \in Seq(CopyReq)
    BY DEF IInv, TypeInv
  <2>2. /\ Len(migrationReqToSendToCP) \in Nat
        /\ Len(migrationReqToSendToCP) = 0 => migrationReqToSendToCP = <<>>
    BY <2>1, LenProperties, EmptySeq
  <2> QED  BY <1>1, <1>5, <2>2
<1>8. /\ ~ BeforeCopies /\ numRDMADrainACK = 0 /\ numShootDownACK = 0
      /\ numPagesMigratingACK # 0
  BY <1>2 DEF CopyPhase, BeforeCopies
<1>9. isDoingMigration /\ mmuPort = None /\ mmuRsp = None
  BY <1>8 DEF IInv, MMUInv
<1>10. RDMAInv'
  BY <1>1, RDMAUnchanged DEF IInv
<1>11. TranslationInv'
  BY <1>1, <1>8, TranslationUnchanged DEF IInv
<1>12. MMUInv'
  BY <1>1, <1>8, <1>9 DEF IInv, MMUInv, BeforeCopies
<1>13. CASE numPagesMigratingACK' # 0
  <2>1. CopyPhase'
    BY <1>1, <1>2, <1>3, <1>6, <1>7, <1>13 DEF CopyPhase
  <2>2. TypeInv'
    BY <1>1, <1>7, <1>13 DEF IInv, TypeInv
  <2> QED  BY <1>10, <1>11, <1>12, <2>1, <2>2 DEF IInv, PhaseInv
<1>14. CASE numPagesMigratingACK' = 0
  <2>1. requestsToSend' = new /\ new \in Seq(Cmds("restart", Accessing, {}))
    <3>1. requestsToSend' = <<>> \o new
      BY <1>1, <1>2, <1>14 DEF CopyPhase
    <3>2. new \in Seq(Cmds("restart", Accessing, {}))
      BY <1>4, ToEachQueue DEF new
    <3> QED  BY <3>1, <3>2, ConcatSimplifications
  <2>2. /\ numRestartACK' = Cardinality(Accessing) /\ numRestartACK' \in Nat
        /\ Cardinality(Accessing) \in Nat
    <3>1. Cardinality(Accessing) \in Nat
      BY <1>4, CountGPUs
    <3>2. numRestartACK = 0
      BY <1>2 DEF CopyPhase
    <3>3. numRestartACK' = 0 + Cardinality(Accessing)
      BY <1>1, <1>14, <3>2
    <3> QED  BY <3>1, <3>3
  <2>3. /\ toCP' = [h \in GPU |-> None] /\ fromCP' = [h \in GPU |-> None]
        /\ \A h \in GPU : pmc'[h] = None
    BY <1>1, <1>6 DEF IInv, TypeInv
  <2>4. /\ Round(requestsToSend', toCP', fromCP', "restart", "restartRsp", Accessing, {},
                 numRestartACK', {})
        /\ Ordered(requestsToSend', toCP') = Accessing
    <3>1. {} \in SUBSET Page
      OBVIOUS
    <3> QED  BY <1>4, <2>1, <2>2, <2>3, <3>1, RoundStart DEF new
  <2>5. \A h \in GPU : stage[h] = IF h \in Accessing THEN "stopped" ELSE "run"
    BY <1>2 DEF CopyPhase
  <2>6. Restarting = {}
    BY <2>5 DEF Restarting
  <2>7. (NoCopies)'
    BY <1>1, <1>7, <1>14, <2>3 DEF NoCopies
  <2>8. RestartPhase'
    BY <1>1, <1>2, <1>3, <2>4, <2>5, <2>6, <2>7 DEF CopyPhase, RestartPhase
  <2>9. TypeInv'
    <3>1. Cmds("restart", Accessing, {}) \subseteq Command
      BY <1>4, CmdNotNone DEF Cmds
    <3>2. requestsToSend' \in Seq(Command)
      BY <2>1, <3>1, SeqMonotonic
    <3>3. fromCP' \in [GPU -> Rsp \cup {None}]
      BY <1>1 DEF IInv, TypeInv
    <3>4. numRestartACK' \in Nat /\ numPagesMigratingACK' \in Nat
      BY <1>14, <2>2
    <3> QED  BY <1>1, <3>2, <3>3, <3>4 DEF IInv, TypeInv
  <2> QED  BY <1>10, <1>11, <1>12, <2>8, <2>9 DEF IInv, PhaseInv
<1> QED  BY <1>13, <1>14

\* A GPU has restarted; after the last one the engines do.
LEMMA HandleGPURestartRspIInv ==
  ASSUME NEW g \in GPU
  PROVE  IInv /\ HandleGPURestartRsp(g) => IInv'
<1> SUFFICES ASSUME IInv, HandleGPURestartRsp(g)  PROVE IInv'
  OBVIOUS
<1> DEFINE new == ToEach("rdmaRestart", GPU, {})
<1> USE KindNames DEF mmuVars, pageVars, gpuVars, memVars, cpVars, rdmaVars, flagVars
<1>1. /\ fromCP[g] = "restartRsp" /\ fromCP' = [fromCP EXCEPT ![g] = None]
      /\ numRestartACK' = numRestartACK - 1
      /\ numRestartACK' = 0 => /\ requestsToSend' = requestsToSend \o new
                               /\ numRDMARestartACK' = numRDMARestartACK + NumGPUs
      /\ numRestartACK' # 0 => UNCHANGED <<requestsToSend, numRDMARestartACK>>
      /\ UNCHANGED <<numRDMADrainACK, numShootDownACK, numPagesMigratingACK, flagVars,
                     migrationReqToSendToCP, toSendToMMU, mmuVars, pageVars, toCP, gpuVars,
                     memVars>>
  BY DEF HandleGPURestartRsp, Receive
<1> HIDE DEF new
<1>2. RestartPhase
  BY <1>1, PhaseOf DEF IInv
<1>3. /\ Handling' = Handling /\ Accessing' = Accessing /\ (NoCopies)' = NoCopies
      /\ Restarting' = Restarting /\ AllPaused' = AllPaused
  BY <1>1 DEF Handling, Accessing, NoCopies, Restarting, AllPaused
<1>4. {} \in SUBSET Page /\ GPU \in SUBSET GPU /\ GPU # {}
  OBVIOUS
<1>5. /\ numRestartACK - 1 # 0 =>
           Round(requestsToSend, toCP, fromCP', "restart", "restartRsp", Accessing, {},
                 numRestartACK - 1, Restarting)
      /\ numRestartACK - 1 = 0 => Over(requestsToSend, toCP, fromCP', Restarting)
      /\ numRestartACK - 1 \in Nat /\ numRestartACK # 0
  <2>1. Round(requestsToSend, toCP, fromCP, "restart", "restartRsp", Accessing, {},
              numRestartACK, Restarting)
    BY <1>2 DEF RestartPhase
  <2>2. fromCP[g] # None /\ fromCP' = [fromCP EXCEPT ![g] = None]
    BY <1>1, NoneAssumption
  <2>3. /\ numRestartACK - 1 # 0 =>
             Round(requestsToSend, toCP, fromCP', "restart", "restartRsp", Accessing, {},
                   numRestartACK - 1, Restarting)
        /\ numRestartACK - 1 = 0 => Over(requestsToSend, toCP, fromCP', Restarting)
    BY <1>4, <2>1, <2>2, RoundReceive
  <2>4. numRestartACK \in Nat /\ numRestartACK # 0
    BY <1>4, <2>1, RoundCount
  <2> QED  BY <2>3, <2>4
<1>6. RDMAInv' /\ MMUInv' /\ TranslationInv'
  BY <1>1, RDMAUnchanged, MMUUnchanged, TranslationUnchanged DEF IInv
<1>7. CASE numRestartACK' # 0
  <2>1. RestartPhase'
    BY <1>1, <1>2, <1>3, <1>5, <1>7 DEF RestartPhase
  <2>2. TypeInv'
    BY <1>1, <1>5, <1>7 DEF IInv, TypeInv
  <2> QED  BY <1>6, <2>1, <2>2 DEF IInv, PhaseInv
<1>8. CASE numRestartACK' = 0
  <2>1. Over(requestsToSend, toCP, fromCP', Restarting)
    BY <1>1, <1>5, <1>8
  <2>2. requestsToSend' = new /\ new \in Seq(Cmds("rdmaRestart", GPU, {}))
    <3>1. requestsToSend' = <<>> \o new
      BY <1>1, <1>8, <2>1 DEF Over
    <3>2. new \in Seq(Cmds("rdmaRestart", GPU, {}))
      BY ToEachQueue DEF new
    <3> QED  BY <3>1, <3>2, ConcatSimplifications
  <2>3. numRDMARestartACK' = Cardinality(GPU) /\ numRDMARestartACK' \in Nat
    <3>1. numRDMARestartACK = 0
      BY <1>2 DEF RestartPhase
    <3>2. numRDMARestartACK' = 0 + NumGPUs
      BY <1>1, <1>8, <3>1
    <3> QED  BY <3>2, FiniteGPU
  <2>4. /\ Round(requestsToSend', toCP', fromCP', "rdmaRestart", "rdmaRestartRsp", GPU, {},
                 numRDMARestartACK', {})
        /\ Ordered(requestsToSend', toCP') = GPU
    <3>1. toCP' = [h \in GPU |-> None] /\ fromCP' = [h \in GPU |-> None]
      BY <1>1, <2>1 DEF Over
    <3> QED  BY <1>4, <2>2, <2>3, <3>1, RoundStart DEF new
  <2>5. \A h \in GPU : stage[h] = "run" /\ rdma[h] = "paused"
    BY <1>2, <2>1 DEF RestartPhase, Over, AllPaused
  <2>6. RDMARestartPhase'
    BY <1>1, <1>2, <1>3, <1>8, <2>4, <2>5 DEF RestartPhase, RDMARestartPhase
  <2>7. TypeInv'
    <3>1. Cmds("rdmaRestart", GPU, {}) \subseteq Command
      BY CmdNotNone DEF Cmds
    <3>2. requestsToSend' \in Seq(Command)
      BY <2>2, <3>1, SeqMonotonic
    <3> QED  BY <1>1, <1>8, <2>3, <3>2 DEF IInv, TypeInv
  <2> QED  BY <1>6, <2>6, <2>7 DEF IInv, PhaseInv
<1> QED  BY <1>7, <1>8

\* An engine has restarted; after the last one the driver is free again.
LEMMA ProcessRDMARestartRspIInv ==
  ASSUME NEW g \in GPU
  PROVE  IInv /\ ProcessRDMARestartRspToDriver(g) => IInv'
<1> SUFFICES ASSUME IInv, ProcessRDMARestartRspToDriver(g)  PROVE IInv'
  OBVIOUS
<1> USE KindNames DEF mmuVars, pageVars, gpuVars, memVars, cpVars, rdmaVars, sendVars
<1>1. /\ fromCP[g] = "rdmaRestartRsp" /\ fromCP' = [fromCP EXCEPT ![g] = None]
      /\ numRDMARestartACK' = numRDMARestartACK - 1
      /\ numRDMARestartACK' = 0 => ~ isCurrentlyHandlingMigrationReq'
      /\ numRDMARestartACK' # 0 =>
           UNCHANGED <<currentPageMigrationReq, isCurrentlyHandlingMigrationReq>>
      /\ UNCHANGED <<numRDMADrainACK, numShootDownACK, numPagesMigratingACK, numRestartACK,
                     isCurrentlyMigratingOnePage, sendVars, mmuVars, pageVars, toCP, gpuVars,
                     memVars>>
      /\ isCurrentlyHandlingMigrationReq' \in BOOLEAN
  BY DEF ProcessRDMARestartRspToDriver, Receive, IInv, TypeInv
<1>2. RDMARestartPhase
  BY <1>1, PhaseOf DEF IInv
<1>3. {} \in SUBSET Page
  OBVIOUS
<1>4. /\ numRDMARestartACK - 1 # 0 =>
           Round(requestsToSend, toCP, fromCP', "rdmaRestart", "rdmaRestartRsp", GPU, {},
                 numRDMARestartACK - 1, {})
      /\ numRDMARestartACK - 1 = 0 => Over(requestsToSend, toCP, fromCP', {})
      /\ numRDMARestartACK - 1 \in Nat /\ numRDMARestartACK # 0
  <2>1. Round(requestsToSend, toCP, fromCP, "rdmaRestart", "rdmaRestartRsp", GPU, {},
              numRDMARestartACK, {})
    BY <1>2 DEF RDMARestartPhase
  <2>2. fromCP[g] # None /\ fromCP' = [fromCP EXCEPT ![g] = None]
    BY <1>1, NoneAssumption
  <2>3. /\ numRDMARestartACK - 1 # 0 =>
             Round(requestsToSend, toCP, fromCP', "rdmaRestart", "rdmaRestartRsp", GPU, {},
                   numRDMARestartACK - 1, {})
        /\ numRDMARestartACK - 1 = 0 => Over(requestsToSend, toCP, fromCP', {})
    BY <1>3, <2>1, <2>2, RoundReceive
  <2>4. numRDMARestartACK \in Nat /\ numRDMARestartACK # 0
    BY <1>3, <2>1, RoundCount
  <2> QED  BY <2>3, <2>4
<1>5. RDMAInv' /\ MMUInv'
  BY <1>1, RDMAUnchanged, MMUUnchanged DEF IInv
<1>6. TypeInv'
  BY <1>1, <1>4 DEF IInv, TypeInv
<1>7. TranslationInv'
  <2>1. numRDMADrainACK' = 0 /\ numShootDownACK' = 0
    BY <1>1, <1>2 DEF RDMARestartPhase
  <2>2. TranslationsCurrent' /\ (mmuPort # None => Blocked(mmuPort))'
    BY <1>1 DEF IInv, TranslationInv, TranslationsCurrent, Blocked, Wanted
  <2> QED  BY <2>1, <2>2 DEF TranslationInv, BeforeCopies
<1>8. (NoCopies)' = NoCopies
  BY <1>1 DEF NoCopies
<1>9. CASE numRDMARestartACK' # 0
  <2>1. Handling' = Handling
    BY <1>1, <1>9 DEF Handling
  <2>2. RDMARestartPhase'
    BY <1>1, <1>2, <1>4, <1>8, <1>9, <2>1 DEF RDMARestartPhase
  <2> QED  BY <1>5, <1>6, <1>7, <2>2 DEF IInv, PhaseInv
<1>10. CASE numRDMARestartACK' = 0
  <2>1. Over(requestsToSend, toCP, fromCP', {})
    BY <1>1, <1>4, <1>10
  <2>2. (NoOrders)'
    BY <1>1, <2>1 DEF NoOrders, Over
  <2>3. \A h \in GPU : stage[h] = "run" /\ rdma[h] = "run"
    BY <1>2, <2>1 DEF RDMARestartPhase, Over
  <2>4. Idle'
    BY <1>1, <1>2, <1>8, <1>10, <2>2, <2>3 DEF RDMARestartPhase, Idle
  <2> QED  BY <1>5, <1>6, <1>7, <2>4 DEF IInv, PhaseInv
<1> QED  BY <1>9, <1>10

-----------------------------------------------------------------------------
(* The command processors.                                                 *)

\* A command processor takes the drain and its engine forwards nothing more.
LEMMA ProcessRDMADrainCmdIInv ==
  ASSUME NEW g \in GPU
  PROVE  IInv /\ ProcessRDMADrainCmd(g) => IInv'
<1> SUFFICES ASSUME IInv, ProcessRDMADrainCmd(g)  PROVE IInv'
  OBVIOUS
<1> USE KindNames DEF drvVars, mmuVars, pageVars, memVars, cpVars, cntVars, flagVars, sendVars
<1>1. /\ toCP[g] # None /\ toCP[g].kind = "drain" /\ toCP' = [toCP EXCEPT ![g] = None]
      /\ rdma' = [rdma EXCEPT ![g] = "draining"]
      /\ UNCHANGED <<drvVars, mmuVars, pageVars, fromCP, cpVars, toRDMA, flight, carried, pmc,
                     memVars>>
  BY DEF ProcessRDMADrainCmd, Taken
<1>2. DrainPhase
  BY <1>1, PhaseOf DEF IInv
<1>3. /\ rdma'[g] = "draining" /\ \A h \in GPU \ {g} : rdma'[h] = rdma[h]
      /\ rdma' \in [GPU -> {"run", "draining", "paused"}]
  BY <1>1 DEF IInv, TypeInv
<1>4. TypeInv'
  BY <1>1, <1>3 DEF IInv, TypeInv
<1>5. DrainPhase'
  <2>1. Draining' = Draining \cup {g}
    BY <1>3 DEF Draining
  <2>2. /\ Round(requestsToSend, toCP', fromCP, "drain", "drainRsp", GPU, {},
                 numRDMADrainACK, Draining \cup {g})
        /\ Ordered(requestsToSend, toCP') = Ordered(requestsToSend, toCP) \ {g}
    <3>1. Round(requestsToSend, toCP, fromCP, "drain", "drainRsp", GPU, {},
                numRDMADrainACK, Draining)
      BY <1>2 DEF DrainPhase
    <3>2. {} \in SUBSET Page
      OBVIOUS
    <3>3. toCP[g] # None /\ toCP' = [toCP EXCEPT ![g] = None]
      BY <1>1
    <3>4. g \notin InQueue(requestsToSend) /\ DOMAIN toCP = GPU
      BY <3>1, <3>2, <3>3, RoundQueue DEF IInv, TypeInv
    <3>5. Ordered(requestsToSend, toCP') = Ordered(requestsToSend, toCP) \ {g}
      BY <3>3, <3>4 DEF Ordered
    <3> QED  BY <3>1, <3>2, <3>3, <3>5, RoundTake
  <2>3. Handling' = Handling /\ (NoCopies)' = NoCopies
    BY <1>1 DEF Handling, NoCopies
  <2>4. \A h \in GPU : h \in Ordered(requestsToSend, toCP') <=> rdma'[h] = "run"
    BY <1>2, <1>3, <2>2 DEF DrainPhase
  <2> QED  BY <1>1, <1>2, <2>1, <2>2, <2>3, <2>4 DEF DrainPhase
<1>6. RDMAInv'
  BY <1>1, <1>3 DEF IInv, RDMAInv, RemoteAccessKept
<1>7. MMUInv' /\ TranslationInv'
  BY <1>1, MMUUnchanged, TranslationUnchanged DEF IInv
<1> QED  BY <1>4, <1>5, <1>6, <1>7 DEF IInv, PhaseInv

\* An engine that waits for nothing is drained.
LEMMA DrainRDMAIInv ==
  ASSUME NEW g \in GPU
  PROVE  IInv /\ DrainRDMA(g) => IInv'
<1> SUFFICES ASSUME IInv, DrainRDMA(g)  PROVE IInv'
  OBVIOUS
<1> USE KindNames DEF drvVars, mmuVars, pageVars, memVars, cpVars, cntVars, flagVars, sendVars
<1>1. /\ rdma[g] = "draining" /\ flight[g] = None
      /\ rdma' = [rdma EXCEPT ![g] = "paused"]
      /\ fromCP' = [fromCP EXCEPT ![g] = "drainRsp"]
      /\ UNCHANGED <<drvVars, mmuVars, pageVars, toCP, cpVars, toRDMA, flight, carried, pmc,
                     memVars>>
  BY DEF DrainRDMA, Answered
<1>2. DrainPhase
  BY <1>1, PhaseOf DEF IInv
<1>3. /\ rdma'[g] = "paused" /\ \A h \in GPU \ {g} : rdma'[h] = rdma[h]
      /\ rdma' \in [GPU -> {"run", "draining", "paused"}]
  BY <1>1 DEF IInv, TypeInv
<1>4. TypeInv'
  BY <1>1, <1>3 DEF IInv, TypeInv
<1>5. DrainPhase'
  <2>1. Draining' = Draining \ {g} /\ g \in Draining
    BY <1>1, <1>3 DEF Draining
  <2>2. Round(requestsToSend, toCP, fromCP', "drain", "drainRsp", GPU, {},
              numRDMADrainACK, Draining \ {g})
    <3>1. Round(requestsToSend, toCP, fromCP, "drain", "drainRsp", GPU, {},
                numRDMADrainACK, Draining)
      BY <1>2 DEF DrainPhase
    <3>2. {} \in SUBSET Page
      OBVIOUS
    <3> QED  BY <1>1, <2>1, <3>1, <3>2, RoundAnswer
  <2>3. Handling' = Handling /\ (NoCopies)' = NoCopies
    BY <1>1 DEF Handling, NoCopies
  <2>4. \A h \in GPU : h \in Ordered(requestsToSend, toCP) <=> rdma'[h] = "run"
    BY <1>1, <1>2, <1>3 DEF DrainPhase
  <2> QED  BY <1>1, <1>2, <2>1, <2>2, <2>3, <2>4 DEF DrainPhase
<1>6. RDMAInv'
  BY <1>1, <1>3 DEF IInv, RDMAInv, RemoteAccessKept
<1>7. MMUInv' /\ TranslationInv'
  BY <1>1, MMUUnchanged, TranslationUnchanged DEF IInv
<1> QED  BY <1>4, <1>5, <1>6, <1>7 DEF IInv, PhaseInv

\* An engine runs again and answers at once.
LEMMA ProcessRDMARestartCommandIInv ==
  ASSUME NEW g \in GPU
  PROVE  IInv /\ ProcessRDMARestartCommand(g) => IInv'
<1> SUFFICES ASSUME IInv, ProcessRDMARestartCommand(g)  PROVE IInv'
  OBVIOUS
<1> USE KindNames DEF drvVars, mmuVars, pageVars, memVars, cpVars, cntVars, flagVars, sendVars
<1>1. /\ toCP[g] # None /\ toCP[g].kind = "rdmaRestart"
      /\ toCP' = [toCP EXCEPT ![g] = None]
      /\ rdma' = [rdma EXCEPT ![g] = "run"]
      /\ fromCP' = [fromCP EXCEPT ![g] = "rdmaRestartRsp"]
      /\ UNCHANGED <<drvVars, mmuVars, pageVars, cpVars, toRDMA, flight, carried, pmc, memVars>>
  BY DEF ProcessRDMARestartCommand, Taken, Answered
<1>2. RDMARestartPhase
  BY <1>1, PhaseOf DEF IInv
<1>3. /\ rdma'[g] = "run" /\ \A h \in GPU \ {g} : rdma'[h] = rdma[h]
      /\ rdma' \in [GPU -> {"run", "draining", "paused"}]
  BY <1>1 DEF IInv, TypeInv
<1>4. TypeInv'
  BY <1>1, <1>3 DEF IInv, TypeInv
<1>5. RDMARestartPhase'
  <2>1. {} \in SUBSET Page /\ ({} \cup {g}) \ {g} = {} /\ g \in {} \cup {g}
    OBVIOUS
  <2>2. /\ Round(requestsToSend, toCP', fromCP, "rdmaRestart", "rdmaRestartRsp", GPU, {},
                 numRDMARestartACK, {} \cup {g})
        /\ Ordered(requestsToSend, toCP') = Ordered(requestsToSend, toCP) \ {g}
    <3>1. Round(requestsToSend, toCP, fromCP, "rdmaRestart", "rdmaRestartRsp", GPU, {},
                numRDMARestartACK, {})
      BY <1>2 DEF RDMARestartPhase
    <3>2. toCP[g] # None /\ toCP' = [toCP EXCEPT ![g] = None]
      BY <1>1
    <3>3. g \notin InQueue(requestsToSend) /\ DOMAIN toCP = GPU
      BY <2>1, <3>1, <3>2, RoundQueue DEF IInv, TypeInv
    <3>4. Ordered(requestsToSend, toCP') = Ordered(requestsToSend, toCP) \ {g}
      BY <3>2, <3>3 DEF Ordered
    <3> QED  BY <2>1, <3>1, <3>2, <3>4, RoundTake
  <2>3. Round(requestsToSend, toCP', fromCP', "rdmaRestart", "rdmaRestartRsp", GPU, {},
              numRDMARestartACK, ({} \cup {g}) \ {g})
    BY <1>1, <2>1, <2>2, RoundAnswer
  <2>4. Handling' = Handling /\ (NoCopies)' = NoCopies
    BY <1>1 DEF Handling, NoCopies
  <2>5. \A h \in GPU :
          rdma'[h] = IF h \in Ordered(requestsToSend, toCP') THEN "paused" ELSE "run"
    BY <1>2, <1>3, <2>2 DEF RDMARestartPhase
  <2> QED  BY <1>1, <1>2, <2>1, <2>3, <2>4, <2>5 DEF RDMARestartPhase
<1>6. RDMAInv'
  BY <1>1, <1>3 DEF IInv, RDMAInv, RemoteAccessKept
<1>7. MMUInv' /\ TranslationInv'
  BY <1>1, MMUUnchanged, TranslationUnchanged DEF IInv
<1> QED  BY <1>4, <1>5, <1>6, <1>7 DEF IInv, PhaseInv

\* A shoot-down starts at a GPU, with the pages of the request.
LEMMA ProcessShootdownCommandIInv ==
  ASSUME NEW g \in GPU
  PROVE  IInv /\ ProcessShootdownCommand(g) => IInv'
<1> SUFFICES ASSUME IInv, ProcessShootdownCommand(g)  PROVE IInv'
  OBVIOUS
<1> DEFINE req == currentPageMigrationReq
<1> USE KindNames DEF drvVars, mmuVars, pageVars, memVars, rdmaVars, cntVars, flagVars, sendVars
<1>1. /\ toCP[g] # None /\ toCP[g].kind = "shootdown" /\ toCP' = [toCP EXCEPT ![g] = None]
      /\ currShootdownRequest' = [currShootdownRequest EXCEPT ![g] = toCP[g].vAddr]
      /\ stage' = [stage EXCEPT ![g] = "cuFlush"]
      /\ UNCHANGED <<drvVars, mmuVars, pageVars, fromCP, rdmaVars, pmc, memVars>>
  BY DEF ProcessShootdownCommand, Taken
<1>2. ShootPhase
  BY <1>1, PhaseOf DEF IInv
<1>3. /\ stage'[g] = "cuFlush" /\ \A h \in GPU \ {g} : stage'[h] = stage[h]
      /\ stage' \in [GPU -> Stages]
  BY <1>1 DEF IInv, TypeInv, Stages
<1>4. /\ Round(requestsToSend, toCP, fromCP, "shootdown", "shootdownRsp", Accessing,
               Wanted(req), numShootDownACK, Flushing)
      /\ Wanted(req) \in SUBSET Page
  BY <1>2 DEF ShootPhase, Wanted
<1>5. toCP[g].vAddr = Wanted(req) /\ g \in Ordered(requestsToSend, toCP)
  BY <1>1, <1>4, RoundData
<1>6. Flushing' = Flushing \cup {g} /\ g \notin Flushing
  <2>1. g \notin Flushing
    BY <1>4, <1>5, RoundMembers
  <2> QED  BY <1>3, <2>1 DEF Flushing
<1>7. TypeInv'
  <2>1. currShootdownRequest' \in [GPU -> SUBSET Page]
    BY <1>1, <1>4, <1>5 DEF IInv, TypeInv
  <2> QED  BY <1>1, <1>3, <2>1 DEF IInv, TypeInv
<1>8. ShootPhase'
  <2>1. toCP[g] # None /\ toCP' = [toCP EXCEPT ![g] = None]
    BY <1>1
  <2>2. Round(requestsToSend, toCP', fromCP, "shootdown", "shootdownRsp", Accessing,
              Wanted(req), numShootDownACK, Flushing \cup {g})
    BY <1>4, <2>1, RoundTake
  <2>3. g \notin InQueue(requestsToSend) /\ DOMAIN toCP = GPU
    BY <1>4, <2>1, RoundQueue DEF IInv, TypeInv
  <2>4. Ordered(requestsToSend, toCP') = Ordered(requestsToSend, toCP) \ {g}
    BY <2>1, <2>3 DEF Ordered
  <2>5. g \in Accessing
    BY <1>4, <1>5, RoundMembers
  <2>6. /\ Handling' = Handling /\ (NoCopies)' = NoCopies /\ Accessing' = Accessing
        /\ AllPaused' = AllPaused /\ Wanted(req)' = Wanted(req)
    BY <1>1 DEF Handling, NoCopies, Accessing, AllPaused, Wanted
  <2>7. \A h \in GPU :
          IF h \in Ordered(requestsToSend, toCP') \/ h \notin Accessing THEN stage'[h] = "run"
          ELSE h \in Flushing \cup {g} \/ stage'[h] = "stopped"
    BY <1>2, <1>3, <2>4, <2>5 DEF ShootPhase
  <2> QED  BY <1>1, <1>2, <1>6, <2>2, <2>6, <2>7 DEF ShootPhase
<1>9. RDMAInv' /\ MMUInv'
  BY <1>1, RDMAUnchanged, MMUUnchanged DEF IInv
<1>10. TranslationInv'
  <2>1. /\ TranslationsCurrent' /\ (mmuPort # None => Blocked(mmuPort))'
        /\ (BeforeCopies => Blocked(req))'
    BY <1>1 DEF IInv, TranslationInv, TranslationsCurrent, Blocked, BeforeCopies, Wanted
  <2>2. numShootDownACK # 0 /\ Wanted(req)' = Wanted(req)
    BY <1>1, <1>4, RoundCount DEF Wanted
  <2>3. \A h \in Flushing \cup {g} : currShootdownRequest'[h] = Wanted(req)
    <3>1. \A h \in Flushing : currShootdownRequest[h] = Wanted(req) /\ h \in GPU
      BY <2>2 DEF IInv, TranslationInv, Flushing
    <3> QED  BY <1>1, <1>5, <3>1 DEF IInv, TypeInv
  <2>4. \A h \in GPU : stage'[h] = "stopped" => \A p \in Wanted(req) : tlb'[h][p] = None
    BY <1>1, <1>3, <2>2 DEF IInv, TranslationInv
  <2> QED  BY <1>6, <2>1, <2>2, <2>3, <2>4 DEF TranslationInv
<1> QED  BY <1>7, <1>8, <1>9, <1>10 DEF IInv, PhaseInv

\* The last stage of a shoot-down: the TLBs drop the pages.
LEMMA ProcessTLBFlushRspIInv ==
  ASSUME NEW g \in GPU
  PROVE  IInv /\ ProcessTLBFlushRsp(g) => IInv'
<1> SUFFICES ASSUME IInv, ProcessTLBFlushRsp(g)  PROVE IInv'
  OBVIOUS
<1> DEFINE req == currentPageMigrationReq
<1> USE KindNames DEF drvVars, mmuVars, pageVars, rdmaVars, cntVars, flagVars, sendVars
<1>1. /\ stage[g] = "tlbFlush" /\ stage' = [stage EXCEPT ![g] = "stopped"]
      /\ fromCP' = [fromCP EXCEPT ![g] = "shootdownRsp"]
      /\ tlb' = [tlb EXCEPT ![g] = [p \in Page |->
                   IF p \in currShootdownRequest[g] THEN None ELSE tlb[g][p]]]
      /\ UNCHANGED <<drvVars, mmuVars, pageVars, toCP, currShootdownRequest, rdmaVars, pmc>>
  BY DEF ProcessTLBFlushRsp, NextStage, Answered
<1>2. g \in Flushing
  BY <1>1 DEF Flushing
<1>3. ShootPhase
  BY <1>2, PhaseOf DEF IInv
<1>4. /\ stage'[g] = "stopped" /\ \A h \in GPU \ {g} : stage'[h] = stage[h]
      /\ stage' \in [GPU -> Stages]
  BY <1>1 DEF IInv, TypeInv, Stages
<1>5. /\ Round(requestsToSend, toCP, fromCP, "shootdown", "shootdownRsp", Accessing,
               Wanted(req), numShootDownACK, Flushing)
      /\ Wanted(req) \in SUBSET Page
  BY <1>3 DEF ShootPhase, Wanted
<1>6. Flushing' = Flushing \ {g}
  BY <1>4 DEF Flushing
<1>7. numShootDownACK # 0 /\ Wanted(req)' = Wanted(req)
  BY <1>1, <1>5, RoundCount DEF Wanted
<1>8. currShootdownRequest[g] = Wanted(req)
  BY <1>2, <1>7 DEF IInv, TranslationInv
<1>9. /\ \A p \in Page : tlb'[g][p] = IF p \in Wanted(req) THEN None ELSE tlb[g][p]
      /\ \A h \in GPU \ {g} : tlb'[h] = tlb[h]
      /\ tlb' \in [GPU -> [Page -> (GPU \X Nat) \cup {None}]]
  BY <1>1, <1>8 DEF IInv, TypeInv
<1>10. TypeInv'
  BY <1>1, <1>4, <1>9 DEF IInv, TypeInv
<1>11. ShootPhase'
  <2>1. Round(requestsToSend, toCP, fromCP', "shootdown", "shootdownRsp", Accessing,
              Wanted(req), numShootDownACK, Flushing \ {g})
    BY <1>1, <1>2, <1>5, RoundAnswer
  <2>2. g \in Accessing /\ g \notin Ordered(requestsToSend, toCP)
    BY <1>2, <1>5, RoundMembers
  <2>3. /\ Handling' = Handling /\ (NoCopies)' = NoCopies /\ Accessing' = Accessing
        /\ AllPaused' = AllPaused
    BY <1>1 DEF Handling, NoCopies, Accessing, AllPaused
  <2>4. \A h \in GPU :
          IF h \in Ordered(requestsToSend, toCP) \/ h \notin Accessing THEN stage'[h] = "run"
          ELSE h \in Flushing \ {g} \/ stage'[h] = "stopped"
    BY <1>3, <1>4, <2>2 DEF ShootPhase
  <2> QED  BY <1>1, <1>3, <1>6, <1>7, <2>1, <2>3, <2>4 DEF ShootPhase
<1>12. RDMAInv' /\ MMUInv'
  BY <1>1, RDMAUnchanged, MMUUnchanged DEF IInv
<1>13. TranslationInv'
  <2>1. \A h \in GPU, p \in Page : tlb'[h][p] = tlb[h][p] \/ tlb'[h][p] = None
    BY <1>9
  <2>2. /\ TranslationsCurrent' /\ (mmuPort # None => Blocked(mmuPort))'
        /\ (BeforeCopies => Blocked(req))'
    BY <1>1, <2>1 DEF IInv, TranslationInv, TranslationsCurrent, Blocked, BeforeCopies, Wanted
  <2>3. \A h \in Flushing \ {g} : currShootdownRequest'[h] = Wanted(req)
    BY <1>1, <1>7 DEF IInv, TranslationInv
  <2>4. \A h \in GPU : stage'[h] = "stopped" => \A p \in Wanted(req) : tlb'[h][p] = None
    BY <1>4, <1>5, <1>7, <1>9 DEF IInv, TranslationInv
  <2> QED  BY <1>6, <1>7, <2>2, <2>3, <2>4 DEF TranslationInv
<1> QED  BY <1>10, <1>11, <1>12, <1>13 DEF IInv, PhaseInv

\* A stage in the middle of a shoot-down or of a restart.  The caches lose
\* nothing that an engine waits for, since the engines are paused.
LEMMA NextStageIInv ==
  ASSUME NEW g \in GPU, IInv, NEW now, NEW next \in Stages, NextStage(g, now, next),
         \/ {now, next} \subseteq {"cuFlush", "atFlush", "cacheFlush", "tlbFlush"}
         \/ {now, next} \subseteq {"cacheRestart", "tlbRestart", "atRestart", "cuRestart"},
         DOMAIN toRDMA' = GPU,
         UNCHANGED <<drvVars, mmuVars, pageVars, linkVars, currShootdownRequest, rdma, flight,
                     pmc, tlb>>
  PROVE  IInv'
<1> USE KindNames DEF drvVars, mmuVars, pageVars, linkVars, cntVars, flagVars, sendVars
<1>1. /\ stage[g] = now /\ stage'[g] = next /\ \A h \in GPU \ {g} : stage'[h] = stage[h]
      /\ stage' \in [GPU -> Stages]
  BY DEF IInv, TypeInv, NextStage
<1>2. Flushing' = Flushing /\ Restarting' = Restarting /\ g \in Flushing \cup Restarting
  BY <1>1 DEF Flushing, Restarting
<1>3. \A h \in GPU : (stage'[h] = "stopped" <=> stage[h] = "stopped")
                     /\ (stage'[h] = "run" <=> stage[h] = "run")
  BY <1>1
<1>4. ShootPhase \/ RestartPhase
  BY <1>2, PhaseOf DEF IInv
<1>5. PhaseInv'
  <2>1. /\ Handling' = Handling /\ (NoCopies)' = NoCopies /\ Accessing' = Accessing
        /\ AllPaused' = AllPaused
        /\ Wanted(currentPageMigrationReq)' = Wanted(currentPageMigrationReq)
    BY DEF Handling, NoCopies, Accessing, AllPaused, Wanted
  <2>2. ShootPhase => ShootPhase'
    BY <1>2, <1>3, <2>1 DEF ShootPhase
  <2>3. RestartPhase => RestartPhase'
    BY <1>2, <1>3, <2>1 DEF RestartPhase
  <2> QED  BY <1>4, <2>2, <2>3 DEF PhaseInv
<1>6. TypeInv'
  BY <1>1 DEF IInv, TypeInv
<1>7. RDMAInv'
  <2>1. \A h \in GPU : flight[h] = None
    BY <1>2, EnginesPaused DEF IInv
  <2> QED  BY <2>1 DEF RDMAInv, RemoteAccessKept
<1>8. MMUInv'
  BY MMUUnchanged DEF IInv
<1>9. TranslationInv'
  BY <1>2, <1>3 DEF IInv, TranslationInv, TranslationsCurrent, Blocked, BeforeCopies, Wanted
<1> QED  BY <1>5, <1>6, <1>7, <1>8, <1>9 DEF IInv

LEMMA StagesIInv ==
  ASSUME NEW g \in GPU
  PROVE  IInv /\ (\/ UnitsAcknowledge(g) \/ ProcessCacheFlushRsp(g)
                  \/ ProcessCacheRestartRsp(g)) => IInv'
<1> SUFFICES ASSUME IInv, UnitsAcknowledge(g) \/ ProcessCacheFlushRsp(g)
                            \/ ProcessCacheRestartRsp(g)
             PROVE  IInv'
  OBVIOUS
<1> USE DEF Stages, rdmaVars, memVars
<1>1. DOMAIN toRDMA = GPU
  BY DEF IInv, TypeInv
<1>2. CASE UnitsAcknowledge(g)
  BY <1>1, <1>2, NextStageIInv DEF UnitsAcknowledge
<1>3. CASE ProcessCacheFlushRsp(g)
  BY <1>1, <1>3, NextStageIInv DEF ProcessCacheFlushRsp
<1>4. CASE ProcessCacheRestartRsp(g)
  BY <1>1, <1>4, NextStageIInv DEF ProcessCacheRestartRsp
<1> QED  BY <1>2, <1>3, <1>4

\* A GPU starts to restart.
LEMMA ProcessGPURestartReqIInv ==
  ASSUME NEW g \in GPU
  PROVE  IInv /\ ProcessGPURestartReq(g) => IInv'
<1> SUFFICES ASSUME IInv, ProcessGPURestartReq(g)  PROVE IInv'
  OBVIOUS
<1> USE KindNames DEF drvVars, mmuVars, pageVars, memVars, rdmaVars, cntVars, flagVars, sendVars
<1>1. /\ toCP[g] # None /\ toCP[g].kind = "restart" /\ toCP' = [toCP EXCEPT ![g] = None]
      /\ stage' = [stage EXCEPT ![g] = "cacheRestart"]
      /\ UNCHANGED <<drvVars, mmuVars, pageVars, fromCP, currShootdownRequest, rdmaVars, pmc,
                     memVars>>
  BY DEF ProcessGPURestartReq, Taken
<1>2. RestartPhase
  BY <1>1, PhaseOf DEF IInv
<1>3. /\ stage'[g] = "cacheRestart" /\ \A h \in GPU \ {g} : stage'[h] = stage[h]
      /\ stage' \in [GPU -> Stages]
  BY <1>1 DEF IInv, TypeInv, Stages
<1>4. /\ Round(requestsToSend, toCP, fromCP, "restart", "restartRsp", Accessing, {},
               numRestartACK, Restarting)
      /\ {} \in SUBSET Page
  BY <1>2 DEF RestartPhase
<1>5. Restarting' = Restarting \cup {g}
  BY <1>3 DEF Restarting
<1>6. TypeInv'
  BY <1>1, <1>3 DEF IInv, TypeInv
<1>7. RestartPhase'
  <2>1. toCP[g] # None /\ toCP' = [toCP EXCEPT ![g] = None]
    BY <1>1
  <2>2. Round(requestsToSend, toCP', fromCP, "restart", "restartRsp", Accessing, {},
              numRestartACK, Restarting \cup {g})
    BY <1>4, <2>1, RoundTake
  <2>3. g \notin InQueue(requestsToSend) /\ DOMAIN toCP = GPU
    BY <1>4, <2>1, RoundQueue DEF IInv, TypeInv
  <2>4. Ordered(requestsToSend, toCP') = Ordered(requestsToSend, toCP) \ {g}
    BY <2>1, <2>3 DEF Ordered
  <2>5. /\ Handling' = Handling /\ (NoCopies)' = NoCopies /\ Accessing' = Accessing
        /\ AllPaused' = AllPaused
    BY <1>1 DEF Handling, NoCopies, Accessing, AllPaused
  <2>6. \A h \in GPU :
          IF h \in Ordered(requestsToSend, toCP') THEN stage'[h] = "stopped"
          ELSE h \in Restarting \cup {g} \/ stage'[h] = "run"
    BY <1>2, <1>3, <2>4 DEF RestartPhase
  <2> QED  BY <1>1, <1>2, <1>5, <2>2, <2>5, <2>6 DEF RestartPhase
<1>8. RDMAInv' /\ MMUInv'
  BY <1>1, RDMAUnchanged, MMUUnchanged DEF IInv
<1>9. TranslationInv'
  <2>1. numShootDownACK' = 0
    BY <1>1, <1>2 DEF RestartPhase
  <2>2. /\ TranslationsCurrent' /\ (mmuPort # None => Blocked(mmuPort))'
        /\ (BeforeCopies => Blocked(currentPageMigrationReq))'
    BY <1>1 DEF IInv, TranslationInv, TranslationsCurrent, Blocked, BeforeCopies, Wanted
  <2> QED  BY <2>1, <2>2 DEF TranslationInv
<1> QED  BY <1>6, <1>7, <1>8, <1>9 DEF IInv, PhaseInv

\* A GPU runs again.
LEMMA ProcessCUPipelineRestartRspIInv ==
  ASSUME NEW g \in GPU
  PROVE  IInv /\ ProcessCUPipelineRestartRsp(g) => IInv'
<1> SUFFICES ASSUME IInv, ProcessCUPipelineRestartRsp(g)  PROVE IInv'
  OBVIOUS
<1> USE KindNames DEF drvVars, mmuVars, pageVars, memVars, rdmaVars, cntVars, flagVars, sendVars
<1>1. /\ stage[g] = "cuRestart" /\ stage' = [stage EXCEPT ![g] = "run"]
      /\ fromCP' = [fromCP EXCEPT ![g] = "restartRsp"]
      /\ UNCHANGED <<drvVars, mmuVars, pageVars, toCP, currShootdownRequest, rdmaVars, pmc,
                     memVars>>
  BY DEF ProcessCUPipelineRestartRsp, NextStage, Answered
<1>2. g \in Restarting
  BY <1>1 DEF Restarting
<1>3. RestartPhase
  BY <1>2, PhaseOf DEF IInv
<1>4. /\ stage'[g] = "run" /\ \A h \in GPU \ {g} : stage'[h] = stage[h]
      /\ stage' \in [GPU -> Stages]
  BY <1>1 DEF IInv, TypeInv, Stages
<1>5. /\ Round(requestsToSend, toCP, fromCP, "restart", "restartRsp", Accessing, {},
               numRestartACK, Restarting)
      /\ {} \in SUBSET Page
  BY <1>3 DEF RestartPhase
<1>6. Restarting' = Restarting \ {g}
  BY <1>4 DEF Restarting
<1>7. TypeInv'
  BY <1>1, <1>4 DEF IInv, TypeInv
<1>8. RestartPhase'
  <2>1. Round(requestsToSend, toCP, fromCP', "restart", "restartRsp", Accessing, {},
              numRestartACK, Restarting \ {g})
    BY <1>1, <1>2, <1>5, RoundAnswer
  <2>2. g \notin Ordered(requestsToSend, toCP)
    BY <1>2, <1>5, RoundMembers
  <2>3. /\ Handling' = Handling /\ (NoCopies)' = NoCopies /\ Accessing' = Accessing
        /\ AllPaused' = AllPaused
    BY <1>1 DEF Handling, NoCopies, Accessing, AllPaused
  <2>4. \A h \in GPU :
          IF h \in Ordered(requestsToSend, toCP) THEN stage'[h] = "stopped"
          ELSE h \in Restarting \ {g} \/ stage'[h] = "run"
    BY <1>3, <1>4, <2>2 DEF RestartPhase
  <2> QED  BY <1>1, <1>3, <1>6, <2>1, <2>3, <2>4 DEF RestartPhase
<1>9. RDMAInv' /\ MMUInv'
  BY <1>1, RDMAUnchanged, MMUUnchanged DEF IInv
<1>10. TranslationInv'
  <2>1. numShootDownACK' = 0
    BY <1>1, <1>3 DEF RestartPhase
  <2>2. /\ TranslationsCurrent' /\ (mmuPort # None => Blocked(mmuPort))'
        /\ (BeforeCopies => Blocked(currentPageMigrationReq))'
    BY <1>1 DEF IInv, TranslationInv, TranslationsCurrent, Blocked, BeforeCopies, Wanted
  <2> QED  BY <2>1, <2>2 DEF TranslationInv
<1> QED  BY <1>7, <1>8, <1>9, <1>10 DEF IInv, PhaseInv

-----------------------------------------------------------------------------
(* The copies.                                                             *)

\* The copy under way moves between a port, a controller and the driver.
LEMMA CopyIInv ==
  ASSUME IInv, NEW g \in GPU, CopyPhase, ~ (fromCP[g] # None),
         toCP[g] # None \/ pmc[g] # None,
         \A h \in GPU \ {g} : /\ toCP'[h] = toCP[h] /\ pmc'[h] = pmc[h]
                              /\ fromCP'[h] = fromCP[h],
         toCP'[g] = None,
         fromCP'[g] = None \/ (fromCP'[g] = "migrateRsp" /\ pmc'[g] = None),
         toCP' \in [GPU -> Command \cup CopyReq \cup {None}],
         fromCP' \in [GPU -> Rsp \cup {None}], DOMAIN pmc' = GPU,
         UNCHANGED <<drvVars, mmuVars, pageVars, cpVars, rdmaVars, tlb>>
  PROVE  IInv'
<1> USE DEF drvVars, mmuVars, pageVars, cpVars, rdmaVars, cntVars, flagVars, sendVars
<1>1. isCurrentlyMigratingOnePage /\ OneUnderWay
  BY DEF CopyPhase
<1>2. \A h \in GPU \ {g} : toCP[h] = None /\ pmc[h] = None /\ fromCP[h] = None
  BY <1>1 DEF OneUnderWay
<1>3. OneUnderWay'
  BY <1>2 DEF OneUnderWay
<1>4. CopyPhase'
  <2>1. Handling' = Handling /\ Accessing' = Accessing /\ AllPaused' = AllPaused
    BY DEF Handling, Accessing, AllPaused
  <2> QED  BY <1>1, <1>3, <2>1 DEF CopyPhase
<1>5. TypeInv'
  BY DEF IInv, TypeInv
<1>6. RDMAInv' /\ MMUInv' /\ TranslationInv'
  BY RDMAUnchanged, MMUUnchanged, TranslationUnchanged DEF IInv
<1> QED  BY <1>4, <1>5, <1>6 DEF IInv, PhaseInv

LEMMA MigrationStepsIInv ==
  ASSUME NEW g \in GPU
  PROVE  IInv /\ (\/ ProcessPageMigrationReq(g) \/ PullData(g) \/ WriteData(g)
                  \/ ProcessPageMigrationRsp(g)) => IInv'
<1> SUFFICES ASSUME IInv, \/ ProcessPageMigrationReq(g) \/ PullData(g) \/ WriteData(g)
                          \/ ProcessPageMigrationRsp(g)
             PROVE  IInv'
  OBVIOUS
<1> USE DEF linkVars, memVars
<1>1. /\ DOMAIN pmc = GPU /\ toCP \in [GPU -> Command \cup CopyReq \cup {None}]
      /\ fromCP \in [GPU -> Rsp \cup {None}]
  BY DEF IInv, TypeInv
<1>2. CopyPhase /\ (toCP[g] # None \/ pmc[g] # None)
  BY PhaseOf DEF IInv, ProcessPageMigrationReq, PullData, WriteData, ProcessPageMigrationRsp
<1>3. fromCP[g] = None /\ (pmc[g] # None => toCP[g] = None)
  <2>1. OneUnderWay
    BY <1>2 DEF CopyPhase
  <2> QED  BY <1>2, <2>1 DEF OneUnderWay
<1>4. CASE ProcessPageMigrationReq(g)
  <2>1. /\ toCP' = [toCP EXCEPT ![g] = None] /\ DOMAIN pmc' = GPU
        /\ \A h \in GPU \ {g} : pmc'[h] = pmc[h]
        /\ UNCHANGED <<drvVars, mmuVars, pageVars, fromCP, cpVars, rdmaVars, memVars>>
    BY <1>1, <1>4 DEF ProcessPageMigrationReq, Taken
  <2> QED  BY <1>1, <1>2, <1>3, <2>1, CopyIInv
<1>5. CASE PullData(g) \/ WriteData(g)
  <2>1. /\ DOMAIN pmc' = GPU /\ \A h \in GPU \ {g} : pmc'[h] = pmc[h]
        /\ UNCHANGED <<drvVars, mmuVars, pageVars, linkVars, cpVars, rdmaVars, tlb>>
        /\ pmc[g] # None
    BY <1>1, <1>5 DEF PullData, WriteData
  <2> QED  BY <1>1, <1>2, <1>3, <2>1, CopyIInv
<1>6. CASE ProcessPageMigrationRsp(g)
  <2>1. /\ pmc' = [pmc EXCEPT ![g] = None] /\ pmc[g] # None
        /\ fromCP' = [fromCP EXCEPT ![g] = "migrateRsp"]
        /\ UNCHANGED <<drvVars, mmuVars, pageVars, toCP, cpVars, rdmaVars, memVars>>
    BY <1>6 DEF ProcessPageMigrationRsp, Answered
  <2> QED  BY <1>1, <1>2, <1>3, <2>1, KindNames, CopyIInv
<1> QED  BY <1>4, <1>5, <1>6

-----------------------------------------------------------------------------
(* The invariant and what follows from it.                                 *)

LEMMA InitIInv == Init => IInv
<1> SUFFICES ASSUME Init  PROVE IInv
  OBVIOUS
<1> USE DEF Init
<1>1. TypeInv
  <2>1. pageTable \in [Page -> GPU \X Nat]
    BY PlaceAssumption, FiniteGPU DEF Page
  <2>2. allocated \in [GPU -> Nat]
    BY FiniteGPU
  <2>3. /\ requestsToSend \in Seq(Command) /\ migrationReqToSendToCP \in Seq(CopyReq)
    BY EmptySeq
  <2> QED  BY <2>1, <2>2, <2>3 DEF TypeInv, Stages
<1>2. PhaseInv
  <2>1. NoOrders /\ NoCopies
    BY DEF NoOrders, NoCopies
  <2> QED  BY <2>1 DEF PhaseInv, Idle
<1>3. RDMAInv
  BY DEF RDMAInv, RemoteAccessKept
<1>4. MMUInv
  BY DEF MMUInv, BeforeCopies
<1>5. TranslationInv
  BY DEF TranslationInv, TranslationsCurrent, BeforeCopies
<1> QED  BY <1>1, <1>2, <1>3, <1>4, <1>5 DEF IInv

\* Every step keeps the invariant.
LEMMA NextIInv == IInv /\ [Next]_vars => IInv'
<1> SUFFICES ASSUME IInv, [Next]_vars  PROVE IInv'
  OBVIOUS
<1>1. CASE UNCHANGED vars
  BY <1>1, StutterIInv
<1>2. CASE ParseFromMMU \/ SendToGPUs \/ SendMigrationReqToCP \/ SendToMMU
  BY <1>2, ParseFromMMUIInv, SendToGPUsIInv, SendMigrationReqToCPIInv, SendToMMUIInv
<1>3. ASSUME NEW g \in GPU, DriverStep(g)  PROVE IInv'
  BY <1>3, ProcessRDMADrainRspIInv, ProcessShootdownCompleteRspIInv,
     ProcessPageMigrationRspIInv, HandleGPURestartRspIInv, ProcessRDMARestartRspIInv
     DEF DriverStep
<1>4. ASSUME NEW g \in GPU, CommandStep(g)  PROVE IInv'
  BY <1>4, ProcessRDMADrainCmdIInv, DrainRDMAIInv, ProcessRDMARestartCommandIInv,
     ProcessShootdownCommandIInv, ProcessTLBFlushRspIInv, StagesIInv,
     ProcessGPURestartReqIInv, ProcessCUPipelineRestartRspIInv, MigrationStepsIInv
     DEF CommandStep
<1>5. ASSUME NEW g \in GPU, MemoryStep(g)  PROVE IInv'
  BY <1>5, MemoryStepIInv
<1>6. CASE RequestMigration \/ MigrationReturn
  BY <1>6, RequestMigrationIInv, MigrationReturnIInv
<1>7. ASSUME NEW g \in GPU, NEW p \in Page,
             Translate(g, p) \/ WriteLocal(g, p) \/ WriteRemote(g, p)
      PROVE  IInv'
  BY <1>7, TranslateIInv, WriteIInv
<1> QED  BY <1>1, <1>2, <1>3, <1>4, <1>5, <1>6, <1>7 DEF Next

\* The invariant holds in every reachable state, for every number of GPUs and
\* pages, every placement and any number of migrations and writes: a
\* migration is in one phase at a time, and the commands and answers under
\* way are those its counters wait for.
THEOREM Invariance == Spec => []IInv
<1> QED  BY NextIInv, InitIInv, PTL DEF Spec

\* Whatever the accesses and migrations, a TLB never keeps a translation that
\* the page table has given up: when the pages are remapped, every GPU that
\* may have one has been shot down, and no other can get one.
THEOREM NoStaleTranslation == Spec => []TranslationsCurrent
<1>1. IInv => TranslationsCurrent
  BY DEF IInv, TranslationInv
<1> QED  BY <1>1, Invariance, PTL

\* No flush or restart of caches drops a request that an engine waits for.
THEOREM NoRemoteAccessLost == Spec => []RemoteAccessKept
<1>1. IInv => RemoteAccessKept
  BY DEF IInv, RDMAInv
<1> QED  BY <1>1, Invariance, PTL

\* One page is under way in the whole system, from the command of the driver
\* to the answer of the controller.
THEOREM PagesOneByOne == Spec => []OneCopyAtATime
<1>1. IInv => OneCopyAtATime
  <2> SUFFICES ASSUME IInv  PROVE OneCopyAtATime
    OBVIOUS
  <2> DEFINE A == {g \in GPU : pmc[g] # None}
             B == {g \in GPU : toCP[g] # None /\ toCP[g].kind = "migrate"}
  <2>1. \E x : A \cup B \subseteq {x} /\ (A = {} \/ B = {})
    <3>1. CASE CopyPhase
      <4>1. CASE \A g \in GPU : toCP[g] = None /\ pmc[g] = None /\ fromCP[g] = None
        BY <4>1
      <4>2. CASE OneUnderWay
        BY <4>2 DEF OneUnderWay
      <4> QED  BY <3>1, <4>1, <4>2 DEF CopyPhase
    <3>2. CASE ~ CopyPhase
      <4>1. \A g \in GPU : pmc[g] = None /\ ~ (toCP[g] # None /\ toCP[g].kind = "migrate")
        BY <3>2, PhaseOf DEF IInv
      <4> QED  BY <4>1
    <3> QED  BY <3>1, <3>2
  <2> HIDE DEF A, B
  <2>2. \/ A = {} /\ B = {}
        \/ \E x : A = {x} /\ B = {}
        \/ \E x : A = {} /\ B = {x}
    BY <2>1
  <2>3. Cardinality(A) + Cardinality(B) <= 1
    <3>1. Cardinality({}) = 0 /\ \A x : Cardinality({x}) = 1
      BY FS_EmptySet, FS_Singleton
    <3>2. /\ Cardinality(A) = 0 \/ Cardinality(A) = 1
          /\ Cardinality(B) = 0 \/ Cardinality(B) = 1
          /\ Cardinality(A) = 0 \/ Cardinality(B) = 0
      BY <2>2, <3>1
    <3> QED  BY <3>2
  <2> QED  BY <2>3 DEF OneCopyAtATime, A, B
<1> QED  BY <1>1, Invariance, PTL

-----------------------------------------------------------------------------
(* The data.  The last version of a page is what its frame shows, unless a *)
(* copy to this frame is still to be made, and then it is in the memory    *)
(* the copy reads from, in no cache, and nobody can write the page.        *)

Req == currentPageMigrationReq

\* The copies still to be made, with what has been read for them.
IsCopyReq(g) == toCP[g] # None /\ toCP[g].kind = "migrate"
IsCopying(g) == pmc[g] # None /\ ~ pmc[g].done
Queued  == {<<migrationReqToSendToCP[i].from, migrationReqToSendToCP[i].to, None>> :
              i \in DOMAIN migrationReqToSendToCP}
Sent    == {<<toCP[g].from, toCP[g].to, None>> : g \in {h \in GPU : IsCopyReq(h)}}
Copying == {<<pmc[g].from, pmc[g].to, pmc[g].data>> : g \in {h \in GPU : IsCopying(h)}}
Outstanding == Queued \cup Sent \cup Copying

\* A page is written after it is read.
PMC == {c \in Copy : c.done => c.data # None} \cup {None}

DataType ==
  /\ asked \in Nat /\ asked <= MaxMigrations
  /\ latest \in [Page -> Nat]
  /\ mem \in [Frame -> Nat] /\ l2 \in [Frame -> Nat \cup {None}]
  /\ \A g \in GPU : pmc[g] \in PMC

Allocated(f) == f \in Frame /\ f[2] <= allocated[f[1]]

\* Pages have frames of their own, and a frame not given out yet is clean.
FrameInv ==
  /\ \A p \in Page : Allocated(pageTable[p])
  /\ \A p, q \in Page : pageTable[p] = pageTable[q] => p = q
  /\ \A f \in Frame : ~ Allocated(f) => l2[f] = None

\* There are frames for the pages of a request, whose host is shot down.
Granted(r) ==
  /\ \A p \in Wanted(r) : Device(pageTable[p]) \in r.accessing
  /\ \A g \in GPU : allocated[g] + Cardinality(Wanted(r)) <= NumPages + asked
ReqInv ==
  /\ \A g \in GPU : allocated[g] <= NumPages + asked
  /\ mmuPort # None => Granted(mmuPort)
  /\ BeforeCopies => Granted(Req)

\* A write on its way goes to a frame of its page, the current one unless the
\* write is stale.
GoodAccess(g, a) ==
  /\ a \in Access /\ Allocated(a.frame)
  /\ \A p \in Page : pageTable[p] = a.frame => p = a.page
  /\ ~ a.stale => a.frame # None /\ tlb[g][a.page] = a.frame
AccessInv ==
  /\ \A g \in GPU : toRDMA[g] # None => GoodAccess(g, toRDMA[g])
  /\ \A g \in GPU : flight[g] # None => GoodAccess(g, flight[g])
  /\ \A g \in carried : flight[g] # None
  /\ carried \subseteq GPU
  /\ \A g \in GPU : stage[g] = "tlbFlush" /\ toRDMA[g] # None => toRDMA[g].stale

\* The caches of a GPU that is shot down stay clean.
FlushedInv ==
  \A f \in Frame : stage[Device(f)] \in {"tlbFlush", "stopped"} => l2[f] = None

\* A copy still to be made is to the frame of a page that nobody can write,
\* from a frame no page has, in whose memory the last version is.
GoodCopy(c) ==
  \E p \in Wanted(Req) :
    /\ c[1] \in Frame /\ \A q \in Page : pageTable[q] # c[1]
    /\ mem[c[1]] = latest[p]
    /\ c[2] = pageTable[p] /\ l2[c[2]] = None
    /\ c[3] # None => c[3] = latest[p]
CopyInv ==
  /\ numPagesMigratingACK # 0 =>
       \A p \in Wanted(Req) : isMigrating[p] /\ \A g \in GPU : tlb[g][p] = None
  /\ \A c \in Outstanding : GoodCopy(c)

LatestInv ==
  \A p \in Page : \/ Visible(pageTable[p]) = latest[p]
                  \/ \E c \in Outstanding : c[2] = pageTable[p]

DInv == /\ DataType /\ FrameInv /\ ReqInv /\ AccessInv
        /\ FlushedInv /\ CopyInv /\ LatestInv

-----------------------------------------------------------------------------
(* Steps that leave the data where it is.                                  *)

\* Copies are made in one phase.
LEMMA CopiesInPhase ==
  IInv => /\ numPagesMigratingACK # 0 <=> CopyPhase
          /\ Outstanding # {} => CopyPhase
          /\ CopyPhase => ~ BeforeCopies
<1> SUFFICES ASSUME IInv
             PROVE  /\ numPagesMigratingACK # 0 <=> CopyPhase
                    /\ Outstanding # {} => CopyPhase
                    /\ CopyPhase => ~ BeforeCopies
  OBVIOUS
<1>1. numPagesMigratingACK # 0 <=> CopyPhase
  BY DEF IInv, PhaseInv, Idle, DrainPhase, ShootPhase, CopyPhase, RestartPhase,
         RDMARestartPhase, NoCopies
<1>2. ASSUME ~ CopyPhase  PROVE Outstanding = {}
  <2>1. NoCopies
    BY <1>2 DEF IInv, PhaseInv, Idle, DrainPhase, ShootPhase, RestartPhase,
                RDMARestartPhase
  <2>2. migrationReqToSendToCP = <<>> /\ \A g \in GPU : pmc[g] = None
    BY <2>1 DEF NoCopies
  <2>3. \A g \in GPU : ~ IsCopyReq(g)
    BY <1>2, PhaseOf DEF IInv, IsCopyReq
  <2>4. Queued = {} /\ Sent = {} /\ Copying = {}
    BY <2>2, <2>3 DEF Queued, Sent, Copying, IsCopying
  <2> QED  BY <2>4 DEF Outstanding
<1>3. CopyPhase => ~ BeforeCopies
  BY DEF CopyPhase, BeforeCopies
<1> QED  BY <1>1, <1>2, <1>3

LEMMA CopiesInPhaseNext ==
  ASSUME IInv'
  PROVE  /\ (numPagesMigratingACK # 0 <=> CopyPhase)'
         /\ (Outstanding # {} => CopyPhase)'
         /\ (CopyPhase => ~ BeforeCopies)'
BY CopiesInPhase, PTL

dataVars == <<mem, l2, latest, tlb, pageTable, allocated>>

\* A request stays granted while frames are neither given out nor moved.
LEMMA GrantsKept ==
  ASSUME ReqInv, UNCHANGED <<allocated, pageTable, asked>>,
         mmuPort' # None => mmuPort' = mmuPort,
         BeforeCopies' => BeforeCopies /\ UNCHANGED Req
  PROVE  ReqInv'
BY DEF ReqInv, Granted, Wanted

\* A step that moves commands, requests and copies to where they are needed.
LEMMA CopyStep ==
  ASSUME IInv, IInv', DInv,
         UNCHANGED dataVars, UNCHANGED <<toRDMA, flight>>,
         carried' \subseteq carried,
         \A c \in Outstanding' : GoodCopy(c),
         \A c \in Outstanding : \E d \in Outstanding' : d[2] = c[2],
         \A g \in GPU : pmc'[g] \in PMC,
         asked' \in Nat /\ asked' <= MaxMigrations, ReqInv',
         numPagesMigratingACK' # 0 =>
           numPagesMigratingACK # 0 /\ UNCHANGED <<Req, isMigrating>>,
         \A g \in GPU : stage'[g] \in {"tlbFlush", "stopped"} => stage'[g] = stage[g]
  PROVE  DInv'
<1> USE DEF dataVars
<1>1. DataType'
  BY DEF DInv, DataType
<1>2. FrameInv'
  BY DEF DInv, FrameInv, Allocated
<1>3. AccessInv'
  BY DEF DInv, AccessInv, GoodAccess, Allocated
<1>4. FlushedInv'
  BY DEF DInv, FlushedInv, Frame, Device
<1>5. CopyInv'
  <2>1. ASSUME numPagesMigratingACK' # 0
        PROVE  \A p \in Wanted(Req)' : isMigrating'[p] /\ \A g \in GPU : tlb'[g][p] = None
    BY <2>1 DEF DInv, CopyInv, Wanted
  <2>2. ASSUME NEW c \in Outstanding'  PROVE GoodCopy(c)'
    <3>1. numPagesMigratingACK' # 0
      BY <2>2, CopiesInPhaseNext
    <3> QED  BY <2>2, <3>1 DEF GoodCopy, Wanted
  <2> QED  BY <2>1, <2>2 DEF CopyInv
<1>6. LatestInv'
  BY DEF DInv, LatestInv, Visible
<1> QED  BY <1>1, <1>2, <1>3, <1>4, <1>5, <1>6 DEF DInv

\* A step that changes no copy either.
LEMMA QuietStep ==
  ASSUME IInv, IInv', DInv,
         UNCHANGED dataVars, UNCHANGED <<toRDMA, flight>>,
         carried' \subseteq carried,
         Outstanding' = Outstanding,
         \A g \in GPU : pmc'[g] \in PMC,
         asked' \in Nat /\ asked' <= MaxMigrations, ReqInv',
         numPagesMigratingACK' # 0 =>
           numPagesMigratingACK # 0 /\ UNCHANGED <<Req, isMigrating>>,
         \A g \in GPU : stage'[g] \in {"tlbFlush", "stopped"} => stage'[g] = stage[g]
  PROVE  DInv'
<1>1. \A c \in Outstanding' : GoodCopy(c)
  BY DEF DInv, CopyInv
<1>2. \A c \in Outstanding : \E d \in Outstanding' : d[2] = c[2]
  OBVIOUS
<1> QED  BY <1>1, <1>2, CopyStep

\* The copies to be made depend on nothing else.
LEMMA CopiesUnchanged ==
  ASSUME UNCHANGED <<migrationReqToSendToCP, toCP, pmc>>
  PROVE  Outstanding' = Outstanding
BY DEF Outstanding, Queued, Sent, Copying, IsCopyReq, IsCopying

\* The copies to be made, when no command to make one comes or goes.
LEMMA CopiesKept ==
  ASSUME UNCHANGED <<migrationReqToSendToCP, pmc>>,
         \A g \in GPU : IsCopyReq(g)' <=> IsCopyReq(g),
         \A g \in GPU : IsCopyReq(g) => toCP'[g] = toCP[g]
  PROVE  Outstanding' = Outstanding
<1>1. Queued' = Queued /\ Copying' = Copying
  BY DEF Queued, Copying, IsCopying
<1>2. Sent' = Sent
  BY DEF Sent
<1> QED  BY <1>1, <1>2 DEF Outstanding

\* The driver takes an answer that ends no shoot-down.
LEMMA AnswersDInv ==
  ASSUME IInv, IInv', DInv, NEW g \in GPU,
         \/ ProcessRDMADrainRsp(g) \/ ProcessPageMigrationRspFromCP(g)
         \/ HandleGPURestartRsp(g) \/ ProcessRDMARestartRspToDriver(g)
  PROVE  DInv'
<1> USE DEF drvVars, mmuVars, pageVars, linkVars, gpuVars, memVars, cpVars, rdmaVars,
            cntVars, flagVars, sendVars, Receive
<1>1. /\ UNCHANGED dataVars /\ UNCHANGED <<isMigrating, toRDMA, flight, carried, stage>>
      /\ UNCHANGED <<migrationReqToSendToCP, toCP, pmc, mmuPort, asked>>
  BY DEF ProcessRDMADrainRsp, ProcessPageMigrationRspFromCP, HandleGPURestartRsp,
         ProcessRDMARestartRspToDriver, dataVars
<1>2. Outstanding' = Outstanding
  BY <1>1, CopiesUnchanged
<1>3. \A h \in GPU : pmc'[h] \in PMC
  BY <1>1 DEF DInv, DataType
<1>4. /\ BeforeCopies' => BeforeCopies /\ UNCHANGED Req
      /\ numPagesMigratingACK' # 0 =>
           numPagesMigratingACK # 0 /\ UNCHANGED <<Req, isMigrating>>
  <2>1. CASE HandleGPURestartRsp(g)
    BY <2>1 DEF HandleGPURestartRsp, BeforeCopies, Req
  <2>2. CASE ProcessRDMADrainRsp(g)
    <3>1. DrainPhase
      BY <2>2, PhaseOf DEF ProcessRDMADrainRsp, IInv
    <3>2. numRDMADrainACK # 0
      BY <3>1, KindNames, RoundCount DEF DrainPhase
    <3> QED  BY <2>2, <3>2 DEF ProcessRDMADrainRsp, BeforeCopies, Req
  <2>3. CASE ProcessPageMigrationRspFromCP(g)
    <3>1. CopyPhase
      BY <2>3, PhaseOf DEF ProcessPageMigrationRspFromCP, IInv
    <3> QED  BY <2>3, <3>1 DEF ProcessPageMigrationRspFromCP, BeforeCopies, Req, CopyPhase
  <2>4. CASE ProcessRDMARestartRspToDriver(g)
    <3>1. RDMARestartPhase
      BY <2>4, PhaseOf DEF ProcessRDMARestartRspToDriver, IInv
    <3> QED  BY <2>4, <3>1 DEF ProcessRDMARestartRspToDriver, BeforeCopies, RDMARestartPhase,
                               NoCopies
  <2> QED  BY <2>1, <2>2, <2>3, <2>4
<1>5. asked' \in Nat /\ asked' <= MaxMigrations /\ ReqInv'
  BY <1>1, <1>4, GrantsKept DEF DInv, DataType, dataVars
<1> QED  BY <1>1, <1>2, <1>3, <1>4, <1>5, QuietStep

\* A command processor takes a command, or passes a stage that moves no data.
LEMMA CommandsDInv ==
  ASSUME IInv, IInv', DInv, NEW g \in GPU,
         \/ ProcessRDMADrainCmd(g) \/ DrainRDMA(g) \/ ProcessRDMARestartCommand(g)
         \/ ProcessShootdownCommand(g) \/ UnitsAcknowledge(g) \/ ProcessGPURestartReq(g)
         \/ ProcessCacheRestartRsp(g) \/ ProcessCUPipelineRestartRsp(g)
  PROVE  DInv'
<1> USE DEF drvVars, mmuVars, pageVars, linkVars, gpuVars, memVars, cpVars, rdmaVars,
            cntVars, flagVars, sendVars, Taken, Answered, NextStage
<1>1. /\ UNCHANGED dataVars /\ UNCHANGED <<isMigrating, toRDMA, flight, mmuPort, asked>>
      /\ UNCHANGED <<migrationReqToSendToCP, pmc, numPagesMigratingACK, Req>>
      /\ UNCHANGED <<numRDMADrainACK, numShootDownACK>> /\ carried' \subseteq carried
  BY DEF ProcessRDMADrainCmd, DrainRDMA, ProcessRDMARestartCommand, ProcessShootdownCommand,
         UnitsAcknowledge, ProcessGPURestartReq, ProcessCacheRestartRsp,
         ProcessCUPipelineRestartRsp, dataVars, Req
<1>2. toCP \in [GPU -> Command \cup CopyReq \cup {None}] /\ stage \in [GPU -> Stages]
  BY DEF IInv, TypeInv
<1>3. Outstanding' = Outstanding
  <2>1. \/ toCP' = toCP
        \/ toCP' = [toCP EXCEPT ![g] = None] /\ ~ IsCopyReq(g)
    BY DEF ProcessRDMADrainCmd, DrainRDMA, ProcessRDMARestartCommand, ProcessShootdownCommand,
           UnitsAcknowledge, ProcessGPURestartReq, ProcessCacheRestartRsp,
           ProcessCUPipelineRestartRsp, IsCopyReq
  <2>2. /\ \A h \in GPU : IsCopyReq(h)' <=> IsCopyReq(h)
        /\ \A h \in GPU : IsCopyReq(h) => toCP'[h] = toCP[h]
    BY <1>2, <2>1 DEF IsCopyReq
  <2> QED  BY <1>1, <2>2, CopiesKept
<1>4. \A h \in GPU : stage'[h] \in {"tlbFlush", "stopped"} => stage'[h] = stage[h]
  BY <1>2 DEF ProcessRDMADrainCmd, DrainRDMA, ProcessRDMARestartCommand,
         ProcessShootdownCommand, UnitsAcknowledge, ProcessGPURestartReq,
         ProcessCacheRestartRsp, ProcessCUPipelineRestartRsp
<1>5. \A h \in GPU : pmc'[h] \in PMC
  BY <1>1 DEF DInv, DataType
<1>6. asked' \in Nat /\ asked' <= MaxMigrations /\ ReqInv'
  BY <1>1, GrantsKept DEF DInv, DataType, dataVars, BeforeCopies
<1> QED  BY <1>1, <1>3, <1>4, <1>5, <1>6, QuietStep

\* The driver sends a command of a round.
LEMMA SendToGPUsDInv ==
  ASSUME IInv, IInv', DInv, SendToGPUs
  PROVE  DInv'
<1> USE DEF mmuVars, pageVars, gpuVars, memVars, rdmaVars, cpVars, cntVars, flagVars
<1> DEFINE req == Head(requestsToSend)
<1>1. /\ requestsToSend # <<>> /\ toCP[req.gpu] = None
      /\ toCP' = [toCP EXCEPT ![req.gpu] = req]
      /\ UNCHANGED <<cntVars, flagVars, migrationReqToSendToCP, mmuVars, pageVars, gpuVars,
                     memVars>>
  BY DEF SendToGPUs
<1>2. req \in Command
  BY <1>1, EmptySeq, HeadTailProperties DEF IInv, TypeInv
<1>3. toCP \in [GPU -> Command \cup CopyReq \cup {None}]
  BY DEF IInv, TypeInv
<1>4. req.kind # "migrate" /\ req.gpu \in GPU
  BY <1>2 DEF Command
<1> HIDE DEF req
<1>5. Outstanding' = Outstanding
  <2>1. /\ \A h \in GPU : IsCopyReq(h)' <=> IsCopyReq(h)
        /\ \A h \in GPU : IsCopyReq(h) => toCP'[h] = toCP[h]
    BY <1>1, <1>3, <1>4 DEF IsCopyReq
  <2> QED  BY <1>1, <2>1, CopiesKept
<1>6. /\ asked' \in Nat /\ asked' <= MaxMigrations /\ ReqInv'
      /\ \A h \in GPU : pmc'[h] \in PMC
  BY <1>1, GrantsKept DEF DInv, DataType, BeforeCopies, Req
<1> QED  BY <1>1, <1>5, <1>6, QuietStep DEF dataVars, Req

\* The driver answers the MMU.
LEMMA SendToMMUDInv ==
  ASSUME IInv, IInv', DInv, SendToMMU
  PROVE  DInv'
<1> USE DEF linkVars, gpuVars, memVars, pageVars, rdmaVars, cpVars, cntVars, flagVars
<1>1. UNCHANGED <<cntVars, flagVars, migrationReqToSendToCP, mmuPort, asked, pageVars, linkVars,
                  gpuVars, memVars>>
  BY DEF SendToMMU
<1>2. Outstanding' = Outstanding
  BY <1>1, CopiesUnchanged
<1>3. /\ asked' \in Nat /\ asked' <= MaxMigrations /\ ReqInv'
      /\ \A h \in GPU : pmc'[h] \in PMC
  BY <1>1, GrantsKept DEF DInv, DataType, BeforeCopies, Req
<1> QED  BY <1>1, <1>2, <1>3, QuietStep DEF dataVars, Req

\* The MMU has its answer: by then the copies are made.
LEMMA MigrationReturnDInv ==
  ASSUME IInv, IInv', DInv, MigrationReturn
  PROVE  DInv'
<1> USE DEF drvVars, linkVars, gpuVars, memVars, rdmaVars, cpVars, cntVars, flagVars, sendVars
<1>1. /\ mmuRsp # None
      /\ UNCHANGED <<drvVars, mmuPort, asked, pageTable, allocated, linkVars, gpuVars, memVars>>
  BY DEF MigrationReturn
<1>2. numPagesMigratingACK' = 0
  BY <1>1 DEF IInv, MMUInv
<1>3. Outstanding' = Outstanding
  BY <1>1, CopiesUnchanged
<1>4. /\ asked' \in Nat /\ asked' <= MaxMigrations /\ ReqInv'
      /\ \A h \in GPU : pmc'[h] \in PMC
  BY <1>1, GrantsKept DEF DInv, DataType, BeforeCopies, Req
<1> QED  BY <1>1, <1>2, <1>3, <1>4, QuietStep DEF dataVars

\* The driver takes a request of the MMU.
LEMMA ParseFromMMUDInv ==
  ASSUME IInv, IInv', DInv, ParseFromMMU
  PROVE  DInv'
<1> USE DEF pageVars, linkVars, gpuVars, memVars, cpVars, rdmaVars
<1>1. /\ mmuPort # None /\ mmuPort' = None /\ currentPageMigrationReq' = mmuPort
      /\ UNCHANGED <<numPagesMigratingACK, migrationReqToSendToCP, asked, pageVars, linkVars,
                     gpuVars, memVars>>
  BY DEF ParseFromMMU
<1>2. numPagesMigratingACK' = 0
  BY <1>1 DEF IInv, MMUInv
<1>3. Outstanding' = Outstanding
  BY <1>1, CopiesUnchanged
<1>4. ReqInv'
  BY <1>1 DEF DInv, ReqInv, Granted, Req, Wanted
<1>5. /\ asked' \in Nat /\ asked' <= MaxMigrations
      /\ \A h \in GPU : pmc'[h] \in PMC
  BY <1>1 DEF DInv, DataType
<1> QED  BY <1>1, <1>2, <1>3, <1>4, <1>5, QuietStep DEF dataVars

\* The MMU asks for pages of one GPU, which is among those it names.
LEMMA RequestMigrationDInv ==
  ASSUME IInv, IInv', DInv, RequestMigration
  PROVE  DInv'
<1> USE DEF drvVars, linkVars, gpuVars, memVars, rdmaVars, cpVars, cntVars, flagVars, sendVars
<1>1. PICK want \in [Page -> GPU \cup {None}], host \in GPU :
        LET pages == {p \in Page : want[p] # None}
        IN  /\ pages # {}
            /\ asked + Cardinality(pages) <= MaxMigrations
            /\ \A p \in pages : Device(pageTable[p]) = host /\ want[p] # host
            /\ asked' = asked + Cardinality(pages)
            /\ mmuPort' =
                 [want |-> want, host |-> host,
                  accessing |-> {host} \cup
                     {g \in GPU : \E p \in pages : tlb[g][p] # None}]
  BY DEF RequestMigration
<1> DEFINE pages == {p \in Page : want[p] # None}
<1>2. /\ ~ isDoingMigration
      /\ UNCHANGED <<drvVars, mmuRsp, pageTable, allocated, linkVars, gpuVars, memVars>>
  BY DEF RequestMigration
<1>3. numPagesMigratingACK' = 0 /\ ~ BeforeCopies'
  BY <1>2 DEF IInv, MMUInv, BeforeCopies
<1>4. Outstanding' = Outstanding
  BY <1>2, CopiesUnchanged
<1>5. Wanted(mmuPort') = pages /\ host \in mmuPort'.accessing
  BY <1>1 DEF Wanted
<1>6. /\ asked' \in Nat /\ asked' <= MaxMigrations /\ asked' = asked + Cardinality(pages)
      /\ Cardinality(pages) \in Nat /\ asked \in Nat
  <2>1. pages \in SUBSET Page
    OBVIOUS
  <2>2. Cardinality(pages) \in Nat
    BY <2>1, FiniteGPU, FS_Subset, FS_CardinalityType
  <2> QED  BY <1>1, <2>2 DEF DInv, DataType
<1>7. ReqInv'
  <2>1. /\ NumPages \in Nat
        /\ \A g \in GPU : allocated[g] \in Nat /\ allocated[g] <= NumPages + asked
    BY FiniteGPU DEF DInv, ReqInv, IInv, TypeInv
  <2>2. \A g \in GPU : allocated'[g] + Cardinality(pages) <= NumPages + asked'
    BY <1>2, <1>6, <2>1
  <2>3. \A g \in GPU : allocated'[g] <= NumPages + asked'
    BY <1>2, <1>6, <2>1
  <2>4. \A p \in pages : Device(pageTable'[p]) \in mmuPort'.accessing
    BY <1>1, <1>2, <1>5
  <2> QED  BY <1>3, <1>5, <2>2, <2>3, <2>4 DEF ReqInv, Granted
<1>8. \A h \in GPU : pmc'[h] \in PMC
  BY <1>2 DEF DInv, DataType
<1> QED  BY <1>2, <1>3, <1>4, <1>6, <1>7, <1>8, QuietStep DEF dataVars

-----------------------------------------------------------------------------
(* The way of a copy.                                                      *)

\* The first page to copy goes to the GPU that is to hold it.
LEMMA SendMigrationReqDInv ==
  ASSUME IInv, IInv', DInv, SendMigrationReqToCP
  PROVE  DInv'
<1> USE DEF mmuVars, pageVars, gpuVars, memVars, rdmaVars, cpVars, cntVars
<1> DEFINE q == migrationReqToSendToCP
           req == Head(q)
           n == Len(q)
<1>1. /\ q # <<>> /\ toCP[req.gpu] = None
      /\ toCP' = [toCP EXCEPT ![req.gpu] = req] /\ q' = Tail(q)
      /\ UNCHANGED <<cntVars, currentPageMigrationReq, mmuVars, pageVars, gpuVars, memVars>>
  BY DEF SendMigrationReqToCP
<1>2. /\ q \in Seq(CopyReq) /\ toCP \in [GPU -> Command \cup CopyReq \cup {None}]
  BY DEF IInv, TypeInv
<1>3. /\ req \in CopyReq /\ req = q[1] /\ n \in Nat /\ n # 0 /\ DOMAIN q = 1 .. n
      /\ DOMAIN q' = 1 .. (n - 1) /\ \A i \in 1 .. (n - 1) : q'[i] = q[i + 1]
  <2>1. n \in Nat /\ DOMAIN q = 1 .. n /\ n # 0
    BY <1>1, <1>2, LenProperties, EmptySeq
  <2>2. /\ req \in CopyReq /\ req = q[1] /\ q' \in Seq(CopyReq) /\ Len(q') = n - 1
        /\ \A i \in 1 .. (n - 1) : q'[i] = q[i + 1]
    BY <1>1, <1>2, HeadTailProperties
  <2>3. DOMAIN q' = 1 .. (n - 1)
    BY <2>2, LenProperties
  <2> QED  BY <2>1, <2>2, <2>3
<1>4. req.kind = "migrate" /\ req.gpu \in GPU /\ req # None
  BY <1>3, NoneAssumption DEF CopyReq
<1> HIDE DEF n
<1>5. Outstanding' = Outstanding
  <2> PICK r \in CopyReq : r = req
    BY <1>3
  <2> HIDE DEF req
  <2> DEFINE c == <<r.from, r.to, None>>
  <2>1. Queued = Queued' \cup {c}
    <3>1. \A i \in 1 .. (n - 1) : i + 1 \in 1 .. n
      BY <1>3
    <3>2. \A i \in 1 .. n : i = 1 \/ (i - 1 \in 1 .. (n - 1) /\ q'[i - 1] = q[i])
      <4> SUFFICES ASSUME NEW i \in 1 .. n, i # 1
                   PROVE  i - 1 \in 1 .. (n - 1) /\ q'[i - 1] = q[i]
        OBVIOUS
      <4>1. i - 1 \in 1 .. (n - 1) /\ (i - 1) + 1 = i
        BY <1>3
      <4> QED  BY <1>3, <4>1
    <3>3. 1 \in 1 .. n
      BY <1>3
    <3> QED  BY <1>3, <3>1, <3>2, <3>3 DEF Queued
  <2>2. Sent' = Sent \cup {c}
    <3>1. /\ IsCopyReq(r.gpu)' /\ toCP'[r.gpu] = r /\ ~ IsCopyReq(r.gpu)
          /\ \A h \in GPU : h # r.gpu => toCP'[h] = toCP[h] /\ (IsCopyReq(h)' <=> IsCopyReq(h))
      BY <1>1, <1>2, <1>4 DEF IsCopyReq
    <3> QED  BY <3>1 DEF Sent, CopyReq
  <2>3. Copying' = Copying
    BY <1>1 DEF Copying, IsCopying
  <2> QED  BY <2>1, <2>2, <2>3 DEF Outstanding
<1>6. /\ asked' \in Nat /\ asked' <= MaxMigrations /\ ReqInv'
      /\ \A h \in GPU : pmc'[h] \in PMC
  BY <1>1, GrantsKept DEF DInv, DataType, BeforeCopies, Req
<1> QED  BY <1>1, <1>5, <1>6, QuietStep DEF dataVars, Req

\* A controller takes the page to copy.
LEMMA ProcessPageMigrationReqDInv ==
  ASSUME IInv, IInv', DInv, NEW g \in GPU, ProcessPageMigrationReq(g)
  PROVE  DInv'
<1> USE DEF drvVars, mmuVars, pageVars, memVars, rdmaVars, cpVars, cntVars, flagVars, sendVars
<1> DEFINE new == [from |-> toCP[g].from, to |-> toCP[g].to, data |-> None, done |-> FALSE]
<1>1. /\ IsCopyReq(g) /\ pmc[g] = None
      /\ toCP' = [toCP EXCEPT ![g] = None] /\ pmc' = [pmc EXCEPT ![g] = new]
      /\ UNCHANGED <<drvVars, mmuVars, pageVars, fromCP, cpVars, rdmaVars, memVars>>
  BY DEF ProcessPageMigrationReq, Taken, IsCopyReq
<1>2. toCP \in [GPU -> Command \cup CopyReq \cup {None}] /\ DOMAIN pmc = GPU
  BY DEF IInv, TypeInv
<1>3. toCP[g] \in CopyReq
  BY <1>1, <1>2 DEF IsCopyReq, Command
<1>4. new \in Copy
  BY <1>3 DEF CopyReq, Copy
<1>5. new # None /\ ~ new.done /\ new.from = toCP[g].from /\ new.to = toCP[g].to
      /\ new.data = None
  BY <1>4, NoneAssumption
<1> HIDE DEF new
<1>6. Outstanding' = Outstanding
  <2> DEFINE c == <<toCP[g].from, toCP[g].to, None>>
  <2>1. Sent = Sent' \cup {c}
    <3>1. ~ IsCopyReq(g)' /\ \A h \in GPU : h # g => toCP'[h] = toCP[h]
                                                 /\ (IsCopyReq(h)' <=> IsCopyReq(h))
      BY <1>1, <1>2 DEF IsCopyReq
    <3> QED  BY <1>1, <3>1 DEF Sent
  <2>2. Copying' = Copying \cup {c}
    <3>1. /\ IsCopying(g)' /\ pmc'[g] = new /\ ~ IsCopying(g)
          /\ \A h \in GPU : h # g => pmc'[h] = pmc[h] /\ (IsCopying(h)' <=> IsCopying(h))
      BY <1>1, <1>2, <1>5 DEF IsCopying
    <3> QED  BY <1>5, <3>1 DEF Copying
  <2>3. Queued' = Queued
    BY <1>1 DEF Queued
  <2> QED  BY <2>1, <2>2, <2>3 DEF Outstanding
<1>7. \A h \in GPU : pmc'[h] \in PMC
  BY <1>1, <1>2, <1>4, <1>5 DEF DInv, DataType, PMC
<1>8. asked' \in Nat /\ asked' <= MaxMigrations /\ ReqInv'
  BY <1>1, GrantsKept DEF DInv, DataType, BeforeCopies, Req
<1> QED  BY <1>1, <1>6, <1>7, <1>8, QuietStep DEF dataVars, Req

\* A controller answers that its page is written.
LEMMA ProcessPageMigrationRspDInv ==
  ASSUME IInv, IInv', DInv, NEW g \in GPU, ProcessPageMigrationRsp(g)
  PROVE  DInv'
<1> USE DEF drvVars, mmuVars, pageVars, memVars, rdmaVars, cpVars, cntVars, flagVars, sendVars
<1>1. /\ ~ IsCopying(g) /\ pmc' = [pmc EXCEPT ![g] = None]
      /\ UNCHANGED <<drvVars, mmuVars, pageVars, toCP, cpVars, rdmaVars, memVars>>
  BY DEF ProcessPageMigrationRsp, IsCopying
<1>2. DOMAIN pmc = GPU
  BY DEF IInv, TypeInv
<1>3. \A h \in GPU : pmc'[h] \in PMC
  BY <1>1, <1>2 DEF DInv, DataType, PMC
<1>4. Outstanding' = Outstanding
  <2>1. /\ ~ IsCopying(g)'
        /\ \A h \in GPU : h # g => pmc'[h] = pmc[h] /\ (IsCopying(h)' <=> IsCopying(h))
    BY <1>1, <1>2 DEF IsCopying
  <2>2. Copying' = Copying
    BY <1>1, <2>1 DEF Copying
  <2>3. Queued' = Queued /\ Sent' = Sent
    BY <1>1 DEF Queued, Sent, IsCopyReq
  <2> QED  BY <2>2, <2>3 DEF Outstanding
<1>5. asked' \in Nat /\ asked' <= MaxMigrations /\ ReqInv'
  BY <1>1, GrantsKept DEF DInv, DataType, BeforeCopies, Req
<1> QED  BY <1>1, <1>3, <1>4, <1>5, QuietStep DEF dataVars, Req

\* A copy is made from the memory that has the last version.
LEMMA PullDataDInv ==
  ASSUME IInv, IInv', DInv, NEW g \in GPU, PullData(g)
  PROVE  DInv'
<1> USE DEF drvVars, mmuVars, pageVars, linkVars, memVars, rdmaVars, cpVars, cntVars, flagVars,
            sendVars
<1> DEFINE d == mem[pmc[g].from]
           old == <<pmc[g].from, pmc[g].to, pmc[g].data>>
           new == <<pmc[g].from, pmc[g].to, d>>
<1>1. /\ pmc[g] # None /\ pmc[g].data = None /\ pmc' = [pmc EXCEPT ![g].data = d]
      /\ UNCHANGED <<drvVars, mmuVars, pageVars, linkVars, cpVars, rdmaVars, memVars>>
  BY DEF PullData
<1>2. DOMAIN pmc = GPU /\ pmc[g] \in Copy /\ IsCopying(g)
  BY <1>1, NoneAssumption DEF IInv, TypeInv, DInv, DataType, PMC, IsCopying
<1>3. old \in Outstanding /\ GoodCopy(old)
  BY <1>2 DEF Outstanding, Copying, DInv, CopyInv
<1>4. pmc[g].from \in Frame /\ d \in Nat
  BY <1>3 DEF GoodCopy, DInv, DataType
<1>5. /\ pmc'[g] = [pmc[g] EXCEPT !.data = d]
      /\ \A h \in GPU : h # g => pmc'[h] = pmc[h]
  BY <1>1, <1>2
<1>6. /\ pmc'[g] \in Copy /\ pmc'[g].from = pmc[g].from /\ pmc'[g].to = pmc[g].to
      /\ pmc'[g].data = d /\ pmc'[g].done = pmc[g].done
  BY <1>2, <1>4, <1>5 DEF Copy
<1>7. IsCopying(g)' /\ \A h \in GPU : h # g => (IsCopying(h)' <=> IsCopying(h))
  BY <1>2, <1>5, <1>6, NoneAssumption DEF IsCopying
<1> HIDE DEF d
<1>8. \A h \in GPU : pmc'[h] \in PMC
  BY <1>4, <1>5, <1>6, NoneAssumption DEF DInv, DataType, PMC
<1>9. \A c \in Outstanding' : c \in Outstanding \/ c = new
  <2>1. \A c \in Copying' : c \in Copying \/ c = new
    BY <1>5, <1>6, <1>7 DEF Copying
  <2>2. Queued' = Queued /\ Sent' = Sent
    BY <1>1 DEF Queued, Sent, IsCopyReq
  <2> QED  BY <2>1, <2>2 DEF Outstanding
<1>10. \A c \in Outstanding : c \in Outstanding' \/ c = old
  <2>1. \A c \in Copying : c \in Copying' \/ c = old
    BY <1>5, <1>7 DEF Copying
  <2>2. Queued' = Queued /\ Sent' = Sent
    BY <1>1 DEF Queued, Sent, IsCopyReq
  <2> QED  BY <2>1, <2>2 DEF Outstanding
<1>11. new \in Outstanding'
  BY <1>6, <1>7 DEF Outstanding, Copying
<1>12. GoodCopy(new)
  BY <1>3 DEF GoodCopy, d
<1>13. \A c \in Outstanding' : GoodCopy(c)
  BY <1>9, <1>12 DEF DInv, CopyInv
<1>14. \A c \in Outstanding : \E e \in Outstanding' : e[2] = c[2]
  BY <1>10, <1>11
<1>15. asked' \in Nat /\ asked' <= MaxMigrations /\ ReqInv'
  BY <1>1, GrantsKept DEF DInv, DataType, BeforeCopies, Req
<1> QED  BY <1>1, <1>8, <1>13, <1>14, <1>15, CopyStep DEF dataVars, Req

\* The page is written: its frame now shows the last version, and no other
\* copy reads from there.
LEMMA WriteDataDInv ==
  ASSUME IInv, IInv', DInv, NEW g \in GPU, WriteData(g)
  PROVE  DInv'
<1> USE DEF drvVars, mmuVars, pageVars, linkVars, rdmaVars, cpVars, cntVars, flagVars,
            sendVars
<1> DEFINE t == pmc[g].to
           d == pmc[g].data
           old == <<pmc[g].from, t, d>>
<1>1. /\ IsCopying(g) /\ d # None
      /\ mem' = [mem EXCEPT ![t] = d] /\ pmc' = [pmc EXCEPT ![g].done = TRUE]
      /\ UNCHANGED <<drvVars, mmuVars, pageVars, linkVars, cpVars, rdmaVars, tlb, l2, latest,
                     writes>>
  BY DEF WriteData, IsCopying
<1>2. DOMAIN pmc = GPU /\ pmc[g] \in Copy
  BY <1>1 DEF IInv, TypeInv, DInv, DataType, PMC, IsCopying
<1>3. old \in Outstanding /\ GoodCopy(old)
  BY <1>1 DEF Outstanding, Copying, DInv, CopyInv
<1>4. PICK p \in Wanted(Req) : t = pageTable[p] /\ d = latest[p] /\ l2[t] = None
  BY <1>1, <1>3 DEF GoodCopy
<1>5. p \in Page /\ t \in Frame /\ d \in Nat
  BY <1>4 DEF Wanted, DInv, DataType, FrameInv, Allocated
<1>6. /\ pmc'[g] = [pmc[g] EXCEPT !.done = TRUE]
      /\ \A h \in GPU : h # g => pmc'[h] = pmc[h]
  BY <1>1, <1>2
<1>7. pmc'[g] \in Copy /\ pmc'[g].done /\ pmc'[g].data # None
  BY <1>1, <1>2, <1>6 DEF Copy
<1>8. /\ \A c \in Outstanding' : c \in Outstanding
      /\ \A c \in Outstanding : c \in Outstanding' \/ c = old
  <2>1. ~ IsCopying(g)' /\ \A h \in GPU : h # g => (IsCopying(h)' <=> IsCopying(h))
    BY <1>6, <1>7 DEF IsCopying
  <2>2. /\ \A c \in Copying' : c \in Copying
        /\ \A c \in Copying : c \in Copying' \/ c = old
    BY <1>6, <2>1 DEF Copying
  <2>3. Queued' = Queued /\ Sent' = Sent
    BY <1>1 DEF Queued, Sent, IsCopyReq
  <2> QED  BY <2>2, <2>3 DEF Outstanding
<1> HIDE DEF t, d
<1>9. mem \in [Frame -> Nat] /\ mem' \in [Frame -> Nat] /\ mem'[t] = d
      /\ \A f \in Frame : f # t => mem'[f] = mem[f]
  BY <1>1, <1>5 DEF DInv, DataType
<1>10. DataType'
  BY <1>1, <1>6, <1>7, <1>9 DEF DInv, DataType, PMC
<1>11. FrameInv' /\ ReqInv' /\ AccessInv' /\ FlushedInv'
  <2>1. FrameInv'
    BY <1>1 DEF DInv, FrameInv, Allocated
  <2>2. ReqInv'
    BY <1>1, GrantsKept DEF DInv, BeforeCopies, Req
  <2>3. AccessInv'
    BY <1>1 DEF DInv, AccessInv, GoodAccess, Allocated
  <2>4. FlushedInv'
    BY <1>1 DEF DInv, FlushedInv
  <2> QED  BY <2>1, <2>2, <2>3, <2>4
<1>12. CopyInv'
  <2>1. ASSUME NEW c \in Outstanding'  PROVE GoodCopy(c)'
    <3>1. GoodCopy(c)
      BY <1>8 DEF DInv, CopyInv
    <3>2. c[1] \in Frame /\ c[1] # t
      BY <1>4, <1>5, <3>1 DEF GoodCopy
    <3> QED  BY <1>1, <1>9, <3>1, <3>2 DEF GoodCopy, Wanted, Req
  <2> QED  BY <1>1, <2>1 DEF DInv, CopyInv, Wanted, Req
<1>13. LatestInv'
  <2> SUFFICES ASSUME NEW q \in Page
               PROVE  (\/ Visible(pageTable[q]) = latest[q]
                       \/ \E c \in Outstanding : c[2] = pageTable[q])'
    BY DEF LatestInv
  <2>1. CASE q = p
    <3>1. Visible(pageTable[q])' = d
      BY <1>1, <1>4, <1>9, <2>1 DEF Visible
    <3> QED  BY <1>1, <1>4, <2>1, <3>1
  <2>2. CASE q # p
    <3>1. pageTable[q] \in Frame /\ pageTable[q] # t
      BY <1>4, <1>5, <2>2 DEF DInv, FrameInv, Allocated
    <3>2. Visible(pageTable[q])' = Visible(pageTable[q])
      BY <1>1, <1>9, <3>1 DEF Visible
    <3>3. \A c \in Outstanding : c[2] = pageTable[q] => c \in Outstanding'
      BY <1>8, <3>1 DEF t
    <3> QED  BY <1>1, <3>2, <3>3 DEF DInv, LatestInv
  <2> QED  BY <2>1, <2>2
<1> QED  BY <1>10, <1>11, <1>12, <1>13 DEF DInv

-----------------------------------------------------------------------------
(* Writes, and caches that are flushed.                                    *)

\* A page that no copy is for takes a new version.
LEMMA StoreStep ==
  ASSUME DInv, NEW p \in Page, Store(p, pageTable[p]),
         stage[Device(pageTable[p])] \notin {"tlbFlush", "stopped"},
         Outstanding # {} => p \notin Wanted(Req),
         UNCHANGED <<migrationReqToSendToCP, toCP, pmc, numPagesMigratingACK, Req, asked,
                     pageTable, allocated, isMigrating, tlb, mem, stage>>
  PROVE  DataType' /\ FrameInv' /\ FlushedInv' /\ CopyInv' /\ LatestInv'
<1> DEFINE f == pageTable[p]
           v == latest[p] + 1
<1>1. f \in Frame /\ Allocated(f) /\ \A q \in Page : q # p => pageTable[q] # f
  BY DEF DInv, FrameInv, Allocated
<1>2. v \in Nat /\ v # None
  BY NoneAssumption DEF DInv, DataType
<1>3. latest' = [latest EXCEPT ![p] = v] /\ l2' = [l2 EXCEPT ![f] = v]
  BY DEF Store
<1> HIDE DEF f, v
<1>4. /\ latest \in [Page -> Nat] /\ latest' \in [Page -> Nat] /\ latest'[p] = v
      /\ \A q \in Page : q # p => latest'[q] = latest[q]
  BY <1>2, <1>3 DEF DInv, DataType
<1>5. /\ l2 \in [Frame -> Nat \cup {None}] /\ l2' \in [Frame -> Nat \cup {None}]
      /\ l2'[f] = v /\ \A h \in Frame : h # f => l2'[h] = l2[h]
  BY <1>1, <1>2, <1>3 DEF DInv, DataType
<1>6. Outstanding' = Outstanding
  BY CopiesUnchanged
<1>7. DataType'
  BY <1>4, <1>5 DEF DInv, DataType
<1>8. FrameInv'
  BY <1>1, <1>5 DEF DInv, FrameInv, Allocated
<1>9. FlushedInv'
  BY <1>1, <1>5 DEF DInv, FlushedInv, f
<1>10. CopyInv'
  <2>1. ASSUME NEW c \in Outstanding  PROVE GoodCopy(c)'
    <3>1. PICK q \in Wanted(Req) :
            /\ c[1] \in Frame /\ \A r \in Page : pageTable[r] # c[1]
            /\ mem[c[1]] = latest[q]
            /\ c[2] = pageTable[q] /\ l2[c[2]] = None
            /\ c[3] # None => c[3] = latest[q]
      BY <2>1 DEF DInv, CopyInv, GoodCopy
    <3>2. q \in Page /\ q # p
      BY <2>1, <3>1 DEF Wanted
    <3>3. pageTable[q] \in Frame /\ pageTable[q] # f
      BY <1>1, <3>2 DEF DInv, FrameInv, Allocated
    <3>4. latest'[q] = latest[q] /\ l2'[c[2]] = None
      BY <1>4, <1>5, <3>1, <3>2, <3>3
    <3> QED  BY <3>1, <3>4 DEF GoodCopy, Wanted
  <2> QED  BY <1>6, <2>1 DEF DInv, CopyInv, Wanted
<1>11. LatestInv'
  <2> SUFFICES ASSUME NEW q \in Page
               PROVE  (\/ Visible(pageTable[q]) = latest[q]
                       \/ \E c \in Outstanding : c[2] = pageTable[q])'
    BY DEF LatestInv
  <2>1. CASE q = p
    BY <1>2, <1>4, <1>5, <2>1 DEF Visible, f
  <2>2. CASE q # p
    <3>1. pageTable[q] \in Frame /\ pageTable[q] # f
      BY <1>1, <2>2 DEF DInv, FrameInv, Allocated
    <3>2. Visible(pageTable[q])' = Visible(pageTable[q])
      BY <1>5, <3>1 DEF Visible
    <3> QED  BY <1>4, <1>6, <2>2, <3>2 DEF DInv, LatestInv
  <2> QED  BY <2>1, <2>2
<1> QED  BY <1>7, <1>8, <1>9, <1>10, <1>11

\* Nobody translates a page that is being copied.
LEMMA WriteLocalDInv ==
  ASSUME IInv, IInv', DInv, NEW g \in GPU, NEW p \in Page, WriteLocal(g, p)
  PROVE  DInv'
<1> USE DEF drvVars, mmuVars, pageVars, linkVars, gpuVars, rdmaVars, cpVars, cntVars, flagVars,
            sendVars
<1>1. /\ Issuing(g) /\ tlb[g][p] # None /\ Device(tlb[g][p]) = g /\ Store(p, tlb[g][p])
      /\ UNCHANGED <<drvVars, mmuVars, pageVars, linkVars, gpuVars, tlb, mem>>
  BY DEF WriteLocal
<1>2. tlb[g][p] = pageTable[p]
  BY <1>1 DEF IInv, TranslationInv, TranslationsCurrent
<1>3. stage[Device(pageTable[p])] \notin {"tlbFlush", "stopped"}
  BY <1>1, <1>2 DEF Issuing
<1>4. Outstanding # {} => p \notin Wanted(Req)
  BY <1>1, CopiesInPhase DEF DInv, CopyInv
<1>5. DataType' /\ FrameInv' /\ FlushedInv' /\ CopyInv' /\ LatestInv'
  BY <1>1, <1>2, <1>3, <1>4, StoreStep DEF Req
<1>6. ReqInv'
  BY <1>1, GrantsKept DEF DInv, BeforeCopies, Req
<1>7. AccessInv'
  BY <1>1 DEF DInv, AccessInv, GoodAccess, Allocated
<1> QED  BY <1>5, <1>6, <1>7 DEF DInv

\* A TLB takes a translation, so its page is not being copied.
LEMMA TranslateDInv ==
  ASSUME IInv, IInv', DInv, NEW g \in GPU, NEW p \in Page, Translate(g, p)
  PROVE  DInv'
<1> USE DEF drvVars, mmuVars, pageVars, linkVars, gpuVars, rdmaVars, cpVars, cntVars, flagVars,
            sendVars
<1>1. /\ tlb[g][p] = None /\ ~ isMigrating[p]
      /\ tlb' = [tlb EXCEPT ![g][p] = pageTable[p]]
      /\ UNCHANGED <<drvVars, mmuVars, pageVars, linkVars, gpuVars, l2, mem, latest>>
  BY DEF Translate
<1>2. tlb \in [GPU -> [Page -> (GPU \X Nat) \cup {None}]]
  BY DEF IInv, TypeInv
<1>3. \A h \in GPU, q \in Page : h # g \/ q # p => tlb'[h][q] = tlb[h][q]
  BY <1>1, <1>2
<1>4. Outstanding' = Outstanding
  BY <1>1, CopiesUnchanged
<1>5. DataType' /\ FrameInv' /\ FlushedInv' /\ LatestInv'
  BY <1>1, <1>4 DEF DInv, DataType, FrameInv, Allocated, FlushedInv, LatestInv, Visible
<1>6. ReqInv'
  BY <1>1, GrantsKept DEF DInv, BeforeCopies, Req
<1>7. AccessInv'
  <2>1. ASSUME NEW h \in GPU, NEW a, GoodAccess(h, a)  PROVE GoodAccess(h, a)'
    <3>1. ~ a.stale => a.page # p \/ h # g
      BY <1>1, <2>1 DEF GoodAccess
    <3>2. a.page \in Page
      BY <2>1 DEF GoodAccess, Access
    <3> QED  BY <1>1, <1>3, <2>1, <3>1, <3>2 DEF GoodAccess, Allocated
  <2> QED  BY <1>1, <2>1 DEF DInv, AccessInv
<1>8. CopyInv'
  <2>1. numPagesMigratingACK # 0 => p \notin Wanted(Req)
    BY <1>1 DEF DInv, CopyInv
  <2>2. \A q \in Wanted(Req) : q \in Page
    BY DEF Wanted
  <2>3. \A c \in Outstanding : GoodCopy(c)'
    BY <1>1 DEF DInv, CopyInv, GoodCopy, Wanted, Req
  <2> QED  BY <1>1, <1>3, <1>4, <2>1, <2>2, <2>3 DEF DInv, CopyInv, Wanted, Req
<1> QED  BY <1>5, <1>6, <1>7, <1>8 DEF DInv

\* A write leaves for another GPU, to the frame its page has.
LEMMA WriteRemoteDInv ==
  ASSUME IInv, IInv', DInv, NEW g \in GPU, NEW p \in Page, WriteRemote(g, p)
  PROVE  DInv'
<1> USE DEF drvVars, mmuVars, pageVars, linkVars, gpuVars, cpVars, cntVars, flagVars, sendVars
<1> DEFINE new == [page |-> p, frame |-> tlb[g][p], stale |-> FALSE]
<1>1. /\ Issuing(g) /\ tlb[g][p] # None /\ toRDMA' = [toRDMA EXCEPT ![g] = new]
      /\ UNCHANGED <<drvVars, mmuVars, pageVars, linkVars, cpVars, rdma, flight, carried, pmc,
                     tlb, l2, mem, latest>>
  BY DEF WriteRemote
<1>2. tlb[g][p] = pageTable[p]
  BY <1>1 DEF IInv, TranslationInv, TranslationsCurrent
<1>3. GoodAccess(g, new)
  <2>1. Allocated(pageTable[p]) /\ \A q \in Page : pageTable[q] = pageTable[p] => q = p
    BY DEF DInv, FrameInv
  <2> QED  BY <1>1, <1>2, <2>1 DEF GoodAccess, Access, Allocated
<1>4. /\ toRDMA'[g] = new /\ \A h \in GPU : h # g => toRDMA'[h] = toRDMA[h]
  BY <1>1 DEF IInv, TypeInv
<1> HIDE DEF new
<1>5. Outstanding' = Outstanding
  BY <1>1, CopiesUnchanged
<1>6. DataType' /\ FrameInv' /\ FlushedInv' /\ CopyInv' /\ LatestInv'
  BY <1>1, <1>5 DEF DInv, DataType, FrameInv, Allocated, FlushedInv, LatestInv, Visible, CopyInv,
                    GoodCopy, Wanted, Req
<1>7. ReqInv'
  BY <1>1, GrantsKept DEF DInv, BeforeCopies, Req
<1>8. AccessInv'
  <2>1. ASSUME NEW h \in GPU, NEW a, GoodAccess(h, a)  PROVE GoodAccess(h, a)'
    BY <1>1, <2>1 DEF GoodAccess, Allocated
  <2>2. stage'[g] # "tlbFlush"
    BY <1>1 DEF Issuing
  <2>3. GoodAccess(g, new)'
    BY <1>1, <1>3 DEF GoodAccess, Allocated, new
  <2> QED  BY <1>1, <1>3, <1>4, <2>1, <2>2, <2>3 DEF DInv, AccessInv
<1> QED  BY <1>6, <1>7, <1>8 DEF DInv

\* An RDMA engine forwards a write.
LEMMA ProcessReqFromL1DInv ==
  ASSUME IInv, IInv', DInv, NEW g \in GPU, ProcessReqFromL1(g)
  PROVE  DInv'
<1> USE DEF drvVars, mmuVars, pageVars, linkVars, memVars, cpVars, cntVars, flagVars, sendVars
<1>1. /\ toRDMA[g] # None /\ flight' = [flight EXCEPT ![g] = toRDMA[g]]
      /\ carried' = carried \cup {g} /\ toRDMA' = [toRDMA EXCEPT ![g] = None]
      /\ UNCHANGED <<drvVars, mmuVars, pageVars, linkVars, cpVars, rdma, pmc, memVars>>
  BY DEF ProcessReqFromL1
<1>2. /\ toRDMA'[g] = None /\ flight'[g] = toRDMA[g]
      /\ \A h \in GPU : h # g => toRDMA'[h] = toRDMA[h] /\ flight'[h] = flight[h]
  BY <1>1 DEF IInv, TypeInv
<1>3. Outstanding' = Outstanding
  BY <1>1, CopiesUnchanged
<1>4. DataType' /\ FrameInv' /\ FlushedInv' /\ CopyInv' /\ LatestInv'
  BY <1>1, <1>3 DEF DInv, DataType, FrameInv, Allocated, FlushedInv, LatestInv, Visible, CopyInv,
                    GoodCopy, Wanted, Req
<1>5. ReqInv'
  BY <1>1, GrantsKept DEF DInv, BeforeCopies, Req
<1>6. AccessInv'
  <2>1. ASSUME NEW h \in GPU, NEW a, GoodAccess(h, a)  PROVE GoodAccess(h, a)'
    BY <1>1, <2>1 DEF GoodAccess, Allocated
  <2>2. \A h \in GPU : flight'[h] # None => GoodAccess(h, flight'[h])
    BY <1>1, <1>2 DEF DInv, AccessInv
  <2>3. \A h \in GPU : toRDMA'[h] # None => GoodAccess(h, toRDMA'[h])
    BY <1>2 DEF DInv, AccessInv
  <2> QED  BY <1>1, <1>2, <2>1, <2>2, <2>3 DEF DInv, AccessInv
<1> QED  BY <1>4, <1>5, <1>6 DEF DInv

\* A write arrives.  It finds its page where it was sent, or is stale and
\* leaves old data in a frame no page has any more.
LEMMA ServeDInv ==
  ASSUME IInv, IInv', DInv, NEW g \in GPU, Serve(g)
  PROVE  DInv'
<1> USE DEF drvVars, mmuVars, pageVars, linkVars, cpVars, cntVars, flagVars, sendVars
<1> DEFINE a == flight[g]
<1>1. /\ g \in carried /\ Serving(Device(a.frame))
      /\ ~ a.stale => Store(a.page, a.frame)
      /\ a.stale => /\ l2' = IF pageTable[a.page] = a.frame THEN l2
                              ELSE [l2 EXCEPT ![a.frame] = 0]
                    /\ UNCHANGED latest
      /\ carried' = carried \ {g} /\ flight' = [flight EXCEPT ![g] = None]
      /\ UNCHANGED <<drvVars, mmuVars, pageVars, linkVars, cpVars, rdma, toRDMA, pmc, tlb, mem>>
  BY DEF Serve
<1>2. a # None /\ GoodAccess(g, a)
  BY <1>1 DEF DInv, AccessInv
<1>3. /\ flight'[g] = None /\ \A h \in GPU : h # g => flight'[h] = flight[h]
  BY <1>1 DEF IInv, TypeInv
<1>4. Outstanding = {} /\ numPagesMigratingACK = 0
  <2>1. ~ CopyPhase
    BY <1>2 DEF IInv, RDMAInv, CopyPhase, AllPaused
  <2> QED  BY <2>1, CopiesInPhase
<1>5. /\ a.page \in Page /\ Allocated(a.frame) /\ a.frame \in Frame /\ a.stale \in BOOLEAN
      /\ \A p \in Page : pageTable[p] = a.frame => p = a.page
      /\ ~ a.stale => a.frame # None /\ tlb[g][a.page] = a.frame
  BY <1>2 DEF GoodAccess, Access, Allocated
<1>6. stage[Device(a.frame)] \notin {"tlbFlush", "stopped"}
  BY <1>1 DEF Serving
<1> HIDE DEF a
<1>7. DataType' /\ FrameInv' /\ FlushedInv' /\ CopyInv' /\ LatestInv'
  <2>1. CASE ~ a.stale
    <3>9. PICK p \in Page : p = a.page
      BY <1>5
    <3>1. a.frame = pageTable[a.page]
      <4>1. tlb[g][p] # None /\ tlb[g][p] = a.frame
        BY <1>5, <2>1, <3>9
      <4>2. tlb[g][p] # None => tlb[g][p] = pageTable[p]
        BY DEF IInv, TranslationInv, TranslationsCurrent
      <4> QED  BY <3>9, <4>1, <4>2
    <3>2. Store(p, pageTable[p]) /\ stage[Device(pageTable[p])] \notin {"tlbFlush", "stopped"}
      BY <1>1, <1>6, <2>1, <3>9, <3>1
    <3> QED  BY <1>1, <1>4, <3>2, StoreStep DEF Req
  <2>2. CASE a.stale
    <3>1. Outstanding' = {}
      BY <1>1, <1>4, CopiesUnchanged
    <3>2. /\ l2' \in [Frame -> Nat \cup {None}]
          /\ \A f \in Frame : l2'[f] = l2[f] \/ (f = a.frame /\ pageTable[a.page] # a.frame)
      BY <1>1, <1>5, <2>2 DEF DInv, DataType
    <3>3. \A p \in Page : pageTable[p] \in Frame /\ l2'[pageTable[p]] = l2[pageTable[p]]
      <4> SUFFICES ASSUME NEW p \in Page
                   PROVE  pageTable[p] \in Frame /\ l2'[pageTable[p]] = l2[pageTable[p]]
        OBVIOUS
      <4>1. pageTable[p] \in Frame
        BY DEF DInv, FrameInv, Allocated
      <4>2. pageTable[p] = a.frame => p = a.page
        BY <1>5
      <4> QED  BY <3>2, <4>1, <4>2
    <3>4. DataType'
      BY <1>1, <2>2, <3>2 DEF DInv, DataType
    <3>5. FrameInv'
      BY <1>1, <1>5, <3>2 DEF DInv, FrameInv, Allocated
    <3>6. FlushedInv'
      BY <1>1, <1>6, <3>2 DEF DInv, FlushedInv
    <3>7. CopyInv'
      BY <1>1, <1>4, <3>1 DEF CopyInv
    <3>8. LatestInv'
      BY <1>1, <1>4, <2>2, <3>3 DEF DInv, LatestInv, Visible
    <3> QED  BY <3>4, <3>5, <3>6, <3>7, <3>8
  <2> QED  BY <1>5, <2>1, <2>2
<1>8. ReqInv'
  BY <1>1, GrantsKept DEF DInv, BeforeCopies, Req
<1>9. AccessInv'
  <2>1. ASSUME NEW h \in GPU, NEW b, GoodAccess(h, b)  PROVE GoodAccess(h, b)'
    BY <1>1, <2>1 DEF GoodAccess, Allocated
  <2> QED  BY <1>1, <1>3, <2>1 DEF DInv, AccessInv
<1> QED  BY <1>7, <1>8, <1>9 DEF DInv

\* The caches of a GPU write back what they have.
LEMMA ProcessCacheFlushRspDInv ==
  ASSUME IInv, IInv', DInv, NEW g \in GPU, ProcessCacheFlushRsp(g)
  PROVE  DInv'
<1> USE DEF drvVars, mmuVars, pageVars, linkVars, cntVars, flagVars, sendVars
<1> DEFINE a == toRDMA[g]
           aged == IF a = None THEN None ELSE [a EXCEPT !.stale = TRUE]
<1>1. /\ stage[g] = "cacheFlush" /\ stage' = [stage EXCEPT ![g] = "tlbFlush"]
      /\ mem' = [f \in Frame |-> IF Device(f) = g /\ l2[f] # None THEN l2[f] ELSE mem[f]]
      /\ l2' = [f \in Frame |-> IF Device(f) = g THEN None ELSE l2[f]]
      /\ carried' \subseteq carried
      /\ toRDMA' = [toRDMA EXCEPT ![g] = aged]
      /\ UNCHANGED <<drvVars, mmuVars, pageVars, linkVars, rdma, flight, pmc, tlb, latest>>
  BY DEF ProcessCacheFlushRsp, NextStage
<1>2. stage \in [GPU -> Stages] /\ DOMAIN toRDMA = GPU
  BY DEF IInv, TypeInv
<1>3. Outstanding = {} /\ numPagesMigratingACK = 0
  <2>1. ShootPhase
    BY <1>1, PhaseOf DEF IInv, Flushing
  <2> QED  BY <2>1, CopiesInPhase DEF ShootPhase, NoCopies
<1>4. Outstanding' = {}
  BY <1>1, <1>3, CopiesUnchanged
<1>5. DataType'
  BY <1>1 DEF DInv, DataType
<1>6. FrameInv'
  BY <1>1 DEF DInv, FrameInv, Allocated
<1>7. ReqInv'
  BY <1>1, GrantsKept DEF DInv, BeforeCopies, Req
<1>8. FlushedInv'
  BY <1>1, <1>2 DEF DInv, FlushedInv, Frame, Device
<1>9. CopyInv'
  BY <1>1, <1>3, <1>4 DEF CopyInv
<1>10. LatestInv'
  <2>1. \A f \in Frame : Visible(f)' = Visible(f)
    BY <1>1 DEF Visible
  <2> QED  BY <1>1, <1>3, <2>1 DEF DInv, LatestInv, FrameInv, Allocated
<1>11. AccessInv'
  <2>1. ASSUME NEW h \in GPU, NEW b, GoodAccess(h, b)  PROVE GoodAccess(h, b)'
    BY <1>1, <2>1 DEF GoodAccess, Allocated
  <2>2. aged # None => aged.stale /\ GoodAccess(g, aged)
    <3> SUFFICES ASSUME a # None  PROVE aged.stale /\ GoodAccess(g, aged)
      OBVIOUS
    <3>1. GoodAccess(g, a) /\ aged = [a EXCEPT !.stale = TRUE]
      BY DEF DInv, AccessInv
    <3>2. /\ aged \in Access /\ aged.page = a.page /\ aged.frame = a.frame /\ aged.stale = TRUE
      BY <3>1 DEF GoodAccess, Access
    <3> HIDE DEF aged, a
    <3> QED  BY <3>1, <3>2 DEF GoodAccess
  <2>3. toRDMA'[g] = aged /\ \A h \in GPU : h # g => toRDMA'[h] = toRDMA[h] /\ stage'[h] = stage[h]
    BY <1>1, <1>2
  <2> HIDE DEF aged
  <2>4. \A h \in GPU : toRDMA'[h] # None => GoodAccess(h, toRDMA'[h])
    BY <2>2, <2>3 DEF DInv, AccessInv
  <2>5. \A h \in GPU : stage'[h] = "tlbFlush" /\ toRDMA'[h] # None => toRDMA'[h].stale
    BY <2>2, <2>3 DEF DInv, AccessInv
  <2> QED  BY <1>1, <2>1, <2>4, <2>5 DEF DInv, AccessInv
<1> QED  BY <1>5, <1>6, <1>7, <1>8, <1>9, <1>10, <1>11 DEF DInv

\* The TLBs of a GPU forget the pages; the write that waits there is stale.
LEMMA ProcessTLBFlushRspDInv ==
  ASSUME IInv, IInv', DInv, NEW g \in GPU, ProcessTLBFlushRsp(g)
  PROVE  DInv'
<1> USE DEF drvVars, mmuVars, pageVars, rdmaVars, cntVars, flagVars, sendVars
<1>1. /\ stage[g] = "tlbFlush" /\ stage' = [stage EXCEPT ![g] = "stopped"]
      /\ tlb' = [tlb EXCEPT ![g] = [p \in Page |->
                   IF p \in currShootdownRequest[g] THEN None ELSE @[p]]]
      /\ UNCHANGED <<drvVars, mmuVars, pageVars, toCP, rdmaVars, pmc, l2, mem, latest>>
  BY DEF ProcessTLBFlushRsp, NextStage
<1>2. stage \in [GPU -> Stages] /\ tlb \in [GPU -> [Page -> (GPU \X Nat) \cup {None}]]
  BY DEF IInv, TypeInv
<1>3. g \in Flushing
  BY <1>1 DEF Flushing
<1>4. Outstanding = {} /\ numPagesMigratingACK = 0 /\ \A h \in GPU : flight[h] = None
  <2>1. ShootPhase
    BY <1>3, PhaseOf DEF IInv
  <2>2. \A h \in GPU : flight[h] = None
    BY <1>3, EnginesPaused DEF IInv
  <2> QED  BY <2>1, <2>2, CopiesInPhase DEF ShootPhase, NoCopies
<1>5. Outstanding' = {}
  BY <1>1, <1>4, CopiesUnchanged
<1>6. DataType' /\ FrameInv' /\ LatestInv'
  BY <1>1, <1>4, <1>5 DEF DInv, DataType, FrameInv, Allocated, LatestInv, Visible
<1>7. ReqInv'
  BY <1>1, GrantsKept DEF DInv, BeforeCopies, Req
<1>8. FlushedInv'
  BY <1>1, <1>2 DEF DInv, FlushedInv, Frame, Device
<1>9. CopyInv'
  BY <1>1, <1>4, <1>5 DEF CopyInv
<1>10. AccessInv'
  <2>1. /\ stage'[g] = "stopped"
        /\ \A h \in GPU : h # g => stage'[h] = stage[h] /\ tlb'[h] = tlb[h]
    BY <1>1, <1>2
  <2>2. ASSUME NEW h \in GPU, toRDMA[h] # None  PROVE GoodAccess(h, toRDMA[h])'
    <3>1. GoodAccess(h, toRDMA[h]) /\ (h = g => toRDMA[h].stale)
      BY <1>1, <2>2 DEF DInv, AccessInv
    <3> QED  BY <1>1, <2>1, <3>1 DEF GoodAccess, Allocated
  <2> QED  BY <1>1, <1>4, <2>1, <2>2 DEF DInv, AccessInv
<1> QED  BY <1>6, <1>7, <1>8, <1>9, <1>10 DEF DInv

-----------------------------------------------------------------------------
(* The pages get their new frames.                                         *)

\* Every page of a request gets a frame that was not given out, each another,
\* and there are enough.
LEMMA FreshFrames ==
  ASSUME TypeInv, NEW req, GoodReq(req), NEW taken,
         taken = [g \in GPU |-> Cardinality({p \in Page : req.want[p] = g})]
  PROVE  /\ \A g \in GPU : taken[g] \in Nat /\ taken[g] <= Cardinality(Wanted(req))
         /\ Cardinality(Wanted(req)) \in Nat
         /\ \A p \in Wanted(req) : \E g \in GPU, n \in Nat :
              /\ NewFrame(req, p) = <<g, n>>
              /\ allocated[g] < n /\ n <= allocated[g] + taken[g]
         /\ \A p, q \in Wanted(req) : NewFrame(req, p) = NewFrame(req, q) => p = q
<1> DEFINE W == Wanted(req)
           Of(g) == {p \in Page : req.want[p] = g}
           Upto(p, g) == {q \in 1 .. p : req.want[q] = g}
           rank(p) == Cardinality(Upto(p, req.want[p]))
<1>1. /\ W \in SUBSET Page /\ req.want \in [Page -> GPU \cup {None}]
      /\ \A p \in W : req.want[p] \in GPU
  BY DEF GoodReq, MigrationReq, Wanted
<1>2. \A T \in SUBSET Page : IsFiniteSet(T) /\ Cardinality(T) \in Nat
  BY FiniteGPU, FS_Subset, FS_CardinalityType
<1>3. \A g \in GPU : Of(g) \in SUBSET W
  <2>1. None \notin GPU
    BY NoneAssumption DEF GPU
  <2> QED  BY <2>1 DEF Wanted
<1>4. Cardinality(W) \in Nat
      /\ \A g \in GPU : Cardinality(Of(g)) \in Nat /\ Cardinality(Of(g)) <= Cardinality(W)
  <2>1. \A g \in GPU : Of(g) \in SUBSET Page /\ IsFiniteSet(W)
    BY <1>1, <1>2
  <2> HIDE DEF Of, W
  <2> QED  BY <1>1, <1>2, <1>3, <2>1, FS_Subset
<1>5. \A p \in Page : p \in Nat /\ p # 0 /\ 1 .. p \subseteq Page
  BY FiniteGPU DEF Page
<1>6. ASSUME NEW p \in W
      PROVE  /\ Upto(p, req.want[p]) \in SUBSET Of(req.want[p]) /\ p \in Upto(p, req.want[p])
             /\ rank(p) \in Nat /\ rank(p) # 0 /\ rank(p) <= Cardinality(Of(req.want[p]))
  <2> DEFINE U == Upto(p, req.want[p])
             V == Of(req.want[p])
  <2>1. p \in Page /\ p \in 1 .. p
    BY <1>1, <1>5
  <2>2. U \in SUBSET V /\ p \in U /\ V \in SUBSET Page
    BY <1>5, <2>1
  <2> HIDE DEF Upto, Of
  <2>3. IsFiniteSet(U) /\ Cardinality(U) \in Nat /\ Cardinality(U) <= Cardinality(V)
    BY <1>2, <2>2, FS_Subset
  <2>4. Cardinality(U) # 0
    BY <2>2, <2>3, FS_EmptySet
  <2> QED  BY <2>2, <2>3, <2>4
<1>7. ASSUME NEW p \in W, NEW q \in W, p < q, req.want[p] = req.want[q]
      PROVE  rank(p) # rank(q)
  <2> DEFINE U == Upto(p, req.want[p])
             V == Upto(q, req.want[q])
  <2>1. p \in Nat /\ q \in Nat /\ q \notin 1 .. p /\ 1 .. p \subseteq 1 .. q
    BY <1>1, <1>5, <1>7
  <2>2. U \in SUBSET V /\ q \notin U
    BY <1>7, <2>1
  <2>3. q \in V /\ V \in SUBSET Page
    BY <1>6, <1>1
  <2> HIDE DEF Upto
  <2>4. IsFiniteSet(V)
    BY <1>2, <2>3
  <2> QED  BY <2>2, <2>3, <2>4, FS_Subset
<1>8. \A p \in W : NewFrame(req, p) = <<req.want[p], allocated[req.want[p]] + rank(p)>>
  BY DEF NewFrame
<1>9. \A p \in W : allocated[req.want[p]] \in Nat
  BY <1>1 DEF TypeInv
<1> HIDE DEF rank, Of, Upto
<1>10. \A p \in W : \E g \in GPU, n \in Nat :
         /\ NewFrame(req, p) = <<g, n>>
         /\ allocated[g] < n /\ n <= allocated[g] + taken[g]
  <2> SUFFICES ASSUME NEW p \in W
               PROVE  \E g \in GPU, n \in Nat :
                        /\ NewFrame(req, p) = <<g, n>>
                        /\ allocated[g] < n /\ n <= allocated[g] + taken[g]
    OBVIOUS
  <2>1. taken[req.want[p]] = Cardinality(Of(req.want[p])) /\ Cardinality(Of(req.want[p])) \in Nat
    BY <1>1, <1>4 DEF Of
  <2>2. rank(p) \in Nat /\ rank(p) # 0 /\ rank(p) <= Cardinality(Of(req.want[p]))
    BY <1>6
  <2>3. PICK g \in GPU : g = req.want[p]
    BY <1>1
  <2>4. PICK n \in Nat : n = allocated[g] + rank(p)
    BY <1>9, <2>2, <2>3
  <2>5. NewFrame(req, p) = <<g, n>>
    BY <1>8, <2>3, <2>4
  <2>6. allocated[g] < n /\ n <= allocated[g] + taken[g]
    <3>1. allocated[g] \in Nat /\ taken[g] \in Nat /\ rank(p) \in Nat /\ rank(p) # 0
          /\ rank(p) <= taken[g]
      BY <1>9, <2>1, <2>2, <2>3
    <3> HIDE DEF rank
    <3> QED  BY <2>4, <3>1
  <2> QED  BY <2>5, <2>6
<1>11. \A p, q \in W : NewFrame(req, p) = NewFrame(req, q) => p = q
  <2> SUFFICES ASSUME NEW p \in W, NEW q \in W, NewFrame(req, p) = NewFrame(req, q)
               PROVE  p = q
    OBVIOUS
  <2>1. req.want[p] = req.want[q] /\ rank(p) = rank(q)
    <3>1. /\ req.want[p] = req.want[q]
          /\ allocated[req.want[p]] + rank(p) = allocated[req.want[q]] + rank(q)
      BY <1>8
    <3> QED  BY <1>6, <1>9, <3>1
  <2>2. p \in Nat /\ q \in Nat /\ ~ (p < q) /\ ~ (q < p)
    BY <1>1, <1>5, <1>7, <2>1
  <2> QED  BY <2>2
<1>12. \A g \in GPU : taken[g] = Cardinality(Of(g))
  BY DEF Of
<1> QED  BY <1>4, <1>10, <1>11, <1>12

\* After the last shoot-down the last version of each page to copy is in a
\* memory, the page has a fresh frame, and only stale writes may be on their
\* way to the frame it had.
LEMMA PreparedDInv ==
  ASSUME IInv, IInv', DInv, ShootPhase, BeforeCopies, PreparePages(Req), ~ BeforeCopies',
         UNCHANGED <<mem, l2, latest, tlb, toRDMA, flight, carried, toCP, pmc, asked, mmuPort,
                     stage, Req>>
  PROVE  DInv'
<1> DEFINE W == Wanted(Req)
           taken == [g \in GPU |-> Cardinality({p \in Page : Req.want[p] = g})]
<1>1. /\ GoodReq(Req) /\ NoCopies /\ W \in SUBSET Page /\ mmuPort = None /\ Granted(Req)
      /\ TypeInv /\ Outstanding = {}
  <2>1. CASE CopyPhase
    BY <2>1, CopiesInPhase
  <2>2. CASE ~ CopyPhase
    BY <2>2, CopiesInPhase DEF ShootPhase, Handling, Wanted, IInv, MMUInv, DInv, ReqInv, Req
  <2> QED  BY <2>1, <2>2
<1>2. /\ \A g \in GPU : taken[g] \in Nat /\ taken[g] <= Cardinality(W)
      /\ Cardinality(W) \in Nat
      /\ \A p \in W : \E g \in GPU, n \in Nat :
           /\ NewFrame(Req, p) = <<g, n>>
           /\ allocated[g] < n /\ n <= allocated[g] + taken[g]
      /\ \A p, q \in W : NewFrame(Req, p) = NewFrame(Req, q) => p = q
  <2> HIDE DEF taken
  <2>1. taken = [g \in GPU |-> Cardinality({p \in Page : Req.want[p] = g})]
    BY DEF taken
  <2> QED  BY <1>1, <2>1, FreshFrames
<1>3. /\ pageTable' = [p \in Page |-> IF p \in W THEN NewFrame(Req, p) ELSE pageTable[p]]
      /\ isMigrating' = [p \in Page |-> p \in W \/ isMigrating[p]]
      /\ allocated' = [g \in GPU |-> allocated[g] + taken[g]]
  BY DEF PreparePages
<1>4. /\ \A i \in DOMAIN migrationReqToSendToCP' : \E p \in W :
           /\ migrationReqToSendToCP'[i].from = pageTable[p]
           /\ migrationReqToSendToCP'[i].to = NewFrame(Req, p)
      /\ \A p \in W : \E i \in DOMAIN migrationReqToSendToCP' :
           migrationReqToSendToCP'[i].to = NewFrame(Req, p)
      /\ numPagesMigratingACK' # 0
  <2>1. migrationReqToSendToCP = <<>> /\ numPagesMigratingACK = 0
    BY <1>1 DEF NoCopies
  <2> HIDE DEF W
  <2> QED  BY <1>1, <2>1, PagesPrepared DEF W
<1>5. \A g \in GPU : allocated[g] \in Nat /\ allocated'[g] = allocated[g] + taken[g]
  BY <1>1, <1>3 DEF TypeInv
<1> HIDE DEF taken
<1>6. /\ NumPages \in Nat /\ MaxMigrations \in Nat /\ asked \in Nat /\ asked <= MaxMigrations
      /\ \A g \in GPU : allocated[g] + Cardinality(W) <= NumPages + asked
  BY <1>1, BoundAssumption DEF DInv, DataType, Granted
<1>7. \A f : Allocated(f) => Allocated(f)'
  <2> SUFFICES ASSUME NEW f, Allocated(f)  PROVE Allocated(f)'
    OBVIOUS
  <2>1. PICK g \in GPU, n \in 1 .. NumPages + MaxMigrations : f = <<g, n>>
    BY DEF Allocated, Frame
  <2>2. n \in Nat /\ allocated[g] \in Nat /\ taken[g] \in Nat /\ n <= allocated[g]
    BY <1>2, <1>5, <1>6, <2>1 DEF Allocated
  <2>3. n <= allocated'[g]
    BY <1>5, <2>2
  <2> QED  BY <2>1, <2>3 DEF Allocated
<1>8. \A p \in W : \A f : f = NewFrame(Req, p) =>
        f \in Frame /\ ~ Allocated(f) /\ Allocated(f)'
  <2> SUFFICES ASSUME NEW p \in W, NEW f, f = NewFrame(Req, p)
               PROVE  f \in Frame /\ ~ Allocated(f) /\ Allocated(f)'
    OBVIOUS
  <2>1. PICK g \in GPU, n \in Nat : /\ f = <<g, n>> /\ allocated[g] < n
                                   /\ n <= allocated[g] + taken[g]
    BY <1>2
  <2>2. allocated[g] \in Nat /\ taken[g] \in Nat /\ taken[g] <= Cardinality(W)
        /\ allocated'[g] = allocated[g] + taken[g]
    BY <1>2, <1>5
  <2>3. /\ n \in 1 .. NumPages + MaxMigrations /\ ~ (n <= allocated[g]) /\ n <= allocated'[g]
    <3>1. allocated[g] + Cardinality(W) <= NumPages + asked
      BY <1>6
    <3> HIDE DEF W
    <3> QED  BY <1>2, <1>6, <2>1, <2>2, <3>1
  <2> QED  BY <2>1, <2>3 DEF Allocated, Frame
<1> HIDE DEF W
<1>9. /\ \A p \in W : pageTable'[p] = NewFrame(Req, p) /\ isMigrating'[p]
      /\ \A p \in Page : p \notin W => pageTable'[p] = pageTable[p]
  BY <1>1, <1>3
<1>10. /\ \A p \in Page : Allocated(pageTable[p]) /\ pageTable[p] \in Frame
       /\ \A p, q \in Page : pageTable[p] = pageTable[q] => p = q
       /\ \A f \in Frame : ~ Allocated(f) => l2[f] = None
  BY DEF DInv, FrameInv, Allocated
<1>11. \A p \in Page : \A f : pageTable'[p] = f /\ Allocated(f) => p \notin W /\ pageTable[p] = f
  BY <1>8, <1>9
<1>12. DataType'
  BY DEF DInv, DataType
<1>13. FrameInv'
  <2>1. ASSUME NEW p \in Page  PROVE Allocated(pageTable[p])'
    <3>1. PICK f : f = pageTable'[p]
      OBVIOUS
    <3>2. Allocated(f)'
      BY <1>7, <1>8, <1>9, <1>10, <3>1
    <3> QED  BY <3>1, <3>2 DEF Allocated
  <2>2. ASSUME NEW p \in Page, NEW q \in Page, pageTable'[p] = pageTable'[q]  PROVE p = q
    <3>1. CASE p \in W /\ q \in W
      BY <1>2, <1>9, <2>2, <3>1
    <3>2. CASE p \notin W
      <4>1. q \notin W
        BY <1>9, <1>10, <1>11, <2>2, <3>2
      <4> QED  BY <1>9, <1>10, <2>2, <3>2, <4>1
    <3>3. CASE q \notin W
      <4>1. p \notin W
        BY <1>9, <1>10, <1>11, <2>2, <3>3
      <4> QED  BY <1>9, <1>10, <2>2, <3>3, <4>1
    <3> QED  BY <3>1, <3>2, <3>3
  <2>3. \A f \in Frame : ~ Allocated(f)' => l2'[f] = None
    BY <1>7, <1>10
  <2> QED  BY <2>1, <2>2, <2>3 DEF FrameInv
<1>14. ReqInv'
  <2>1. \A g \in GPU : allocated'[g] <= NumPages + asked
    BY <1>2, <1>5, <1>6
  <2> QED  BY <1>1, <2>1 DEF ReqInv
<1>15. AccessInv'
  <2>1. ASSUME NEW h \in GPU, NEW a, GoodAccess(h, a)  PROVE GoodAccess(h, a)'
    <3>1. /\ a \in Access /\ Allocated(a.frame)
          /\ \A p \in Page : pageTable[p] = a.frame => p = a.page
          /\ ~ a.stale => a.frame # None /\ tlb[h][a.page] = a.frame
      BY <2>1 DEF GoodAccess
    <3>2. \A p \in Page : pageTable'[p] = a.frame => p = a.page
      BY <1>11, <3>1
    <3>3. Allocated(a.frame)'
      BY <1>7, <3>1
    <3> QED  BY <3>1, <3>2, <3>3 DEF GoodAccess
  <2> QED  BY <2>1 DEF DInv, AccessInv
<1>16. FlushedInv'
  BY DEF DInv, FlushedInv
<1>17. \A h \in GPU, p \in W : tlb[h][p] = None
  <2> SUFFICES ASSUME NEW h \in GPU, NEW p \in W, tlb[h][p] # None  PROVE FALSE
    OBVIOUS
  <2>1. tlb[h][p] = pageTable[p]
    BY <1>1 DEF IInv, TranslationInv, TranslationsCurrent
  <2>2. tlb[h][p] = pageTable'[p]
    BY <1>1 DEF IInv, TranslationInv, TranslationsCurrent
  <2> QED  BY <1>1, <1>10, <1>11, <2>1, <2>2
<1>18. \A p \in W : l2[pageTable[p]] = None /\ mem[pageTable[p]] = latest[p]
  <2> SUFFICES ASSUME NEW p \in W
               PROVE  l2[pageTable[p]] = None /\ mem[pageTable[p]] = latest[p]
    OBVIOUS
  <2>1. p \in Page /\ pageTable[p] \in Frame /\ Device(pageTable[p]) \in GPU
    BY <1>1, <1>10 DEF Frame, Device
  <2>2. Device(pageTable[p]) \in Req.accessing
    BY <1>1 DEF Granted, W
  <2>3. stage[Device(pageTable[p])] = "stopped"
    <3>1. CopyPhase'
      BY <1>4, CopiesInPhaseNext
    <3> QED  BY <2>1, <2>2, <3>1 DEF CopyPhase, Accessing, Req
  <2>4. l2[pageTable[p]] = None
    BY <2>1, <2>3 DEF DInv, FlushedInv
  <2>5. Visible(pageTable[p]) = latest[p]
    BY <1>1, <2>1 DEF DInv, LatestInv
  <2> QED  BY <2>4, <2>5 DEF Visible
<1>19. Outstanding' = Queued'
  <2>1. Sent' = Sent /\ Copying' = Copying
    BY DEF Sent, Copying, IsCopyReq, IsCopying
  <2> QED  BY <1>1, <2>1 DEF Outstanding
<1>20. CopyInv'
  <2>1. Wanted(Req)' = W
    BY DEF Wanted, W
  <2>2. ASSUME NEW c \in Outstanding'  PROVE GoodCopy(c)'
    <3>1. PICK i \in DOMAIN migrationReqToSendToCP' :
            c = <<migrationReqToSendToCP'[i].from, migrationReqToSendToCP'[i].to, None>>
      BY <1>19 DEF Queued
    <3>2. PICK p \in W : c[1] = pageTable[p] /\ c[2] = NewFrame(Req, p) /\ c[3] = None
      BY <1>4, <3>1
    <3>3. c[1] \in Frame /\ Allocated(c[1]) /\ p \in Page
      BY <1>1, <1>10, <3>2
    <3>4. \A q \in Page : pageTable'[q] # c[1]
      BY <1>10, <1>11, <3>2, <3>3
    <3>5. c[2] = pageTable'[p] /\ l2[c[2]] = None
      BY <1>8, <1>9, <1>10, <3>2
    <3>6. mem[c[1]] = latest[p]
      BY <1>18, <3>2
    <3> QED  BY <2>1, <3>2, <3>3, <3>4, <3>5, <3>6 DEF GoodCopy
  <2> QED  BY <1>9, <1>17, <2>1, <2>2 DEF CopyInv
<1>21. LatestInv'
  <2> SUFFICES ASSUME NEW p \in Page
               PROVE  (\/ Visible(pageTable[p]) = latest[p]
                       \/ \E c \in Outstanding : c[2] = pageTable[p])'
    BY DEF LatestInv
  <2>1. CASE p \in W
    <3>1. PICK i \in DOMAIN migrationReqToSendToCP' :
            migrationReqToSendToCP'[i].to = NewFrame(Req, p)
      BY <1>4, <2>1
    <3>2. <<migrationReqToSendToCP'[i].from, migrationReqToSendToCP'[i].to, None>> \in Outstanding'
      BY <1>19 DEF Queued
    <3> QED  BY <1>9, <2>1, <3>1, <3>2
  <2>2. CASE p \notin W
    BY <1>1, <1>9, <2>2 DEF DInv, LatestInv, Visible
  <2> QED  BY <2>1, <2>2
<1> QED  BY <1>12, <1>13, <1>14, <1>15, <1>16, <1>20, <1>21 DEF DInv

\* The last shoot-down gives the pages new frames, the others change no data.
LEMMA ProcessShootdownCompleteRspDInv ==
  ASSUME IInv, IInv', DInv, NEW g \in GPU, ProcessShootdownCompleteRsp(g)
  PROVE  DInv'
<1> USE DEF mmuVars, gpuVars, memVars, cpVars, rdmaVars, flagVars
<1>1. /\ fromCP[g] = "shootdownRsp" /\ numShootDownACK' = numShootDownACK - 1
      /\ numShootDownACK' = 0 => PreparePages(Req)
      /\ numShootDownACK' # 0 =>
           UNCHANGED <<pageVars, migrationReqToSendToCP, numPagesMigratingACK>>
      /\ UNCHANGED <<numRDMADrainACK, flagVars, mmuVars, toCP, gpuVars, memVars>>
  BY DEF ProcessShootdownCompleteRsp, Receive, Req
<1>2. ShootPhase /\ numRDMADrainACK = 0
  BY <1>1, PhaseOf DEF IInv, ShootPhase
<1>3. numShootDownACK # 0
  <2>1. Wanted(currentPageMigrationReq) \in SUBSET Page
    BY DEF Wanted
  <2> QED  BY <1>2, <2>1, KindNames, RoundCount DEF ShootPhase
<1>4. CASE numShootDownACK' # 0
  <2>1. Outstanding' = Outstanding
    BY <1>1, <1>4, CopiesUnchanged
  <2>2. /\ asked' \in Nat /\ asked' <= MaxMigrations /\ ReqInv'
        /\ \A h \in GPU : pmc'[h] \in PMC
    BY <1>1, <1>3, <1>4, GrantsKept DEF DInv, DataType, BeforeCopies, Req, pageVars
  <2> QED  BY <1>1, <1>4, <2>1, <2>2, QuietStep DEF dataVars, Req, pageVars
<1>5. CASE numShootDownACK' = 0
  <2>1. BeforeCopies /\ ~ BeforeCopies' /\ PreparePages(Req)
    BY <1>1, <1>2, <1>3, <1>5 DEF BeforeCopies
  <2> QED  BY <1>1, <1>2, <2>1, PreparedDInv DEF Req
<1> QED  BY <1>4, <1>5

-----------------------------------------------------------------------------
(* The theorem.                                                            *)

\* The invariant holds when nothing has been asked and nothing written.
LEMMA InitDInv == Init => DInv
<1> SUFFICES ASSUME Init  PROVE DInv
  OBVIOUS
<1> USE DEF Init
<1>1. NumPages \in Nat /\ MaxMigrations \in Nat /\ \A p \in Page : Place[p] \in GPU
  BY BoundAssumption, PlaceAssumption
<1>2. Outstanding = {}
  BY DEF Outstanding, Queued, Sent, Copying, IsCopyReq, IsCopying
<1>3. DataType
  BY <1>1 DEF DataType, PMC
<1>4. FrameInv
  <2>1. \A p \in Page : p \in 1 .. NumPages + MaxMigrations /\ p <= NumPages
    BY <1>1 DEF Page
  <2> QED  BY <1>1, <2>1 DEF FrameInv, Allocated, Frame
<1>5. ReqInv
  BY <1>1 DEF ReqInv, BeforeCopies
<1>6. AccessInv
  BY DEF AccessInv
<1>7. FlushedInv
  BY DEF FlushedInv
<1>8. CopyInv
  BY <1>2 DEF CopyInv
<1>9. LatestInv
  BY <1>4 DEF LatestInv, FrameInv, Allocated, Visible
<1> QED  BY <1>3, <1>4, <1>5, <1>6, <1>7, <1>8, <1>9 DEF DInv

\* A step that changes nothing keeps the invariant.
LEMMA StutterDInv ==
  ASSUME IInv, IInv', DInv, UNCHANGED vars
  PROVE  DInv'
<1> USE DEF vars, drvVars, mmuVars, pageVars, linkVars, gpuVars, cpVars, rdmaVars, memVars,
            cntVars, flagVars, sendVars
<1>1. Outstanding' = Outstanding
  BY CopiesUnchanged
<1>2. /\ asked' \in Nat /\ asked' <= MaxMigrations /\ ReqInv'
      /\ \A h \in GPU : pmc'[h] \in PMC
  BY GrantsKept DEF DInv, DataType, BeforeCopies, Req
<1> QED  BY <1>1, <1>2, QuietStep DEF dataVars, Req

\* Every step keeps the invariant.
LEMMA NextDInv == IInv /\ IInv' /\ DInv /\ [Next]_vars => DInv'
<1> SUFFICES ASSUME IInv, IInv', DInv, [Next]_vars  PROVE DInv'
  OBVIOUS
<1>1. CASE UNCHANGED vars
  BY <1>1, StutterDInv
<1>2. CASE ParseFromMMU \/ SendToGPUs \/ SendMigrationReqToCP
  BY <1>2, ParseFromMMUDInv, SendToGPUsDInv, SendMigrationReqDInv
<1>3. CASE SendToMMU
  BY <1>3, SendToMMUDInv
<1>4. ASSUME NEW g \in GPU, DriverStep(g)  PROVE DInv'
  BY <1>4, AnswersDInv, ProcessShootdownCompleteRspDInv DEF DriverStep
<1>5. ASSUME NEW g \in GPU, CommandStep(g)  PROVE DInv'
  BY <1>5, CommandsDInv, ProcessCacheFlushRspDInv, ProcessTLBFlushRspDInv,
     ProcessPageMigrationReqDInv, PullDataDInv, WriteDataDInv, ProcessPageMigrationRspDInv
     DEF CommandStep
<1>6. ASSUME NEW g \in GPU, MemoryStep(g)  PROVE DInv'
  BY <1>6, ProcessReqFromL1DInv, ServeDInv DEF MemoryStep
<1>7. CASE RequestMigration \/ MigrationReturn
  BY <1>7, RequestMigrationDInv, MigrationReturnDInv
<1>8. ASSUME NEW g \in GPU, NEW p \in Page,
             Translate(g, p) \/ WriteLocal(g, p) \/ WriteRemote(g, p)
      PROVE  DInv'
  BY <1>8, TranslateDInv, WriteLocalDInv, WriteRemoteDInv
<1> QED  BY <1>1, <1>2, <1>3, <1>4, <1>5, <1>6, <1>7, <1>8 DEF Next

\* In every reachable state the last version of a page is in the frame its page
\* table entry names, or a copy of it to there is still to be made.
THEOREM DataInvariance == Spec => []DInv
<1> QED  BY NextDInv, InitDInv, Invariance, PTL DEF Spec

\* A migration loses no write, for any number of GPUs, pages, migrations and
\* writes: a page that is not migrating shows the last version written to it.
THEOREM MigrationLosesNothing == Spec => []NoWriteLost
<1>1. IInv /\ DInv => NoWriteLost
  <2> SUFFICES ASSUME IInv, DInv, NEW p \in Page, ~ isMigrating[p]
               PROVE  Visible(pageTable[p]) = latest[p]
    BY DEF NoWriteLost
  <2>1. ASSUME NEW c \in Outstanding  PROVE c[2] # pageTable[p]
    <3>1. PICK q \in Wanted(Req) : c[2] = pageTable[q]
      BY <2>1 DEF DInv, CopyInv, GoodCopy
    <3>2. isMigrating[q] /\ q \in Page
      BY <2>1, CopiesInPhase DEF DInv, CopyInv, Wanted
    <3> QED  BY <3>1, <3>2 DEF DInv, FrameInv
  <2> QED  BY <2>1 DEF DInv, LatestInv
<1> QED  BY <1>1, Invariance, DataInvariance, PTL
=============================================================================
