------------------------------ MODULE Dispatcher ------------------------------
(***************************************************************************)
(* The work-group dispatchers of a command processor                       *)
(* (timing/cp/internal/dispatching), the launches it hands them, and the   *)
(* compute units they share: one pool of resources, one port.              *)
(*                                                                         *)
(* A dispatcher cuts the grid of one kernel into work-groups with one of   *)
(* three algorithms, reserves the resources of a compute unit for each,    *)
(* sends it there, and answers the launch when every group has completed.  *)
(* The cycles it waits after a group and after a kernel (cycleLeft) only   *)
(* delay it: an action may be delayed anyway.  Sampling and analysis are   *)
(* switched off.                                                           *)
(***************************************************************************)
EXTENDS CUResource

CONSTANTS
  NumDispatchers,  \* dispatchers of the command processor
  NumCU,           \* compute units in the pool
  Kernel,          \* launches, each made once
  Grid,            \* Grid[k]: work-groups of the kernel
  Shape,           \* Shape[k]: what a work-group of the kernel needs
  WireCap,         \* messages on their way to the compute units
  None             \* nil

DispatcherID == 1 .. NumDispatchers
CU == 0 .. NumCU - 1
WG == UNION {{k} \X (0 .. Grid[k] - 1) : k \in Kernel}
Location == WG \X CU

ASSUME GridAssumption ==
  /\ NumCU \in Nat \ {0} /\ NumDispatchers \in Nat
  /\ Grid \in [Kernel -> Nat \ {0}]
ASSUME NoneAssumption == None \notin Kernel \cup WG \cup Location
\* A work-group has a wave.  One that an empty compute unit cannot hold is never
\* dispatched.
ASSUME ShapeAssumption ==
  \A k \in Kernel :
    /\ Shape[k] \in [waves : Nat \ {0}, sregs : Nat, lds : Nat, vregs : Nat]
    /\ CanHold(EmptyCU, Shape[k])

VARIABLES
  algorithm,        \* the algorithm of this platform
  alg,              \* its state, one per dispatcher
  cuPool,           \* resources of the compute units
  dispatching, currWG, inflightWGs, numDispatchedWGs, numCompletedWGs,
  unlaunched,       \* launches the driver has not made
  toDriver,         \* incoming buffer of ToDriver, capacity 1
  rsps,             \* launch responses the driver has not taken
  toCUs,            \* incoming buffer of ToCUs, capacity 1
  wire,             \* work-groups on their way to the compute units
  running,          \* work-groups mapped and not completed, per compute unit
  mapped            \* history: work-groups a compute unit ever started

dVars == <<dispatching, currWG, inflightWGs, numDispatchedWGs, numCompletedWGs>>
driverVars == <<unlaunched, toDriver, rsps>>
cuVars == <<toCUs, wire, running, mapped>>
vars == <<algorithm, alg, cuPool, dVars, driverVars, cuVars>>

\* The round robin and greedy algorithms have one grid builder and one
\* work-group at hand: they use the first entry of the three functions.
AlgState ==
  [kernel : Kernel \cup {None}, numDispatchedWG : Nat, next : 0 .. NumCU,
   dispatchedWG : [CU -> Nat], pos : [CU -> Nat],
   currWGs : [CU -> WG \cup {None}]]

TypeOK ==
  /\ algorithm \in {"partition", "round-robin", "greedy"}
  /\ alg \in [DispatcherID -> AlgState]
  /\ \A c \in CU : /\ cuPool[c].wfPoolFreeCount \in [SIMD -> 0 .. WfPoolSize]
                   /\ cuPool[c].nextSIMD \in SIMD
                   /\ DOMAIN cuPool[c].reservedWGs \subseteq WG
  /\ dispatching \in [DispatcherID -> Kernel \cup {None}]
  /\ currWG \in [DispatcherID -> Location \cup {None}]
  /\ inflightWGs \in [DispatcherID -> SUBSET Location]
  /\ \A d \in DispatcherID :
       /\ numCompletedWGs[d] \in 0 .. numDispatchedWGs[d]
       /\ alg[d].kernel # None => numDispatchedWGs[d] <= Grid[alg[d].kernel]
  /\ unlaunched \in SUBSET Kernel
  /\ toDriver \in Kernel \cup {None}
  /\ rsps \in SUBSET Kernel
  /\ toCUs \in WG \cup {None}
  /\ wire \in SUBSET Location
  /\ running \in [CU -> SUBSET WG]
  /\ mapped \in SUBSET WG

NoAlg == [kernel |-> None, numDispatchedWG |-> 0, next |-> 0,
          dispatchedWG |-> [c \in CU |-> 0], pos |-> [c \in CU |-> 0],
          currWGs |-> [c \in CU |-> None]]

Init ==
  /\ algorithm \in {"partition", "round-robin", "greedy"}
  /\ alg = [d \in DispatcherID |-> NoAlg]
  /\ cuPool = [c \in CU |-> EmptyCU]
  /\ dispatching = [d \in DispatcherID |-> None]
  /\ currWG = [d \in DispatcherID |-> None]
  /\ inflightWGs = [d \in DispatcherID |-> {}]
  /\ numDispatchedWGs = [d \in DispatcherID |-> 0]
  /\ numCompletedWGs = [d \in DispatcherID |-> 0]
  /\ unlaunched = Kernel
  /\ toDriver = None
  /\ rsps = {}
  /\ toCUs = None
  /\ wire = {}
  /\ running = [c \in CU |-> {}]
  /\ mapped = {}

-----------------------------------------------------------------------------
(* The algorithms.                                                         *)

NumWG(a) == Grid[a.kernel]

HasNext(a) == a.numDispatchedWG < NumWG(a)

\* mutant: the shares are rounded down
NumWGPerPartitionFloor(k) == Grid[k] \div NumCU

NumWGPerPartition(k) == (Grid[k] - 1) \div NumCU + 1

\* The partition algorithm makes its grid builders anew, each at the start of
\* its share; the other two keep the work-group they have at hand.
StartNewKernel(a, k) ==
  IF algorithm = "partition"
    THEN [NoAlg EXCEPT !.kernel = k,
                       !.pos = [p \in CU |-> p * NumWGPerPartition(k)]]
    ELSE [a EXCEPT !.kernel = k, !.numDispatchedWG = 0, !.pos[0] = 0,
                !.dispatchedWG[0] = 0]

\* noWGInPartition, negated
HasOwn(a, i) == a.dispatchedWG[i] < NumWGPerPartition(a.kernel)

\* The n-th compute unit a search tries.
FirstCU(a) == IF algorithm = "greedy" THEN 0 ELSE a.next
Order(a, n) == (FirstCU(a) + n) % NumCU

\* The grid builders asked for their next group in the first tries up to n:
\* one per compute unit tried that has groups of its own left, or the only one.
Asked(a, n) ==
  IF algorithm = "partition"
    THEN {p \in {Order(a, m) : m \in 0 .. n} : HasOwn(a, p)}
    ELSE {0}

\* The group in currWGs[p] then: a grid builder that is asked provides its
\* next group if none waits there.
AtHand(a, n, p) ==
  IF a.currWGs[p] = None /\ a.pos[p] < NumWG(a) /\ p \in Asked(a, n)
    THEN <<a.kernel, a.pos[p]>>
    ELSE a.currWGs[p]

Fetched(a, n) ==
  [a EXCEPT !.currWGs = [p \in CU |-> AtHand(a, n, p)],
            !.pos = [p \in CU |-> IF AtHand(a, n, p) = a.currWGs[p]
                                    THEN a.pos[p] ELSE a.pos[p] + 1]]

Waiting(a, n) == {p \in CU : AtHand(a, n, p) # None}

\* nextWG: the partition that provides the group for the n-th compute unit,
\* its own or, when that is used up, the first that has one at hand.
Provider(a, n) ==
  IF algorithm # "partition" THEN 0
  ELSE IF HasOwn(a, Order(a, n)) \/ Waiting(a, n) = {} THEN Order(a, n)
  ELSE CHOOSE p \in Waiting(a, n) : \A q \in Waiting(a, n) : p <= q

\* The groups a search offers, if it asks every compute unit.
Offers(a) == {[n |-> n, cu |-> Order(a, n), wg |-> AtHand(a, n, Provider(a, n))] :
              n \in 0 .. NumCU - 1}

\* The same with the outcome of the reservation.
Attempts(a, pool) ==
  {[n |-> t.n, cu |-> t.cu, wg |-> t.wg,
    res |-> ReserveResourceForWG(pool[t.cu], t.wg, Shape[t.wg[1]])] :
     t \in {u \in Offers(a) : u.wg # None}}

\* mutant: a group that was placed stays at hand
TakenStays(a, p) ==
  [a EXCEPT !.dispatchedWG[p] = @ + 1, !.numDispatchedWG = @ + 1]

\* A group that was placed is not at hand any more.
Taken(a, p) ==
  [a EXCEPT !.currWGs[p] = None, !.dispatchedWG[p] = @ + 1,
            !.numDispatchedWG = @ + 1]

\* What a success leaves for the next search: nextPartition may be NumCU.
NextAfter(a, i) ==
  IF algorithm = "partition" THEN i + 1
  ELSE IF algorithm = "round-robin" THEN (i + 1) % NumCU
  ELSE a.next

\* Next: the first compute unit that takes the group it is offered.  Groups
\* fetched and SIMDs tried on the way to it stay fetched and tried.
Search(a, pool, tries) ==
  LET good == {t \in tries : t.res.ok}
      last == IF good = {} THEN NumCU - 1
              ELSE CHOOSE n \in {t.n : t \in good} : \A t \in good : n <= t.n
      b    == Fetched(a, last)
      made == {t \in tries : t.n <= last}
      hit  == CHOOSE t \in good : t.n = last
  IN  [alg  |-> IF good = {} THEN b
                ELSE [Taken(b, Provider(a, last)) EXCEPT
                        !.next = NextAfter(a, hit.cu)],
       pool |-> [c \in CU |-> IF \E t \in made : t.cu = c
                                THEN (CHOOSE t \in made : t.cu = c).res.cu
                                ELSE pool[c]],
       found |-> IF good = {} THEN None ELSE <<hit.wg, hit.cu>>]

-----------------------------------------------------------------------------
(* The dispatchers.                                                        *)

\* mutant: a kernel is complete once every group was sent
KernelCompletedEarly(d) ==
  /\ currWG[d] = None
  /\ ~ HasNext(alg[d])

KernelCompleted(d) ==
  /\ currWG[d] = None
  /\ ~ HasNext(alg[d])
  /\ numCompletedWGs[d] >= numDispatchedWGs[d]

\* processLaunchKernelReq of the command processor: the first dispatcher that
\* is not dispatching takes the launch.
StartDispatching(d) ==
  /\ toDriver # None
  /\ dispatching[d] = None
  /\ \A e \in DispatcherID : e < d => dispatching[e] # None
  /\ dispatching' = [dispatching EXCEPT ![d] = toDriver]
  /\ alg' = [alg EXCEPT ![d] = StartNewKernel(@, toDriver)]
  /\ numDispatchedWGs' = [numDispatchedWGs EXCEPT ![d] = 0]
  /\ numCompletedWGs' = [numCompletedWGs EXCEPT ![d] = 0]
  /\ toDriver' = None
  /\ UNCHANGED <<algorithm, cuPool, currWG, inflightWGs, unlaunched, rsps,
                 cuVars>>

CompleteKernel(d) ==
  /\ dispatching[d] # None
  /\ KernelCompleted(d)
  /\ rsps = {}
  /\ rsps' = {dispatching[d]}
  /\ dispatching' = [dispatching EXCEPT ![d] = None]
  /\ UNCHANGED <<algorithm, alg, cuPool, currWG, inflightWGs, numDispatchedWGs,
                 numCompletedWGs, unlaunched, toDriver, cuVars>>

Remember(table, location) == table \cup {location}

\* The group at hand is sent, or kept when the port is full.
SendOrKeep(d, wg) ==
  IF wg # None /\ Cardinality(wire) < WireCap
    THEN /\ wire' = wire \cup {wg}
         /\ currWG' = [currWG EXCEPT ![d] = None]
         /\ numDispatchedWGs' = [numDispatchedWGs EXCEPT ![d] = @ + 1]
         /\ inflightWGs' = [inflightWGs EXCEPT ![d] = Remember(@, wg)]
    ELSE /\ currWG' = [currWG EXCEPT ![d] = wg]
         /\ UNCHANGED <<wire, numDispatchedWGs, inflightWGs>>

\* A search that finds nothing still leaves its traces.
DispatchNextWG(d) ==
  /\ dispatching[d] # None
  /\ ~ KernelCompleted(d)
  /\ \/ /\ currWG[d] # None
        /\ SendOrKeep(d, currWG[d])
        /\ UNCHANGED <<alg, cuPool>>
     \/ /\ currWG[d] = None
        /\ HasNext(alg[d])
        /\ \E search \in {Search(alg[d], cuPool, tries) :
                            tries \in {Attempts(alg[d], cuPool)}} :
             /\ alg' = [alg EXCEPT ![d] = search.alg]
             /\ cuPool' = search.pool
             /\ SendOrKeep(d, search.found)
  /\ UNCHANGED <<algorithm, dispatching, numCompletedWGs, driverVars, toCUs,
                 running, mapped>>

\* A completion stays in the port until its dispatcher comes to it.
ProcessMessagesFromCU(d) ==
  /\ toCUs # None
  /\ \E location \in inflightWGs[d] :
       /\ location[1] = toCUs
       /\ cuPool' = [cuPool EXCEPT ![location[2]] =
                       FreeResourcesForWG(@, location[1], Shape[toCUs[1]])]
       /\ inflightWGs' = [inflightWGs EXCEPT ![d] = @ \ {location}]
  /\ numCompletedWGs' = [numCompletedWGs EXCEPT ![d] = @ + 1]
  /\ toCUs' = None
  /\ UNCHANGED <<algorithm, alg, dispatching, currWG, numDispatchedWGs,
                 driverVars, wire, running, mapped>>

-----------------------------------------------------------------------------
(* The driver and the compute units.                                       *)

Launch(k) ==
  /\ k \in unlaunched
  /\ toDriver = None
  /\ toDriver' = k
  /\ unlaunched' = unlaunched \ {k}
  /\ UNCHANGED <<algorithm, alg, cuPool, dVars, rsps, cuVars>>

TakeRsp ==
  /\ rsps # {}
  /\ rsps' = {}
  /\ UNCHANGED <<algorithm, alg, cuPool, dVars, unlaunched, toDriver, cuVars>>

HandleMapWGReq(c) ==
  /\ \E location \in wire :
       /\ location[2] = c
       /\ wire' = wire \ {location}
       /\ running' = [running EXCEPT ![c] = @ \cup {location[1]}]
       /\ mapped' = mapped \cup {location[1]}
  /\ UNCHANGED <<algorithm, alg, cuPool, dVars, driverVars, toCUs>>

\* Groups complete in any order; a completion the port refuses is sent again.
SendWGCompletionMessage(c) ==
  /\ toCUs = None
  /\ \E wg \in running[c] :
       /\ toCUs' = wg
       /\ running' = [running EXCEPT ![c] = @ \ {wg}]
  /\ UNCHANGED <<algorithm, alg, cuPool, dVars, driverVars, wire, mapped>>

Next ==
  \/ \E d \in DispatcherID : \/ StartDispatching(d)
                             \/ CompleteKernel(d)
                             \/ DispatchNextWG(d)
                             \/ ProcessMessagesFromCU(d)
  \/ \E k \in Kernel : Launch(k)
  \/ TakeRsp
  \/ \E c \in CU : HandleMapWGReq(c) \/ SendWGCompletionMessage(c)

Spec == Init /\ [][Next]_vars

\* The command processor ticks while it has work, a compute unit ends every
\* group it was given, and the driver takes responses; it need not launch.
FairSpec ==
  /\ Spec
  /\ \A d \in DispatcherID : /\ WF_vars(StartDispatching(d))
                             /\ WF_vars(CompleteKernel(d))
                             /\ WF_vars(DispatchNextWG(d))
                             /\ WF_vars(ProcessMessagesFromCU(d))
  /\ WF_vars(TakeRsp)
  /\ \A c \in CU : /\ WF_vars(HandleMapWGReq(c))
                   /\ WF_vars(SendWGCompletionMessage(c))

-----------------------------------------------------------------------------
(* Properties.                                                             *)

\* Where the dispatchers say the work-groups of compute unit c are.
Placed(c) ==
  {location[1] : location \in
     {l \in UNION {inflightWGs[d] \cup ({currWG[d]} \ {None}) :
                     d \in DispatcherID} : l[2] = c}}

\* Regions of the waves of the reserved groups, and the sum of their lengths.
Waves(cu) == UNION {{<<w, i>> : i \in DOMAIN cu.reservedWGs[w]} :
                      w \in DOMAIN cu.reservedWGs}
Loc(cu, v) == cu.reservedWGs[v[1]][v[2]]
SGPROf(cu, v) == Region(Loc(cu, v).SGPR, Shape[v[1][1]].sregs)
VGPROf(cu, v) == Region(Loc(cu, v).VGPR, Shape[v[1][1]].vregs)
LDSOf(cu, w) == Region(cu.reservedWGs[w][1].LDS, Shape[w[1]].lds)

\* The books of the pool agree with the dispatchers, although they reserve
\* and free in any order: a group is reserved exactly while a dispatcher
\* holds it, no two waves share a register and no two groups a byte, and
\* nothing else is taken.
ResourcesMatch ==
  \A c \in CU :
    LET cu == cuPool[c]
    IN  /\ DOMAIN cu.reservedWGs = Placed(c)
        /\ cu.sregMask = UNION {SGPROf(cu, v) : v \in Waves(cu)}
        /\ cu.ldsMask = UNION {LDSOf(cu, w) : w \in DOMAIN cu.reservedWGs}
        /\ \A s \in SIMD :
             LET here == {v \in Waves(cu) : Loc(cu, v).SIMDID = s}
             IN  /\ cu.vregMasks[s] = UNION {VGPROf(cu, v) : v \in here}
                 /\ cu.wfPoolFreeCount[s] + Cardinality(here) = WfPoolSize
        /\ \A v, x \in Waves(cu) : v # x =>
             /\ SGPROf(cu, v) \cap SGPROf(cu, x) = {}
             /\ \/ Loc(cu, v).SIMDID # Loc(cu, x).SIMDID
                \/ VGPROf(cu, v) \cap VGPROf(cu, x) = {}
        /\ \A w, x \in DOMAIN cu.reservedWGs :
             w # x => LDSOf(cu, w) \cap LDSOf(cu, x) = {}

\* A compute unit refuses a work-group only if there is no way to place it,
\* wherever earlier groups left holes and whichever SIMD comes first.
RefusesOnlyWhenFull ==
  \A c \in CU, k \in Kernel :
    ReserveResourceForWG(cuPool[c], <<k, 0>>, Shape[k]).ok
      <=> CanHold(cuPool[c], Shape[k])

\* No work-group starts twice, on one compute unit or on two, although
\* partitions lend their groups to each other's compute units.
StartsOnce ==
  [][\A c \in CU : (running'[c] \ running[c]) \cap mapped = {}]_vars

\* A launch is answered after all the groups of its kernel have completed.
AnsweredWhenDone ==
  \A k \in Kernel :
    (k \notin unlaunched /\ toDriver # k /\ \A d \in DispatcherID : dispatching[d] # k)
      => /\ {w \in WG : w[1] = k} \subseteq mapped
         /\ \A w \in WG : w[1] = k =>
              /\ toCUs # w
              /\ \A c \in CU : w \notin running[c] /\ <<w, c>> \notin wire

\* Every launch is answered, although kernels compete for the compute units.
LaunchIsAnswered ==
  \A k \in Kernel : (toDriver = k) ~> (k \in rsps)
=============================================================================
