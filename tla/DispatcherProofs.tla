-------------------------- MODULE DispatcherProofs --------------------------
(***************************************************************************)
(* Proofs about Dispatcher, for every number of dispatchers and compute    *)
(* units, every set of kernels, every grid and every shape: no work-group  *)
(* starts twice, a launch is answered only when all of its groups have     *)
(* completed, the resources that are booked on the compute units are those *)
(* of the groups the dispatchers hold there, and a group is refused only   *)
(* when there is no way to place it.                                       *)
(*                                                                         *)
(* The first two hold for one reason: a group that was taken from its      *)
(* algorithm is gone for good, since the grid builders stay in shares that *)
(* do not overlap, and each one taken was counted.  The third one needs    *)
(* the same, for a group must not be booked where it is booked already,    *)
(* and what the two recursive searches of ReserveResourceForWG return.     *)
(* For the last one, the first region meets at most one of any regions     *)
(* that are free and apart, so that taking it costs no more than one.      *)
(***************************************************************************)
EXTENDS Dispatcher, FiniteSetTheorems, WellFoundedInduction, TLAPS

-----------------------------------------------------------------------------
(* Numbers and compute units.                                              *)

\* A set of numbers has a least one.
LEMMA SmallestNat ==
  ASSUME NEW S \in SUBSET Nat, S # {}
  PROVE  \E n \in S : \A m \in S : n <= m
<1> DEFINE R == {ss \in Nat \X Nat : ss[1] < ss[2]}
<1>1. IsWellFoundedOn(R, Nat)
  BY NatLessThanWellFounded DEF OpToRel
<1>2. \E x \in S : \A y \in S : ~ (<<y, x>> \in R)
  <2> HIDE DEF R
  <2> QED BY <1>1, WFMin
<1>3. PICK x \in S : \A y \in S : ~ (<<y, x>> \in R)
  BY <1>2
<1>4. \A y, z \in Nat : y < z => <<y, z>> \in R
  OBVIOUS
<1>5. \A y \in S : x \in Nat /\ y \in Nat /\ ~ (y < x)
  BY <1>3, <1>4
<1> QED  BY <1>5

\* A share is a number of groups.
LEMMA ShareType ==
  ASSUME NEW k \in Kernel
  PROVE  NumWGPerPartition(k) \in Nat
<1>1. NumCU \in Nat \ {0} /\ Grid[k] \in Nat \ {0}
  BY GridAssumption
<1>2. Grid[k] - 1 \in Nat /\ (Grid[k] - 1) \div NumCU \in Nat
  BY <1>1
<1> QED  BY <1>2 DEF NumWGPerPartition

\* The shares of two partitions do not overlap.
LEMMA SharesApart ==
  ASSUME NEW p \in CU, NEW q \in CU, p # q, NEW s \in Nat
  PROVE  \/ (p + 1) * s <= q * s
         \/ (q + 1) * s <= p * s
<1>1. \A x, y \in Nat : x <= y => x * s <= y * s
  OBVIOUS
<1>2. p \in Nat /\ q \in Nat /\ (p + 1 <= q \/ q + 1 <= p)
  BY GridAssumption DEF CU
<1> QED  BY <1>1, <1>2

\* A search tries compute units of the pool.
LEMMA OrderType ==
  ASSUME NEW a \in AlgState, NEW n \in 0 .. NumCU - 1
  PROVE  Order(a, n) \in CU
<1>1. a.next \in Nat /\ NumCU \in Nat \ {0}
  BY GridAssumption DEF AlgState
<1>2. FirstCU(a) + n \in Nat
  BY <1>1 DEF FirstCU
<1>3. \A x \in Nat, y \in Nat \ {0} : x % y \in 0 .. y - 1
  OBVIOUS
<1> QED  BY <1>1, <1>2, <1>3 DEF Order, CU
-----------------------------------------------------------------------------
(* The invariant.                                                          *)

OfKernel(k) == {k} \X (0 .. Grid[k] - 1)

\* Types, but for the books of the compute units, which decide where a group
\* goes and never whether it goes again.
TypeInv ==
  /\ alg \in [DispatcherID -> AlgState]
  /\ dispatching \in [DispatcherID -> Kernel \cup {None}]
  /\ currWG \in [DispatcherID -> Location \cup {None}]
  /\ inflightWGs \in [DispatcherID -> SUBSET Location]
  /\ numDispatchedWGs \in [DispatcherID -> Nat]
  /\ numCompletedWGs \in [DispatcherID -> Nat]
  /\ unlaunched \subseteq Kernel
  /\ toDriver \in Kernel \cup {None}
  /\ toCUs \in WG \cup {None}
  /\ wire \subseteq Location
  /\ running \in [CU -> SUBSET WG]
  /\ mapped \subseteq WG

\* The first group of a share; the other algorithms have one share only.
Base(k, p) ==
  IF algorithm = "partition" THEN p * NumWGPerPartition(k) ELSE 0

\* A grid builder stands in its own share, and the group it has at hand is the
\* one before.  Without partitions only the first builder is used.
Cut(a) ==
  /\ \A p \in CU :
       /\ Base(a.kernel, p) <= a.pos[p]
       /\ a.currWGs[p] # None => /\ a.currWGs[p] = <<a.kernel, a.pos[p] - 1>>
                                 /\ Base(a.kernel, p) < a.pos[p]
  /\ algorithm = "partition" =>
       \A p \in CU :
         /\ a.pos[p] = Base(a.kernel, p) + a.dispatchedWG[p]
                         + (IF a.currWGs[p] = None THEN 0 ELSE 1)
         /\ a.pos[p] <= (p + 1) * NumWGPerPartition(a.kernel)

OneBuilder(a) ==
  algorithm # "partition" =>
    \A p \in CU \ {0} : a.pos[p] = 0 /\ a.currWGs[p] = None

\* The groups an algorithm does not offer again.
Gone(a, w) ==
  /\ w[1] = a.kernel
  /\ \E p \in CU : /\ Base(a.kernel, p) <= w[2] /\ w[2] < a.pos[p]
                   /\ w # a.currWGs[p]

\* The groups that have left the dispatchers.
Out == mapped \cup {l[1] : l \in wire}

\* The groups of its kernel a dispatcher took from its algorithm.
Given(d) ==
  {w \in OfKernel(dispatching[d]) :
     w \in Out \/ (currWG[d] # None /\ currWG[d][1] = w)}

\* A dispatcher that has a kernel: every group it took is gone for good, the
\* algorithm counted each of them once, and those in flight are the ones sent
\* and not completed.
Busy(d) ==
  /\ alg[d].kernel = dispatching[d]
  /\ Cut(alg[d])
  /\ \A w \in Given(d) : Gone(alg[d], w)
  /\ IsFiniteSet(Given(d))
  /\ Cardinality(Given(d)) = alg[d].numDispatchedWG
  /\ currWG[d] # None =>
       currWG[d][1] \in OfKernel(dispatching[d]) \ Out
  /\ \A l \in inflightWGs[d] : l[1] \in OfKernel(dispatching[d]) \cap Out
  /\ IsFiniteSet(inflightWGs[d])
  /\ Cardinality(inflightWGs[d]) + numCompletedWGs[d] = numDispatchedWGs[d]

Rest(d) ==
  /\ \A p \in CU : alg[d].currWGs[p] = None
  /\ currWG[d] = None
  /\ inflightWGs[d] = {}

DispatcherInv(d) ==
  /\ OneBuilder(alg[d])
  /\ dispatching[d] = None => Rest(d)
  /\ dispatching[d] # None => Busy(d)

\* A group on its way has not started, is there once, and no two groups are
\* where the same one could be completed twice; a dispatcher remembers all.
FlightInv ==
  /\ \A l \in wire : /\ l[1] \notin mapped
                     /\ \A m \in wire : l[1] = m[1] => l = m
                     /\ \E d \in DispatcherID : l \in inflightWGs[d]
  /\ \A c \in CU : \A w \in running[c] :
       /\ w \in mapped /\ w # toCUs
       /\ \A e \in CU : w \in running[e] => e = c
       /\ \E d \in DispatcherID : <<w, c>> \in inflightWGs[d]
  /\ toCUs # None =>
       /\ toCUs \in mapped
       /\ \E d \in DispatcherID : \E l \in inflightWGs[d] : l[1] = toCUs

\* A kernel is in one place, is untouched before a dispatcher has it, and all
\* of its groups have started when none has it any more.
KernelInv ==
  /\ toDriver # None => toDriver \notin unlaunched
  /\ \A d \in DispatcherID : dispatching[d] # None =>
       /\ dispatching[d] \notin unlaunched
       /\ dispatching[d] # toDriver
       /\ \A e \in DispatcherID : dispatching[e] = dispatching[d] => e = d
  /\ \A k \in Kernel : k \in unlaunched \/ toDriver = k =>
       OfKernel(k) \cap Out = {}
  /\ \A k \in Kernel :
       (k \notin unlaunched /\ toDriver # k /\ \A d \in DispatcherID : dispatching[d] # k)
         => OfKernel(k) \subseteq mapped

IInv ==
  /\ TypeInv
  /\ \A d \in DispatcherID : DispatcherInv(d)
  /\ FlightInv
  /\ KernelInv

-----------------------------------------------------------------------------
(* The algorithms.                                                         *)

\* The groups of a kernel, as pairs.
LEMMA Groups ==
  ASSUME NEW w \in WG
  PROVE  /\ w[1] \in Kernel /\ w[2] \in 0 .. Grid[w[1]] - 1
         /\ w = <<w[1], w[2]>> /\ w \in OfKernel(w[1])
         /\ w # None
BY NoneAssumption DEF WG, OfKernel

\* The groups of one kernel.
LEMMA InKernel ==
  ASSUME NEW k \in Kernel
  PROVE  /\ OfKernel(k) \subseteq WG
         /\ \A w \in OfKernel(k) : w[1] = k
         /\ \A i \in Nat : i < Grid[k] => <<k, i>> \in OfKernel(k)
         /\ k # None
<1>1. Grid[k] \in Nat
  BY GridAssumption
<1> QED  BY <1>1, NoneAssumption DEF WG, OfKernel

\* What is at hand after the first tries.
LEMMA AtHandType ==
  ASSUME NEW a \in AlgState, a.kernel \in Kernel, NEW n, NEW p \in CU
  PROVE  AtHand(a, n, p) \in WG \cup {None}
<1>1. a.pos[p] \in Nat /\ a.currWGs[p] \in WG \cup {None}
  BY DEF AlgState
<1>2. a.pos[p] < Grid[a.kernel] => <<a.kernel, a.pos[p]>> \in WG
  BY <1>1, InKernel
<1> QED  BY <1>1, <1>2 DEF AtHand, NumWG

\* The algorithm after some tries.
LEMMA FetchedType ==
  ASSUME NEW a \in AlgState, a.kernel \in Kernel, NEW n
  PROVE  /\ Fetched(a, n) \in AlgState
         /\ Fetched(a, n).kernel = a.kernel
         /\ Fetched(a, n).numDispatchedWG = a.numDispatchedWG
         /\ Fetched(a, n).dispatchedWG = a.dispatchedWG
         /\ \A p \in CU :
              /\ Fetched(a, n).currWGs[p] = AtHand(a, n, p)
              /\ Fetched(a, n).pos[p] = IF AtHand(a, n, p) = a.currWGs[p]
                                          THEN a.pos[p] ELSE a.pos[p] + 1
<1>1. \A p \in CU : AtHand(a, n, p) \in WG \cup {None}
  BY AtHandType
<1>2. \A p \in CU : a.pos[p] \in Nat
  BY DEF AlgState
<1> DEFINE groups == [p \in CU |-> AtHand(a, n, p)]
           places == [p \in CU |-> IF AtHand(a, n, p) = a.currWGs[p]
                                     THEN a.pos[p] ELSE a.pos[p] + 1]
<1>3. groups \in [CU -> WG \cup {None}]
  BY <1>1
<1>4. places \in [CU -> Nat]
  BY <1>2
<1>5. Fetched(a, n) = [a EXCEPT !.currWGs = groups, !.pos = places]
  BY DEF Fetched
<1>6. \A p \in CU : groups[p] = AtHand(a, n, p)
  OBVIOUS
<1>7. \A p \in CU : places[p] = IF AtHand(a, n, p) = a.currWGs[p]
                                  THEN a.pos[p] ELSE a.pos[p] + 1
  OBVIOUS
<1> HIDE DEF groups, places
<1>8. /\ Fetched(a, n) \in AlgState
      /\ Fetched(a, n).kernel = a.kernel
      /\ Fetched(a, n).numDispatchedWG = a.numDispatchedWG
      /\ Fetched(a, n).dispatchedWG = a.dispatchedWG
      /\ Fetched(a, n).currWGs = groups
      /\ Fetched(a, n).pos = places
  BY <1>3, <1>4, <1>5 DEF AlgState
<1> QED  BY <1>6, <1>7, <1>8

\* A search offers the group of some partition to some compute unit.
LEMMA ProviderType ==
  ASSUME NEW a \in AlgState, NEW n \in 0 .. NumCU - 1
  PROVE  Provider(a, n) \in CU
<1>1. Order(a, n) \in CU
  BY OrderType
<1>2. 0 \in CU
  BY GridAssumption DEF CU
<1>3. Waiting(a, n) \in SUBSET Nat /\ Waiting(a, n) \subseteq CU
  BY DEF Waiting, CU
<1>4. Waiting(a, n) # {} =>
        \E p \in Waiting(a, n) : \A q \in Waiting(a, n) : p <= q
  BY <1>3, SmallestNat
<1> HIDE DEF Waiting, Order
<1> QED  BY <1>1, <1>2, <1>3, <1>4 DEF Provider

\* An algorithm whose search took the group at hand in partition p.
Took(a, p, next) == [Taken(a, p) EXCEPT !.next = next]

\* What a search returns, wherever it found a place: the algorithm after some
\* tries, with one group taken that was at hand, or with none.
LEMMA SearchResult ==
  ASSUME NEW a \in AlgState, NEW pool
  PROVE  \E n \in 0 .. NumCU - 1 :
           LET r == Search(a, pool, Attempts(a, pool))
           IN  \/ r.found = None /\ r.alg = Fetched(a, n)
               \/ \E p \in CU, c \in CU, next \in 0 .. NumCU :
                    /\ AtHand(a, n, p) # None
                    /\ r.found = <<AtHand(a, n, p), c>>
                    /\ r.alg = Took(Fetched(a, n), p, next)
<1> DEFINE tries == Attempts(a, pool)
           good  == {t \in tries : t.res.ok}
           least == CHOOSE n \in {t.n : t \in good} : \A t \in good : n <= t.n
           last  == IF good = {} THEN NumCU - 1 ELSE least
           hit   == CHOOSE t \in good : t.n = last
           r     == Search(a, pool, tries)
<1>1. \A t \in tries : /\ t.n \in 0 .. NumCU - 1 /\ t.cu = Order(a, t.n)
                       /\ t.wg = AtHand(a, t.n, Provider(a, t.n))
                       /\ t.wg # None
  BY DEF Attempts, Offers
<1>2. /\ r.found = IF good = {} THEN None ELSE <<hit.wg, hit.cu>>
      /\ r.alg = IF good = {} THEN Fetched(a, last)
                 ELSE [Taken(Fetched(a, last), Provider(a, last)) EXCEPT
                         !.next = NextAfter(a, hit.cu)]
  BY DEF Search
<1> HIDE DEF tries, r
<1>3. CASE good = {}
  <2>1. NumCU - 1 \in 0 .. NumCU - 1
    BY GridAssumption
  <2> QED  BY <1>2, <1>3, <2>1 DEF r, tries
<1>4. CASE good # {}
  <2> DEFINE ns == {t.n : t \in good}
  <2>1. ns \in SUBSET Nat /\ ns # {}
    BY <1>1, <1>4
  <2>2. \E n \in ns : \A m \in ns : n <= m
    <3> HIDE DEF ns
    <3> QED  BY <2>1, SmallestNat
  <2>3. least \in ns
    BY <2>2
  <2>4. last \in ns
    BY <1>4, <2>3
  <2> HIDE DEF last
  <2>5. hit \in good /\ hit.n = last
    BY <2>4
  <2> HIDE DEF hit
  <2>6. /\ last \in 0 .. NumCU - 1 /\ hit.cu = Order(a, last)
        /\ hit.wg = AtHand(a, last, Provider(a, last)) /\ hit.wg # None
    BY <1>1, <2>5
  <2>7. Provider(a, last) \in CU /\ hit.cu \in CU
    BY <2>6, ProviderType, OrderType
  <2>8. NextAfter(a, hit.cu) \in 0 .. NumCU
    <3>1. a.next \in 0 .. NumCU /\ NumCU \in Nat \ {0}
      BY GridAssumption DEF AlgState
    <3>2. hit.cu \in 0 .. NumCU - 1
      BY <2>7 DEF CU
    <3>3. \A x \in Nat, y \in Nat \ {0} : x % y \in 0 .. y - 1
      OBVIOUS
    <3>4. hit.cu + 1 \in Nat /\ hit.cu + 1 \in 0 .. NumCU
      BY <3>1, <3>2
    <3>5. (hit.cu + 1) % NumCU \in 0 .. NumCU - 1
      BY <3>1, <3>3, <3>4
    <3>6. \A x \in 0 .. NumCU - 1 : x \in 0 .. NumCU
      BY <3>1
    <3>7. (hit.cu + 1) % NumCU \in 0 .. NumCU
      BY <3>5, <3>6
    <3> QED  BY <3>1, <3>4, <3>7 DEF NextAfter
  <2>9. /\ r.found = <<AtHand(a, last, Provider(a, last)), hit.cu>>
        /\ r.alg = [Taken(Fetched(a, last), Provider(a, last)) EXCEPT
                      !.next = NextAfter(a, hit.cu)]
    BY <1>2, <1>4, <2>6
  <2> QED  BY <2>6, <2>7, <2>8, <2>9 DEF r, tries, Took
<1> QED  BY <1>3, <1>4

\* Asking grid builders keeps them in their shares, and what is gone stays gone.
LEMMA FetchedCut ==
  ASSUME NEW a \in AlgState, a.kernel \in Kernel, Cut(a), OneBuilder(a), NEW n
  PROVE  /\ Cut(Fetched(a, n)) /\ OneBuilder(Fetched(a, n))
         /\ \A w \in WG : Gone(a, w) => Gone(Fetched(a, n), w)
<1> DEFINE k == a.kernel
           b == Fetched(a, n)
           s == NumWGPerPartition(k)
<1>1. /\ b \in AlgState /\ b.kernel = k /\ b.dispatchedWG = a.dispatchedWG
      /\ \A p \in CU :
           /\ b.currWGs[p] = AtHand(a, n, p)
           /\ b.pos[p] = IF AtHand(a, n, p) = a.currWGs[p]
                           THEN a.pos[p] ELSE a.pos[p] + 1
  BY FetchedType
<1> HIDE DEF b
<1>2. s \in Nat /\ k \in Kernel
  BY ShareType
<1>3. \A p \in CU : p \in Nat /\ p * s \in Nat /\ (p + 1) * s = p * s + s
  BY <1>2 DEF CU
<1> HIDE DEF s
<1>4. \A p \in CU : /\ a.pos[p] \in Nat /\ a.dispatchedWG[p] \in Nat
                    /\ Base(k, p) \in Nat
  BY <1>3 DEF AlgState, Base, s
<1>5. ASSUME NEW p \in CU
      PROVE  \/ /\ b.currWGs[p] = a.currWGs[p] /\ b.pos[p] = a.pos[p]
             \/ /\ a.currWGs[p] = None /\ b.currWGs[p] = <<k, a.pos[p]>>
                /\ b.currWGs[p] # None /\ b.pos[p] = a.pos[p] + 1
                /\ p \in Asked(a, n)
  <2>1. AtHand(a, n, p) # a.currWGs[p] =>
          /\ a.currWGs[p] = None /\ AtHand(a, n, p) = <<k, a.pos[p]>>
          /\ p \in Asked(a, n)
    BY DEF AtHand
  <2> QED  BY <1>1, <2>1
<1>6. algorithm = "partition" =>
        \A p \in Asked(a, n) : a.dispatchedWG[p] < s
  BY DEF Asked, HasOwn, s
<1>7. algorithm # "partition" => \A p \in Asked(a, n) : p = 0
  BY DEF Asked
<1>8. Cut(b)
  <2>1. ASSUME NEW p \in CU
        PROVE  /\ Base(k, p) <= b.pos[p]
               /\ b.currWGs[p] # None => /\ b.currWGs[p] = <<k, b.pos[p] - 1>>
                                         /\ Base(k, p) < b.pos[p]
    <3>1. /\ Base(k, p) <= a.pos[p]
          /\ a.currWGs[p] # None => /\ a.currWGs[p] = <<k, a.pos[p] - 1>>
                                    /\ Base(k, p) < a.pos[p]
      BY DEF Cut
    <3>2. a.pos[p] + 1 - 1 = a.pos[p]
      BY <1>4
    <3> QED  BY <1>4, <1>5, <3>1, <3>2
  <2>2. ASSUME NEW p \in CU, algorithm = "partition"
        PROVE  /\ b.pos[p] = Base(k, p) + b.dispatchedWG[p]
                              + (IF b.currWGs[p] = None THEN 0 ELSE 1)
               /\ b.pos[p] <= (p + 1) * s
    <3>1. /\ a.pos[p] = Base(k, p) + a.dispatchedWG[p]
                           + (IF a.currWGs[p] = None THEN 0 ELSE 1)
          /\ a.pos[p] <= (p + 1) * s
      BY <2>2 DEF Cut, s
    <3>2. Base(k, p) = p * s
      BY <2>2 DEF Base, s
    <3> QED  BY <1>1, <1>2, <1>3, <1>4, <1>5, <1>6, <2>2, <3>1, <3>2
  <2> QED  BY <1>1, <2>1, <2>2 DEF Cut, s
<1>9. OneBuilder(b)
  BY <1>5, <1>7 DEF OneBuilder
<1>10. ASSUME NEW w \in WG, Gone(a, w)
       PROVE  Gone(b, w)
  <2>1. PICK p \in CU : /\ Base(k, p) <= w[2] /\ w[2] < a.pos[p]
                        /\ w # a.currWGs[p]
    BY <1>10 DEF Gone
  <2>2. w[2] \in Nat /\ <<k, a.pos[p]>>[2] = a.pos[p]
    BY <1>4, Groups, GridAssumption
  <2>3. w[2] < b.pos[p] /\ w # b.currWGs[p]
    BY <1>4, <1>5, <2>1, <2>2
  <2> QED  BY <1>1, <1>10, <2>1, <2>3 DEF Gone
<1> QED  BY <1>8, <1>9, <1>10 DEF b

\* A group at hand is one of the kernel that was not gone; when it is taken it
\* is gone, and the rest is as it was.
LEMMA TakenCut ==
  ASSUME NEW a \in AlgState, a.kernel \in Kernel, Cut(a), OneBuilder(a),
         NEW p \in CU, a.currWGs[p] # None, NEW next \in 0 .. NumCU
  PROVE  LET b == Took(a, p, next)
         IN  /\ b \in AlgState /\ b.kernel = a.kernel
             /\ b.numDispatchedWG = a.numDispatchedWG + 1
             /\ Cut(b) /\ OneBuilder(b)
             /\ a.currWGs[p] \in OfKernel(a.kernel) /\ ~ Gone(a, a.currWGs[p])
             /\ \A w \in WG : Gone(a, w) \/ w = a.currWGs[p] => Gone(b, w)
<1> DEFINE b == Took(a, p, next)
           k == a.kernel
           s == NumWGPerPartition(k)
           g == a.currWGs[p]
<1>1. /\ a.currWGs \in [CU -> WG \cup {None}] /\ a.pos \in [CU -> Nat]
      /\ a.dispatchedWG \in [CU -> Nat] /\ a.numDispatchedWG \in Nat
  BY DEF AlgState
<1>2. /\ b.kernel = k /\ b.pos = a.pos
      /\ b.currWGs = [a.currWGs EXCEPT ![p] = None]
      /\ b.dispatchedWG = [a.dispatchedWG EXCEPT ![p] = @ + 1]
      /\ b.numDispatchedWG = a.numDispatchedWG + 1
  BY DEF Taken, Took, AlgState
<1>3. b \in AlgState
  <2>1. SUFFICES ASSUME NEW y, y = b  PROVE y \in AlgState
    OBVIOUS
  <2>2. /\ y.kernel = k /\ y.pos = a.pos
        /\ y.currWGs = [a.currWGs EXCEPT ![p] = None]
        /\ y.dispatchedWG = [a.dispatchedWG EXCEPT ![p] = @ + 1]
        /\ y.numDispatchedWG = a.numDispatchedWG + 1
    BY <1>2, <2>1
  <2>3. y.dispatchedWG \in [CU -> Nat] /\ y.currWGs \in [CU -> WG \cup {None}]
    <3> HIDE DEF AlgState, b
    <3> QED  BY <1>1, <2>2
  <2>4. y = [kernel |-> k, numDispatchedWG |-> a.numDispatchedWG + 1, next |-> next,
             dispatchedWG |-> y.dispatchedWG, pos |-> a.pos, currWGs |-> y.currWGs]
    BY <2>1, <2>2 DEF Taken, Took, AlgState
  <2> HIDE DEF b
  <2> QED  BY <1>1, <2>3, <2>4 DEF AlgState
<1>4. g \in WG /\ g = <<k, a.pos[p] - 1>> /\ Base(k, p) < a.pos[p]
  BY <1>1 DEF Cut
<1>5. g \in OfKernel(k) /\ g[1] = k /\ g[2] = a.pos[p] - 1
  BY <1>4, Groups
<1>6. s \in Nat /\ k \in Kernel
  BY ShareType
<1>7. \A q \in CU : q \in Nat /\ Base(k, q) \in Nat
  <2>1. \A q \in CU : q \in Nat /\ q * s \in Nat
    BY <1>6 DEF CU
  <2> HIDE DEF s
  <2> QED  BY <2>1 DEF Base, s
<1> HIDE DEF s, g, b
<1>8. Cut(b)
  <2>1. ASSUME NEW q \in CU
        PROVE  /\ Base(k, q) <= b.pos[q]
               /\ b.currWGs[q] # None => /\ b.currWGs[q] = <<k, b.pos[q] - 1>>
                                         /\ Base(k, q) < b.pos[q]
    BY <1>1, <1>2 DEF Cut
  <2>2. ASSUME NEW q \in CU, algorithm = "partition"
        PROVE  /\ b.pos[q] = Base(k, q) + b.dispatchedWG[q]
                              + (IF b.currWGs[q] = None THEN 0 ELSE 1)
               /\ b.pos[q] <= (q + 1) * s
    <3>1. /\ a.pos[q] = Base(k, q) + a.dispatchedWG[q]
                           + (IF a.currWGs[q] = None THEN 0 ELSE 1)
          /\ a.pos[q] <= (q + 1) * s
      BY <2>2 DEF Cut, s
    <3>2. Base(k, q) \in Nat /\ a.dispatchedWG[q] \in Nat
      BY <1>1, <1>7
    <3>3. CASE q = p
      <4>1. b.currWGs[q] = None /\ b.dispatchedWG[q] = a.dispatchedWG[q] + 1
        BY <1>1, <1>2, <3>3
      <4> QED  BY <1>2, <3>1, <3>2, <3>3, <4>1
    <3>4. CASE q # p
      BY <1>1, <1>2, <3>1, <3>4
    <3> QED  BY <3>3, <3>4
  <2> QED  BY <1>2, <2>1, <2>2 DEF Cut, s
<1>9. OneBuilder(b)
  BY <1>1, <1>2 DEF OneBuilder
<1>10. ~ Gone(a, g)
  <2>1. SUFFICES ASSUME NEW q \in CU, Base(k, q) <= g[2], g[2] < a.pos[q],
                        g # a.currWGs[q]
                 PROVE  FALSE
    BY DEF Gone
  <2>2. q # p
    BY <2>1 DEF g
  <2>3. algorithm = "partition"
    <3>1. SUFFICES ASSUME algorithm # "partition"  PROVE FALSE
      OBVIOUS
    <3>2. p = 0 /\ q # 0
      BY <2>2, <3>1 DEF OneBuilder
    <3>3. a.pos[q] = 0
      BY <3>1, <3>2 DEF OneBuilder
    <3> QED  BY <1>7, <2>1, <3>3, <1>1, <1>5
  <2>4. /\ a.pos[q] <= (q + 1) * s /\ Base(k, q) = q * s
        /\ a.pos[p] <= (p + 1) * s /\ Base(k, p) = p * s
    BY <2>3 DEF Cut, Base, s
  <2>5. (p + 1) * s <= q * s \/ (q + 1) * s <= p * s
    BY <1>6, <2>2, SharesApart
  <2>6. /\ p * s \in Nat /\ q * s \in Nat
        /\ (p + 1) * s \in Nat /\ (q + 1) * s \in Nat
    BY <1>6, <1>7
  <2> QED  BY <1>1, <1>4, <1>5, <2>1, <2>4, <2>5, <2>6
<1>11. ASSUME NEW w \in WG, Gone(a, w) \/ w = g
       PROVE  Gone(b, w)
  <2>1. CASE w = g
    <3>1. b.currWGs[p] = None /\ w # None
      BY <1>1, <1>2, Groups
    <3>2. Base(k, p) <= w[2] /\ w[2] < b.pos[p]
      BY <1>1, <1>2, <1>4, <1>5, <1>7, <2>1
    <3> QED  BY <1>2, <1>5, <2>1, <3>1, <3>2 DEF Gone
  <2>2. CASE Gone(a, w)
    <3>1. PICK q \in CU : /\ Base(k, q) <= w[2] /\ w[2] < a.pos[q]
                          /\ w # a.currWGs[q]
      BY <2>2 DEF Gone
    <3>2. w # b.currWGs[q]
      BY <1>1, <1>2, <3>1, Groups
    <3> QED  BY <1>2, <2>2, <3>1, <3>2 DEF Gone
  <2> QED  BY <1>11, <2>1, <2>2
<1> QED  BY <1>2, <1>3, <1>5, <1>8, <1>9, <1>10, <1>11 DEF g, b

\* A new kernel starts each builder at the start of its share.
LEMMA StartCut ==
  ASSUME NEW a \in AlgState, NEW k \in Kernel, OneBuilder(a),
         \A p \in CU : a.currWGs[p] = None
  PROVE  LET b == StartNewKernel(a, k)
         IN  /\ b \in AlgState /\ b.kernel = k /\ b.numDispatchedWG = 0
             /\ Cut(b) /\ OneBuilder(b)
<1> DEFINE b == StartNewKernel(a, k)
           s == NumWGPerPartition(k)
<1>1. s \in Nat /\ 0 \in CU /\ NumCU \in Nat
  BY ShareType, GridAssumption DEF CU
<1>2. \A p \in CU : p \in Nat /\ p * s \in Nat /\ p * s <= (p + 1) * s
  <2>1. \A p \in Nat : p * s \in Nat /\ p * s <= (p + 1) * s
    BY <1>1
  <2> QED  BY <2>1 DEF CU
<1> HIDE DEF s
<1>3. CASE algorithm = "partition"
  <2>1. b = [kernel |-> k, numDispatchedWG |-> 0, next |-> 0,
             dispatchedWG |-> [c \in CU |-> 0], pos |-> [p \in CU |-> p * s],
             currWGs |-> [c \in CU |-> None]]
    BY <1>3 DEF StartNewKernel, NoAlg, s
  <2>2. b \in AlgState
    BY <1>1, <1>2, <2>1 DEF AlgState
  <2>3. Cut(b)
    BY <1>2, <1>3, <2>1 DEF Cut, Base, s
  <2> QED  BY <1>3, <2>1, <2>2, <2>3 DEF OneBuilder
<1>4. CASE algorithm # "partition"
  <2>1. /\ a.pos \in [CU -> Nat] /\ a.dispatchedWG \in [CU -> Nat]
        /\ a.currWGs \in [CU -> WG \cup {None}] /\ a.next \in 0 .. NumCU
    BY DEF AlgState
  <2>2. b = [kernel |-> k, numDispatchedWG |-> 0, next |-> a.next,
             dispatchedWG |-> [a.dispatchedWG EXCEPT ![0] = 0],
             pos |-> [a.pos EXCEPT ![0] = 0], currWGs |-> a.currWGs]
    BY <1>4 DEF StartNewKernel, AlgState
  <2>3. /\ [a.pos EXCEPT ![0] = 0] \in [CU -> Nat]
        /\ [a.dispatchedWG EXCEPT ![0] = 0] \in [CU -> Nat]
    BY <2>1
  <2>4. b \in AlgState
    BY <2>1, <2>2, <2>3 DEF AlgState
  <2>5. Cut(b)
    BY <1>4, <2>2, <2>3 DEF Cut, Base
  <2>6. OneBuilder(b)
    BY <2>1, <2>2 DEF OneBuilder
  <2> QED  BY <2>2, <2>4, <2>5, <2>6
<1> QED  BY <1>3, <1>4

-----------------------------------------------------------------------------
(* Initially.                                                              *)

\* Nothing is out, every dispatcher rests.
LEMMA InitIInv == Init => IInv
<1> SUFFICES ASSUME Init  PROVE IInv
  OBVIOUS
<1> USE DEF Init
<1>1. NoAlg \in AlgState
  BY GridAssumption DEF NoAlg, AlgState
<1>2. TypeInv
  BY <1>1 DEF TypeInv
<1>3. \A d \in DispatcherID : DispatcherInv(d)
  BY DEF DispatcherInv, Rest, OneBuilder, NoAlg
<1>4. FlightInv
  BY DEF FlightInv
<1>5. KernelInv
  BY NoneAssumption DEF KernelInv, Out
<1> QED  BY <1>2, <1>3, <1>4, <1>5 DEF IInv

-----------------------------------------------------------------------------
(* The steps.                                                              *)

\* A dispatcher no step touches keeps its invariant while the groups of its
\* kernel stay out or in.
LEMMA Untouched ==
  ASSUME NEW d \in DispatcherID, DispatcherInv(d), algorithm' = algorithm,
         alg'[d] = alg[d], dispatching'[d] = dispatching[d], currWG'[d] = currWG[d],
         inflightWGs'[d] = inflightWGs[d],
         numDispatchedWGs'[d] = numDispatchedWGs[d],
         numCompletedWGs'[d] = numCompletedWGs[d],
         dispatching[d] # None =>
           \A w \in OfKernel(dispatching[d]) : w \in Out' <=> w \in Out
  PROVE  DispatcherInv(d)'
<1>1. OneBuilder(alg[d])'
  BY DEF DispatcherInv, OneBuilder
<1>2. CASE dispatching[d] = None
  BY <1>1, <1>2 DEF DispatcherInv, Rest
<1>3. CASE dispatching[d] # None
  <2>1. Busy(d)
    BY <1>3 DEF DispatcherInv
  <2>2. Given(d)' = Given(d)
    BY <1>3 DEF Given
  <2>3. Cut(alg[d])'
    <3>1. Cut(alg[d])
      BY <2>1 DEF Busy
    <3> QED  BY <3>1 DEF Cut, Base
  <2>4. \A w \in Given(d)' : Gone(alg[d], w)'
    <3>1. \A w \in Given(d) : Gone(alg[d], w)
      BY <2>1 DEF Busy
    <3> QED  BY <2>2, <3>1 DEF Gone, Base
  <2>5. currWG[d]' # None => currWG[d][1]' \in OfKernel(dispatching[d])' \ Out'
    BY <1>3, <2>1 DEF Busy
  <2>6. \A l \in inflightWGs[d]' : l[1] \in OfKernel(dispatching[d])' \cap Out'
    BY <1>3, <2>1 DEF Busy
  <2>7. Busy(d)'
    <3>1. /\ alg[d].kernel = dispatching[d]
          /\ IsFiniteSet(Given(d)) /\ Cardinality(Given(d)) = alg[d].numDispatchedWG
          /\ IsFiniteSet(inflightWGs[d])
          /\ Cardinality(inflightWGs[d]) + numCompletedWGs[d] = numDispatchedWGs[d]
      BY <2>1 DEF Busy
    <3> HIDE DEF Given, Gone, Cut, Out, OfKernel
    <3> QED  BY <2>2, <2>3, <2>4, <2>5, <2>6, <3>1 DEF Busy
  <2> QED  BY <1>1, <1>3, <2>7 DEF DispatcherInv
<1> QED  BY <1>2, <1>3

\* A stuttering step.
LEMMA UnchangedIInv == IInv /\ UNCHANGED vars => IInv'
<1> SUFFICES ASSUME IInv, UNCHANGED vars  PROVE IInv'
  OBVIOUS
<1> USE DEF vars, dVars, driverVars, cuVars
<1>1. Out' = Out
  BY DEF Out
<1>2. TypeInv'
  BY DEF IInv, TypeInv
<1>3. \A d \in DispatcherID : DispatcherInv(d)'
  BY <1>1, Untouched DEF IInv
<1>4. FlightInv'
  BY DEF IInv, FlightInv
<1>5. KernelInv'
  BY <1>1 DEF IInv, KernelInv
<1> QED  BY <1>2, <1>3, <1>4, <1>5 DEF IInv

\* A launch goes from the driver to the port.
LEMMA LaunchIInv ==
  ASSUME NEW k \in Kernel
  PROVE  IInv /\ Launch(k) => IInv'
<1> SUFFICES ASSUME IInv, Launch(k)  PROVE IInv'
  OBVIOUS
<1> USE DEF dVars, cuVars, Launch
<1>1. Out' = Out
  BY DEF Out
<1>2. TypeInv'
  BY DEF IInv, TypeInv
<1>3. \A d \in DispatcherID : DispatcherInv(d)'
  BY <1>1, Untouched DEF IInv
<1>4. FlightInv'
  BY DEF IInv, FlightInv
<1>5. KernelInv'
  BY <1>1, NoneAssumption DEF IInv, KernelInv
<1> QED  BY <1>2, <1>3, <1>4, <1>5 DEF IInv

\* The driver takes a response.
LEMMA TakeRspIInv == IInv /\ TakeRsp => IInv'
<1> SUFFICES ASSUME IInv, TakeRsp  PROVE IInv'
  OBVIOUS
<1> USE DEF dVars, cuVars, TakeRsp
<1>1. Out' = Out
  BY DEF Out
<1>2. TypeInv'
  BY DEF IInv, TypeInv
<1>3. \A d \in DispatcherID : DispatcherInv(d)'
  BY <1>1, Untouched DEF IInv
<1>4. FlightInv'
  BY DEF IInv, FlightInv
<1>5. KernelInv'
  BY <1>1 DEF IInv, KernelInv
<1> QED  BY <1>2, <1>3, <1>4, <1>5 DEF IInv

\* A group that arrives was out already.
LEMMA HandleMapWGReqIInv ==
  ASSUME NEW c \in CU
  PROVE  IInv /\ HandleMapWGReq(c) => IInv'
<1> SUFFICES ASSUME IInv, HandleMapWGReq(c)  PROVE IInv'
  OBVIOUS
<1> USE DEF dVars, driverVars
<1>1. PICK l \in wire : /\ l[2] = c /\ wire' = wire \ {l}
                       /\ running' = [running EXCEPT ![c] = @ \cup {l[1]}]
                       /\ mapped' = mapped \cup {l[1]}
  BY DEF HandleMapWGReq
<1>2. UNCHANGED <<algorithm, alg, cuPool, dVars, driverVars, toCUs>>
  BY DEF HandleMapWGReq
<1>3. l \in WG \X CU /\ l[1] \in WG /\ l = <<l[1], c>>
  BY <1>1 DEF IInv, TypeInv, Location
<1>4. \A m \in wire : m[1] = l[1] => m = l
  BY DEF IInv, FlightInv
<1>5. Out' = Out
  BY <1>1, <1>4 DEF Out
<1>6. TypeInv'
  <2>1. running \in [CU -> SUBSET WG]
    BY DEF IInv, TypeInv
  <2>2. running' \in [CU -> SUBSET WG]
    BY <1>1, <1>3, <2>1
  <2> QED  BY <1>1, <1>2, <1>3, <2>2 DEF IInv, TypeInv
<1>7. \A d \in DispatcherID : DispatcherInv(d)'
  BY <1>2, <1>5, Untouched DEF IInv
<1>8. FlightInv'
  <2>1. FlightInv /\ running \in [CU -> SUBSET WG] /\ mapped \subseteq WG
    BY DEF IInv, TypeInv
  <2>2. l[1] \notin mapped /\ \E d \in DispatcherID : l \in inflightWGs[d]
    BY <2>1 DEF FlightInv
  <2>3. \A m \in wire' : /\ m[1] \notin mapped'
                         /\ \A o \in wire' : m[1] = o[1] => m = o
                         /\ \E d \in DispatcherID : m \in inflightWGs'[d]
    BY <1>1, <1>2, <1>4, <2>1 DEF FlightInv
  <2>4. ASSUME NEW e \in CU, NEW w \in running'[e]
        PROVE  /\ w \in mapped' /\ w # toCUs'
               /\ \A f \in CU : w \in running'[f] => f = e
               /\ \E d \in DispatcherID : <<w, e>> \in inflightWGs'[d]
    <3>1. \A f \in CU : running'[f] = IF f = c THEN running[f] \cup {l[1]} ELSE running[f]
      BY <1>1, <2>1
    <3>2. \A f \in CU : l[1] \notin running[f]
      BY <2>1, <2>2 DEF FlightInv
    <3>3. toCUs # l[1]
      BY <1>3, <2>1, <2>2, Groups DEF FlightInv
    <3>4. CASE w = l[1]
      BY <1>1, <1>2, <1>3, <2>2, <3>1, <3>2, <3>3, <3>4
    <3>5. CASE w # l[1]
      BY <1>1, <1>2, <2>1, <3>1, <3>5 DEF FlightInv
    <3> QED  BY <3>4, <3>5
  <2>5. toCUs' # None =>
          /\ toCUs' \in mapped'
          /\ \E d \in DispatcherID : \E m \in inflightWGs'[d] : m[1] = toCUs'
    BY <1>1, <1>2, <2>1 DEF FlightInv
  <2> QED  BY <2>3, <2>4, <2>5 DEF FlightInv
<1>9. KernelInv'
  BY <1>1, <1>2, <1>5 DEF IInv, KernelInv
<1> QED  BY <1>6, <1>7, <1>8, <1>9 DEF IInv

\* A completion leaves its compute unit; the dispatcher still remembers the group.
LEMMA SendWGCompletionMessageIInv ==
  ASSUME NEW c \in CU
  PROVE  IInv /\ SendWGCompletionMessage(c) => IInv'
<1> SUFFICES ASSUME IInv, SendWGCompletionMessage(c)  PROVE IInv'
  OBVIOUS
<1> USE DEF dVars, driverVars
<1>1. PICK w \in running[c] : /\ toCUs' = w
                             /\ running' = [running EXCEPT ![c] = @ \ {w}]
  BY DEF SendWGCompletionMessage
<1>2. /\ UNCHANGED <<algorithm, alg, cuPool, dVars, driverVars, wire, mapped>>
      /\ toCUs = None
  BY DEF SendWGCompletionMessage
<1>3. running \in [CU -> SUBSET WG] /\ w \in WG
  BY DEF IInv, TypeInv
<1>4. Out' = Out
  BY <1>2 DEF Out
<1>5. TypeInv'
  <2>1. running' \in [CU -> SUBSET WG]
    BY <1>1, <1>3
  <2> QED  BY <1>1, <1>2, <1>3, <2>1 DEF IInv, TypeInv
<1>6. \A d \in DispatcherID : DispatcherInv(d)'
  BY <1>2, <1>4, Untouched DEF IInv
<1>7. FlightInv'
  <2>1. FlightInv
    BY DEF IInv
  <2>2. \A e \in CU : running'[e] = IF e = c THEN running[e] \ {w} ELSE running[e]
    BY <1>1, <1>3
  <2>3. \A e \in CU : w \in running[e] => e = c
    BY <2>1 DEF FlightInv
  <2>4. \A e \in CU : running'[e] \subseteq running[e] /\ w \notin running'[e]
    BY <2>2, <2>3
  <2>5. /\ w \in mapped
        /\ \E d \in DispatcherID : \E l \in inflightWGs[d] : l[1] = w
    <3>1. w \in mapped /\ \E d \in DispatcherID : <<w, c>> \in inflightWGs[d]
      BY <2>1 DEF FlightInv
    <3>2. <<w, c>>[1] = w
      OBVIOUS
    <3> QED  BY <3>1, <3>2
  <2>6. \A e \in CU : \A x \in running'[e] :
          /\ x \in mapped' /\ x # toCUs'
          /\ \A f \in CU : x \in running'[f] => f = e
          /\ \E d \in DispatcherID : <<x, e>> \in inflightWGs'[d]
    BY <1>1, <1>2, <2>1, <2>4 DEF FlightInv
  <2>7. \A l \in wire' : /\ l[1] \notin mapped'
                         /\ \A m \in wire' : l[1] = m[1] => l = m
                         /\ \E d \in DispatcherID : l \in inflightWGs'[d]
    BY <1>2, <2>1 DEF FlightInv
  <2> QED  BY <1>1, <1>2, <2>5, <2>6, <2>7 DEF FlightInv
<1>8. KernelInv'
  BY <1>2, <1>4 DEF IInv, KernelInv
<1> QED  BY <1>5, <1>6, <1>7, <1>8 DEF IInv

\* A dispatcher starts with a kernel none of whose groups are out.
LEMMA StartDispatchingIInv ==
  ASSUME NEW d \in DispatcherID
  PROVE  IInv /\ StartDispatching(d) => IInv'
<1> SUFFICES ASSUME IInv, StartDispatching(d)  PROVE IInv'
  OBVIOUS
<1> DEFINE k == toDriver
           b == StartNewKernel(alg[d], k)
<1>1. /\ k \in Kernel /\ k # None /\ dispatching[d] = None
      /\ dispatching' = [dispatching EXCEPT ![d] = k]
      /\ alg' = [alg EXCEPT ![d] = b]
      /\ numDispatchedWGs' = [numDispatchedWGs EXCEPT ![d] = 0]
      /\ numCompletedWGs' = [numCompletedWGs EXCEPT ![d] = 0]
      /\ toDriver' = None
      /\ UNCHANGED <<algorithm, cuPool, currWG, inflightWGs, unlaunched, rsps,
                     toCUs, wire, running, mapped>>
  BY DEF StartDispatching, cuVars, IInv, TypeInv
<1>2. /\ alg \in [DispatcherID -> AlgState]
      /\ dispatching \in [DispatcherID -> Kernel \cup {None}]
      /\ numDispatchedWGs \in [DispatcherID -> Nat]
      /\ numCompletedWGs \in [DispatcherID -> Nat]
  BY DEF IInv, TypeInv
<1>3. OneBuilder(alg[d]) /\ Rest(d)
  BY <1>1 DEF IInv, DispatcherInv
<1>4. b \in AlgState /\ b.kernel = k /\ b.numDispatchedWG = 0 /\ Cut(b) /\ OneBuilder(b)
  BY <1>1, <1>2, <1>3, StartCut DEF Rest
<1> HIDE DEF b
<1>5. Out' = Out
  BY <1>1 DEF Out
<1>6. TypeInv'
  <2>1. /\ alg' \in [DispatcherID -> AlgState]
        /\ dispatching' \in [DispatcherID -> Kernel \cup {None}]
        /\ numDispatchedWGs' \in [DispatcherID -> Nat]
        /\ numCompletedWGs' \in [DispatcherID -> Nat]
    <3> HIDE DEF AlgState
    <3> QED  BY <1>1, <1>2, <1>4
  <2> QED  BY <1>1, <2>1 DEF IInv, TypeInv
<1>7. /\ alg'[d] = b /\ dispatching'[d] = k
      /\ numDispatchedWGs'[d] = 0 /\ numCompletedWGs'[d] = 0
      /\ currWG'[d] = None /\ inflightWGs'[d] = {}
  BY <1>1, <1>2, <1>3 DEF Rest
<1>8. DispatcherInv(d)'
  <2>1. OfKernel(k) \cap Out = {}
    BY <1>1 DEF IInv, KernelInv
  <2>2. Given(d)' = {}
    BY <1>5, <1>7, <2>1 DEF Given
  <2>3. Cut(alg[d])' /\ OneBuilder(alg[d])'
    BY <1>1, <1>4, <1>7 DEF Cut, OneBuilder, Base
  <2>4. IsFiniteSet({}) /\ Cardinality({}) = 0
    BY FS_EmptySet
  <2>5. Busy(d)'
    <3> HIDE DEF Given, Gone, Cut, Out, OfKernel, k
    <3> QED  BY <1>4, <1>7, <2>2, <2>3, <2>4 DEF Busy
  <2> QED  BY <1>1, <1>7, <2>3, <2>5 DEF DispatcherInv
<1>9. ASSUME NEW e \in DispatcherID, e # d
      PROVE  DispatcherInv(e)'
  <2>1. /\ alg'[e] = alg[e] /\ dispatching'[e] = dispatching[e]
        /\ numDispatchedWGs'[e] = numDispatchedWGs[e]
        /\ numCompletedWGs'[e] = numCompletedWGs[e]
    BY <1>1, <1>2, <1>9
  <2> QED  BY <1>1, <1>5, <2>1, Untouched DEF IInv
<1>10. FlightInv'
  BY <1>1 DEF IInv, FlightInv
<1>11. KernelInv'
  <2>1. \A e \in DispatcherID : dispatching'[e] = IF e = d THEN k ELSE dispatching[e]
    BY <1>1, <1>2
  <2>2. KernelInv
    BY DEF IInv
  <2>3. \A e \in DispatcherID : dispatching'[e] # None =>
          /\ dispatching'[e] \notin unlaunched'
          /\ dispatching'[e] # toDriver'
          /\ \A f \in DispatcherID : dispatching'[f] = dispatching'[e] => f = e
    BY <1>1, <2>1, <2>2 DEF KernelInv
  <2>4. \A j \in Kernel : j \in unlaunched' \/ toDriver' = j => OfKernel(j) \cap Out' = {}
    BY <1>1, <1>5, <2>2, InKernel DEF KernelInv
  <2>5. ASSUME NEW j \in Kernel, j \notin unlaunched', toDriver' # j,
               \A e \in DispatcherID : dispatching'[e] # j
        PROVE  OfKernel(j) \subseteq mapped'
    <3>1. j # k /\ j # None
      BY <2>1, <2>5, InKernel
    <3>2. \A e \in DispatcherID : dispatching[e] # j
      BY <1>1, <2>1, <2>5, <3>1
    <3> QED  BY <1>1, <2>2, <2>5, <3>1, <3>2 DEF KernelInv
  <2> QED  BY <1>1, <2>3, <2>4, <2>5 DEF KernelInv
<1> QED  BY <1>6, <1>8, <1>9, <1>10, <1>11 DEF IInv

\* Two sets of groups of a kernel, one in the other, with as many groups as the
\* kernel has.
LEMMA AllGroups ==
  ASSUME NEW k \in Kernel, NEW S \in SUBSET OfKernel(k), Cardinality(S) >= Grid[k]
  PROVE  S = OfKernel(k)
<1>1. Grid[k] \in Nat \ {0}
  BY GridAssumption
<1>2. /\ IsFiniteSet(0 .. Grid[k] - 1) /\ Cardinality(0 .. Grid[k] - 1) = Grid[k]
  <2>1. /\ 0 \in Int /\ Grid[k] - 1 \in Int /\ ~ (0 > Grid[k] - 1)
        /\ Grid[k] - 1 - 0 + 1 = Grid[k]
    BY <1>1
  <2> QED  BY <2>1, FS_Interval
<1>3. IsFiniteSet({k}) /\ Cardinality({k}) = 1
  BY FS_Singleton
<1>4. /\ IsFiniteSet(OfKernel(k)) /\ Cardinality(OfKernel(k)) = 1 * Grid[k]
  BY <1>2, <1>3, FS_Product DEF OfKernel
<1>5. /\ IsFiniteSet(S) /\ Cardinality(S) <= Cardinality(OfKernel(k))
      /\ Cardinality(OfKernel(k)) = Cardinality(S) => OfKernel(k) = S
  BY <1>4, FS_Subset
<1>6. Cardinality(S) \in Nat
  BY <1>5, FS_CardinalityType
<1> HIDE DEF OfKernel
<1> QED  BY <1>1, <1>4, <1>5, <1>6

\* A dispatcher that answers has given every group of its kernel away, and all
\* of them have completed: none is on its way or at hand.
LEMMA CompleteKernelIInv ==
  ASSUME NEW d \in DispatcherID
  PROVE  IInv /\ CompleteKernel(d) => IInv'
<1> SUFFICES ASSUME IInv, CompleteKernel(d)  PROVE IInv'
  OBVIOUS
<1> DEFINE k == dispatching[d]
           a == alg[d]
<1>1. /\ k # None /\ KernelCompleted(d)
      /\ dispatching' = [dispatching EXCEPT ![d] = None]
      /\ UNCHANGED <<algorithm, alg, cuPool, currWG, inflightWGs, numDispatchedWGs,
                     numCompletedWGs, unlaunched, toDriver, toCUs, wire, running, mapped>>
  BY DEF CompleteKernel, cuVars
<1>2. /\ dispatching \in [DispatcherID -> Kernel \cup {None}] /\ k \in Kernel
      /\ a \in AlgState
      /\ numDispatchedWGs[d] \in Nat /\ numCompletedWGs[d] \in Nat
  BY <1>1 DEF IInv, TypeInv
<1>3. Busy(d) /\ OneBuilder(a)
  BY <1>1 DEF IInv, DispatcherInv
<1>4. /\ currWG[d] = None /\ a.numDispatchedWG >= Grid[k]
      /\ numCompletedWGs[d] >= numDispatchedWGs[d]
  <2>1. a.numDispatchedWG \in Nat /\ Grid[k] \in Nat /\ a.kernel = k
    BY <1>2, <1>3, GridAssumption DEF AlgState, Busy
  <2> QED  BY <1>1, <2>1 DEF KernelCompleted, HasNext, NumWG
<1>5. Given(d) = OfKernel(k)
  <2>1. Given(d) \in SUBSET OfKernel(k)
    BY DEF Given
  <2>2. Cardinality(Given(d)) >= Grid[k]
    BY <1>3, <1>4 DEF Busy
  <2> HIDE DEF Given, OfKernel
  <2> QED  BY <1>2, <2>1, <2>2, AllGroups
<1>6. inflightWGs[d] = {}
  <2>1. /\ IsFiniteSet(inflightWGs[d])
        /\ Cardinality(inflightWGs[d]) + numCompletedWGs[d] = numDispatchedWGs[d]
    BY <1>3 DEF Busy
  <2>2. Cardinality(inflightWGs[d]) \in Nat
    BY <2>1, FS_CardinalityType
  <2>3. Cardinality(inflightWGs[d]) = 0
    BY <1>2, <1>4, <2>1, <2>2
  <2> QED  BY <2>1, <2>3, FS_EmptySet
<1>7. ASSUME NEW p \in CU
      PROVE  a.currWGs[p] = None
  <2>1. SUFFICES ASSUME a.currWGs[p] # None  PROVE FALSE
    OBVIOUS
  <2>2. a.kernel = k /\ Cut(a) /\ \A w \in Given(d) : Gone(a, w)
    BY <1>3 DEF Busy
  <2>3. 0 \in 0 .. NumCU
    BY GridAssumption
  <2>4. a.currWGs[p] \in OfKernel(a.kernel) /\ ~ Gone(a, a.currWGs[p])
    <3> HIDE DEF Cut, Gone, AlgState, a
    <3> QED  BY <1>2, <1>3, <2>1, <2>2, <2>3, TakenCut
  <2> QED  BY <1>5, <2>2, <2>4
<1>8. Out' = Out
  BY <1>1 DEF Out
<1>9. TypeInv'
  BY <1>1, <1>2 DEF IInv, TypeInv
<1>10. DispatcherInv(d)'
  <2>1. dispatching'[d] = None
    BY <1>1, <1>2
  <2>2. OneBuilder(alg[d])'
    BY <1>1, <1>3 DEF OneBuilder
  <2>3. Rest(d)'
    BY <1>1, <1>4, <1>6, <1>7 DEF Rest
  <2> QED  BY <2>1, <2>2, <2>3 DEF DispatcherInv
<1>11. ASSUME NEW e \in DispatcherID, e # d
       PROVE  DispatcherInv(e)'
  <2>1. dispatching'[e] = dispatching[e]
    BY <1>1, <1>2, <1>11
  <2> QED  BY <1>1, <1>8, <2>1, Untouched DEF IInv
<1>12. FlightInv'
  BY <1>1 DEF IInv, FlightInv
<1>13. KernelInv'
  <2>1. \A e \in DispatcherID : dispatching'[e] = IF e = d THEN None ELSE dispatching[e]
    BY <1>1, <1>2
  <2>2. KernelInv
    BY DEF IInv
  <2>3. OfKernel(k) \subseteq mapped
    <3>1. OfKernel(k) \subseteq Out
      BY <1>4, <1>5 DEF Given
    <3>2. \A l \in wire : l[1] \notin OfKernel(k)
      <4>1. SUFFICES ASSUME NEW l \in wire, l[1] \in OfKernel(k)  PROVE FALSE
        OBVIOUS
      <4>2. PICK e \in DispatcherID : l \in inflightWGs[e]
        BY DEF IInv, FlightInv
      <4>3. dispatching[e] # None /\ Busy(e)
        BY <4>2 DEF IInv, DispatcherInv, Rest
      <4>4. l[1] \in OfKernel(dispatching[e])
        BY <4>2, <4>3 DEF Busy
      <4>5. dispatching[e] \in Kernel /\ dispatching[e] = k
        BY <1>2, <4>1, <4>3, <4>4, InKernel
      <4>6. e = d
        BY <1>1, <2>2, <4>5 DEF KernelInv
      <4> QED  BY <1>6, <4>2, <4>6
    <3> QED  BY <3>1, <3>2 DEF Out
  <2>4. \A e \in DispatcherID : dispatching'[e] # None =>
          /\ dispatching'[e] \notin unlaunched'
          /\ dispatching'[e] # toDriver'
          /\ \A f \in DispatcherID : dispatching'[f] = dispatching'[e] => f = e
    BY <1>1, <2>1, <2>2 DEF KernelInv
  <2>5. ASSUME NEW j \in Kernel, j \notin unlaunched', toDriver' # j,
               \A e \in DispatcherID : dispatching'[e] # j
        PROVE  OfKernel(j) \subseteq mapped'
    <3>1. CASE j = k
      BY <1>1, <2>3, <3>1
    <3>2. CASE j # k
      BY <1>1, <2>1, <2>2, <2>5, <3>2 DEF KernelInv
    <3> QED  BY <3>1, <3>2
  <2> QED  BY <1>1, <1>8, <2>2, <2>4, <2>5 DEF KernelInv
<1> QED  BY <1>9, <1>10, <1>11, <1>12, <1>13 DEF IInv

\* A completion is counted by the dispatcher that remembers the group.
LEMMA ProcessMessagesFromCUIInv ==
  ASSUME NEW d \in DispatcherID
  PROVE  IInv /\ ProcessMessagesFromCU(d) => IInv'
<1> SUFFICES ASSUME IInv, ProcessMessagesFromCU(d)  PROVE IInv'
  OBVIOUS
<1>1. PICK l \in inflightWGs[d] :
        l[1] = toCUs /\ inflightWGs' = [inflightWGs EXCEPT ![d] = @ \ {l}]
  BY DEF ProcessMessagesFromCU
<1>2. /\ toCUs # None /\ toCUs' = None
      /\ numCompletedWGs' = [numCompletedWGs EXCEPT ![d] = @ + 1]
      /\ UNCHANGED <<algorithm, alg, dispatching, currWG, numDispatchedWGs,
                     unlaunched, toDriver, rsps, wire, running, mapped>>
  BY DEF ProcessMessagesFromCU, driverVars
<1>3. /\ inflightWGs \in [DispatcherID -> SUBSET Location]
      /\ numCompletedWGs \in [DispatcherID -> Nat] /\ numDispatchedWGs[d] \in Nat
  BY DEF IInv, TypeInv
<1>4. dispatching[d] # None /\ Busy(d) /\ OneBuilder(alg[d])
  BY <1>1 DEF IInv, DispatcherInv, Rest
<1>5. Out' = Out
  BY <1>2 DEF Out
<1>6. TypeInv'
  <2>1. /\ inflightWGs' \in [DispatcherID -> SUBSET Location]
        /\ numCompletedWGs' \in [DispatcherID -> Nat]
    BY <1>1, <1>2, <1>3
  <2> QED  BY <1>2, <2>1 DEF IInv, TypeInv
<1>7. DispatcherInv(d)'
  <2>1. inflightWGs'[d] = inflightWGs[d] \ {l} /\ numCompletedWGs'[d] = numCompletedWGs[d] + 1
    BY <1>1, <1>2, <1>3
  <2>2. /\ IsFiniteSet(inflightWGs[d])
        /\ Cardinality(inflightWGs[d]) + numCompletedWGs[d] = numDispatchedWGs[d]
    BY <1>4 DEF Busy
  <2>3. /\ IsFiniteSet(inflightWGs'[d])
        /\ Cardinality(inflightWGs'[d]) = Cardinality(inflightWGs[d]) - 1
    BY <1>1, <2>1, <2>2, FS_RemoveElement
  <2>4. Cardinality(inflightWGs[d]) \in Nat /\ numCompletedWGs[d] \in Nat
    BY <1>3, <2>2, FS_CardinalityType
  <2>5. Cardinality(inflightWGs'[d]) + numCompletedWGs'[d] = numDispatchedWGs'[d]
    BY <1>2, <1>3, <2>1, <2>2, <2>3, <2>4
  <2>6. Given(d)' = Given(d)
    BY <1>2, <1>5 DEF Given
  <2>7. Cut(alg[d])' /\ OneBuilder(alg[d])'
    <3>1. Cut(alg[d])
      BY <1>4 DEF Busy
    <3> QED  BY <1>2, <1>4, <3>1 DEF Cut, Base, OneBuilder
  <2>8. \A w \in Given(d)' : Gone(alg[d], w)'
    <3>1. \A w \in Given(d) : Gone(alg[d], w)
      BY <1>4 DEF Busy
    <3> QED  BY <1>2, <2>6, <3>1 DEF Gone, Base
  <2>9. Busy(d)'
    <3> HIDE DEF Given, Gone, Cut, Out, OfKernel
    <3> QED  BY <1>2, <1>4, <1>5, <2>1, <2>3, <2>5, <2>6, <2>7, <2>8 DEF Busy
  <2> QED  BY <1>2, <1>4, <2>7, <2>9 DEF DispatcherInv
<1>8. ASSUME NEW e \in DispatcherID, e # d
      PROVE  DispatcherInv(e)'
  <2>1. inflightWGs'[e] = inflightWGs[e] /\ numCompletedWGs'[e] = numCompletedWGs[e]
    BY <1>1, <1>2, <1>3, <1>8
  <2> QED  BY <1>2, <1>5, <2>1, Untouched DEF IInv
<1>9. FlightInv'
  <2>1. FlightInv
    BY DEF IInv
  <2>2. \A e \in DispatcherID : \A m \in inflightWGs[e] : m # l => m \in inflightWGs'[e]
    BY <1>1, <1>3
  <2>3. \A m \in wire : m # l
    BY <1>1, <1>2, <2>1 DEF FlightInv
  <2>4. ASSUME NEW c \in CU, NEW w \in running[c]
        PROVE  <<w, c>> # l
    <3>1. w # toCUs /\ <<w, c>>[1] = w
      BY <2>1 DEF FlightInv
    <3> QED  BY <1>1, <3>1
  <2>5. \A c \in CU : \A w \in running'[c] :
          /\ w \in mapped' /\ w # toCUs'
          /\ \A e \in CU : w \in running'[e] => e = c
          /\ \E e \in DispatcherID : <<w, c>> \in inflightWGs'[e]
    <3>1. \A c \in CU : \A w \in running[c] : w # None
      BY Groups DEF IInv, TypeInv
    <3> QED  BY <1>2, <2>1, <2>2, <2>4, <3>1 DEF FlightInv
  <2>6. \A m \in wire' : /\ m[1] \notin mapped'
                         /\ \A o \in wire' : m[1] = o[1] => m = o
                         /\ \E e \in DispatcherID : m \in inflightWGs'[e]
    BY <1>2, <2>1, <2>2, <2>3 DEF FlightInv
  <2> QED  BY <1>2, <2>5, <2>6 DEF FlightInv
<1>10. KernelInv'
  BY <1>2, <1>5 DEF IInv, KernelInv
<1> QED  BY <1>6, <1>7, <1>8, <1>9, <1>10 DEF IInv

\* What the algorithm of a dispatcher has given, when g is at hand.
GivenWith(d, g) ==
  {w \in OfKernel(dispatching[d]) : w \in Out \/ (g # None /\ g[1] = w)}

\* A dispatcher at work has a group at hand, which is not out, or finds one the
\* algorithm has not given before, or none.
LEMMA GroupAtHand ==
  ASSUME NEW d \in DispatcherID, IInv, DispatchNextWG(d)
  PROVE  \E b \in AlgState, g \in Location \cup {None} :
           /\ alg' = [alg EXCEPT ![d] = b]
           /\ SendOrKeep(d, g)
           /\ b.kernel = dispatching[d]
           /\ Cut(b) /\ OneBuilder(b)
           /\ g # None => g[1] \in OfKernel(dispatching[d]) \ Out
           /\ \A w \in GivenWith(d, g) : Gone(b, w)
           /\ IsFiniteSet(GivenWith(d, g))
           /\ Cardinality(GivenWith(d, g)) = b.numDispatchedWG
<1> DEFINE k == dispatching[d]
           a == alg[d]
<1>1. /\ k # None /\ k \in Kernel /\ a \in AlgState
      /\ alg \in [DispatcherID -> AlgState] /\ currWG[d] \in Location \cup {None}
  BY DEF IInv, TypeInv, DispatchNextWG
<1>2. Busy(d) /\ OneBuilder(a)
  BY <1>1 DEF IInv, DispatcherInv
<1>3. /\ a.kernel = k /\ Cut(a) /\ \A w \in Given(d) : Gone(a, w)
      /\ IsFiniteSet(Given(d)) /\ Cardinality(Given(d)) = a.numDispatchedWG
      /\ currWG[d] # None => currWG[d][1] \in OfKernel(k) \ Out
  BY <1>2 DEF Busy
<1>4. GivenWith(d, currWG[d]) = Given(d)
  BY DEF GivenWith, Given
<1>5. CASE currWG[d] # None
  <2>1. SendOrKeep(d, currWG[d]) /\ alg' = alg
    BY <1>5 DEF DispatchNextWG
  <2>2. alg' = [alg EXCEPT ![d] = a]
    <3> HIDE DEF AlgState
    <3> QED  BY <1>1, <2>1
  <2> HIDE DEF AlgState, SendOrKeep, GivenWith, Given, Gone, Cut, OneBuilder, OfKernel, Out, a
  <2> QED  BY <1>1, <1>2, <1>3, <1>4, <2>1, <2>2
<1>6. CASE currWG[d] = None
  <2> DEFINE r == Search(a, cuPool, Attempts(a, cuPool))
  <2>1. alg' = [alg EXCEPT ![d] = r.alg] /\ SendOrKeep(d, r.found)
    BY <1>6 DEF DispatchNextWG
  <2>2. PICK n \in 0 .. NumCU - 1 :
          \/ r.found = None /\ r.alg = Fetched(a, n)
          \/ \E p \in CU, c \in CU, next \in 0 .. NumCU :
               /\ AtHand(a, n, p) # None
               /\ r.found = <<AtHand(a, n, p), c>>
               /\ r.alg = Took(Fetched(a, n), p, next)
    BY <1>1, SearchResult
  <2> HIDE DEF r
  <2> DEFINE f == Fetched(a, n)
  <2>3. /\ f \in AlgState /\ f.kernel = k /\ f.numDispatchedWG = a.numDispatchedWG
        /\ \A p \in CU : f.currWGs[p] = AtHand(a, n, p)
    BY <1>1, <1>3, FetchedType
  <2>4. Cut(f) /\ OneBuilder(f) /\ \A w \in WG : Gone(a, w) => Gone(f, w)
    BY <1>1, <1>2, <1>3, FetchedCut
  <2>5. OfKernel(k) \subseteq WG /\ Given(d) \subseteq OfKernel(k)
    BY <1>1, InKernel DEF Given
  <2>6. \A w \in Given(d) : Gone(f, w)
    BY <1>3, <2>4, <2>5
  <2> HIDE DEF f
  <2>7. CASE r.found = None /\ r.alg = f
    <3>1. GivenWith(d, None) = Given(d)
      BY <1>4, <1>6
    <3> HIDE DEF AlgState, SendOrKeep, GivenWith, Given, Gone, Cut, OneBuilder, OfKernel, Out
    <3> QED  BY <1>3, <2>1, <2>3, <2>4, <2>6, <2>7, <3>1
  <2>8. CASE \E p \in CU, c \in CU, next \in 0 .. NumCU :
               /\ AtHand(a, n, p) # None
               /\ r.found = <<AtHand(a, n, p), c>>
               /\ r.alg = Took(f, p, next)
    <3>1. PICK p \in CU, c \in CU, next \in 0 .. NumCU :
               /\ AtHand(a, n, p) # None
               /\ r.found = <<AtHand(a, n, p), c>>
               /\ r.alg = Took(f, p, next)
      BY <2>8
    <3> DEFINE w == f.currWGs[p]
               b == r.alg
               g == <<w, c>>
    <3>2. w # None /\ r.found = g
      BY <2>3, <3>1
    <3>3. /\ b \in AlgState /\ b.kernel = k
          /\ b.numDispatchedWG = f.numDispatchedWG + 1
          /\ Cut(b) /\ OneBuilder(b)
          /\ w \in OfKernel(k) /\ ~ Gone(f, w)
          /\ \A x \in WG : Gone(f, x) \/ x = w => Gone(b, x)
      <4>1. /\ f.kernel \in Kernel /\ f.currWGs[p] # None
            /\ b = Took(f, p, next)
        BY <1>1, <2>3, <3>1, <3>2
      <4>2. /\ b \in AlgState /\ b.kernel = f.kernel
            /\ b.numDispatchedWG = f.numDispatchedWG + 1
            /\ Cut(b) /\ OneBuilder(b)
            /\ f.currWGs[p] \in OfKernel(f.kernel) /\ ~ Gone(f, f.currWGs[p])
            /\ \A x \in WG : Gone(f, x) \/ x = f.currWGs[p] => Gone(b, x)
        <5> HIDE DEF AlgState, Cut, OneBuilder, Gone, OfKernel, b
        <5> QED  BY <2>3, <2>4, <4>1, TakenCut
      <4> QED  BY <2>3, <4>2
    <3> HIDE DEF b, w
    <3>4. w \in WG /\ w \notin Given(d) /\ g \in Location
      BY <2>5, <2>6, <3>3 DEF Location
    <3>5. g # None /\ g[1] = w
      BY <3>4, NoneAssumption
    <3>6. w \notin Out
      BY <3>3, <3>4 DEF Given
    <3>7. GivenWith(d, g) = Given(d) \cup {w}
      BY <1>6, <3>3, <3>5 DEF GivenWith, Given
    <3>8. /\ IsFiniteSet(GivenWith(d, g))
          /\ Cardinality(GivenWith(d, g)) = b.numDispatchedWG
      BY <1>3, <2>3, <3>3, <3>4, <3>7, FS_AddElement
    <3>9. \A x \in GivenWith(d, g) : Gone(b, x)
      BY <2>5, <2>6, <3>3, <3>4, <3>7
    <3> HIDE DEF g, AlgState, SendOrKeep, GivenWith, Given, Gone, Cut, OneBuilder, OfKernel, Out
    <3> QED  BY <2>1, <3>2, <3>3, <3>4, <3>5, <3>6, <3>8, <3>9 DEF b
  <2> QED  BY <2>2, <2>7, <2>8 DEF f
<1> QED  BY <1>5, <1>6

\* A group that is sent was not out and is remembered by one dispatcher only.
LEMMA DispatchNextWGIInv ==
  ASSUME NEW d \in DispatcherID
  PROVE  IInv /\ DispatchNextWG(d) => IInv'
<1> SUFFICES ASSUME IInv, DispatchNextWG(d)  PROVE IInv'
  OBVIOUS
<1> DEFINE k == dispatching[d]
<1>1. PICK b \in AlgState, g \in Location \cup {None} :
        /\ alg' = [alg EXCEPT ![d] = b]
        /\ SendOrKeep(d, g)
        /\ b.kernel = dispatching[d]
        /\ Cut(b) /\ OneBuilder(b)
        /\ g # None => g[1] \in OfKernel(dispatching[d]) \ Out
        /\ \A w \in GivenWith(d, g) : Gone(b, w)
        /\ IsFiniteSet(GivenWith(d, g))
        /\ Cardinality(GivenWith(d, g)) = b.numDispatchedWG
  BY GroupAtHand
<1>2. /\ k # None
      /\ UNCHANGED <<algorithm, dispatching, numCompletedWGs, unlaunched, toDriver,
                     rsps, toCUs, running, mapped>>
  BY DEF DispatchNextWG, driverVars
<1>3. /\ alg \in [DispatcherID -> AlgState]
      /\ currWG \in [DispatcherID -> Location \cup {None}]
      /\ inflightWGs \in [DispatcherID -> SUBSET Location]
      /\ numDispatchedWGs \in [DispatcherID -> Nat]
      /\ numCompletedWGs \in [DispatcherID -> Nat]
      /\ wire \subseteq Location /\ k \in Kernel
  BY <1>2 DEF IInv, TypeInv
<1>4. Busy(d)
  BY <1>2 DEF IInv, DispatcherInv
<1>5. \/ /\ g # None
         /\ wire' = wire \cup {g}
         /\ currWG' = [currWG EXCEPT ![d] = None]
         /\ numDispatchedWGs' = [numDispatchedWGs EXCEPT ![d] = @ + 1]
         /\ inflightWGs' = [inflightWGs EXCEPT ![d] = @ \cup {g}]
      \/ /\ currWG' = [currWG EXCEPT ![d] = g]
         /\ UNCHANGED <<wire, numDispatchedWGs, inflightWGs>>
  BY <1>1 DEF SendOrKeep, Remember
<1>6. TypeInv'
  <2>1. alg' \in [DispatcherID -> AlgState]
    <3> HIDE DEF AlgState
    <3> QED  BY <1>1, <1>3
  <2>2. /\ currWG' \in [DispatcherID -> Location \cup {None}]
        /\ inflightWGs' \in [DispatcherID -> SUBSET Location]
        /\ numDispatchedWGs' \in [DispatcherID -> Nat]
        /\ wire' \subseteq Location
    BY <1>3, <1>5
  <2> QED  BY <1>2, <2>1, <2>2 DEF IInv, TypeInv
\* what is out now: the group, if it was sent
<1>7. \/ /\ g # None /\ Out' = Out \cup {g[1]}
         /\ wire' = wire \cup {g} /\ currWG'[d] = None
         /\ numDispatchedWGs'[d] = numDispatchedWGs[d] + 1
         /\ inflightWGs'[d] = inflightWGs[d] \cup {g}
      \/ /\ Out' = Out /\ wire' = wire /\ currWG'[d] = g
         /\ numDispatchedWGs'[d] = numDispatchedWGs[d]
         /\ inflightWGs'[d] = inflightWGs[d]
  <2>1. wire' = wire \cup {g} => Out' = Out \cup {g[1]}
    BY <1>2 DEF Out
  <2>2. wire' = wire => Out' = Out
    BY <1>2 DEF Out
  <2> QED  BY <1>3, <1>5, <2>1, <2>2
<1>8. \A e \in DispatcherID : e # d =>
        /\ alg'[e] = alg[e] /\ currWG'[e] = currWG[e]
        /\ inflightWGs'[e] = inflightWGs[e] /\ numDispatchedWGs'[e] = numDispatchedWGs[e]
  BY <1>1, <1>3, <1>5
<1>9. DispatcherInv(d)'
  <2>1. alg'[d] = b
    BY <1>1, <1>3
  <2>2. Given(d)' = GivenWith(d, g)
    BY <1>2, <1>7 DEF Given, GivenWith
  <2>3. Cut(alg[d])' /\ OneBuilder(alg[d])'
    BY <1>1, <1>2, <2>1 DEF Cut, Base, OneBuilder
  <2>4. \A w \in Given(d)' : Gone(alg[d], w)'
    BY <1>1, <1>2, <2>1, <2>2 DEF Gone, Base
  <2>5. currWG'[d] # None => currWG'[d][1] \in OfKernel(k) \ Out'
    BY <1>1, <1>7
  <2>6. \A l \in inflightWGs'[d] : l[1] \in OfKernel(k) \cap Out'
    BY <1>1, <1>4, <1>7 DEF Busy
  <2>7. /\ IsFiniteSet(inflightWGs'[d])
        /\ Cardinality(inflightWGs'[d]) + numCompletedWGs'[d] = numDispatchedWGs'[d]
    <3>1. /\ IsFiniteSet(inflightWGs[d]) /\ Cardinality(inflightWGs[d]) \in Nat
          /\ Cardinality(inflightWGs[d]) + numCompletedWGs[d] = numDispatchedWGs[d]
      BY <1>4, FS_CardinalityType DEF Busy
    <3>2. g # None => g \notin inflightWGs[d]
      BY <1>1, <1>4 DEF Busy
    <3>3. numCompletedWGs[d] \in Nat /\ numDispatchedWGs[d] \in Nat
      BY <1>3
    <3>4. CASE g # None /\ inflightWGs'[d] = inflightWGs[d] \cup {g}
                /\ numDispatchedWGs'[d] = numDispatchedWGs[d] + 1
      BY <1>2, <3>1, <3>2, <3>3, <3>4, FS_AddElement
    <3>5. CASE inflightWGs'[d] = inflightWGs[d] /\ numDispatchedWGs'[d] = numDispatchedWGs[d]
      BY <1>2, <3>1, <3>5
    <3> QED  BY <1>7, <3>4, <3>5
  <2>8. Busy(d)'
    <3>1. alg'[d].kernel = dispatching'[d] /\ dispatching'[d] = k
      BY <1>1, <1>2, <2>1
    <3>2. IsFiniteSet(Given(d)') /\ Cardinality(Given(d)') = alg'[d].numDispatchedWG
      BY <1>1, <2>1, <2>2
    <3> HIDE DEF Given, Gone, Cut, Out, OfKernel, k
    <3> QED  BY <2>3, <2>4, <2>5, <2>6, <2>7, <3>1, <3>2 DEF Busy
  <2> QED  BY <1>2, <2>3, <2>8 DEF DispatcherInv
<1>10. ASSUME NEW e \in DispatcherID, e # d
       PROVE  DispatcherInv(e)'
  <2>1. ASSUME dispatching[e] # None
        PROVE  \A w \in OfKernel(dispatching[e]) : w \in Out' <=> w \in Out
    <3>1. dispatching[e] # k /\ dispatching[e] \in Kernel
      BY <1>2, <1>10, <2>1 DEF IInv, KernelInv, TypeInv
    <3>2. \A w \in OfKernel(dispatching[e]) : w[1] # k
      BY <3>1, InKernel
    <3>3. g # None => g[1][1] = k
      BY <1>1, <1>3, InKernel
    <3> QED  BY <1>7, <3>2, <3>3
  <2>2. DispatcherInv(e)
    BY DEF IInv
  <2> HIDE DEF OfKernel, Out
  <2> QED  BY <1>2, <1>8, <1>10, <2>1, <2>2, Untouched
<1>11. FlightInv'
  <2>1. FlightInv
    BY DEF IInv
  <2>2. \A e \in DispatcherID : inflightWGs[e] \subseteq inflightWGs'[e]
    BY <1>7, <1>8
  <2>3. g # None => /\ g[1] \notin mapped /\ \A l \in wire : l[1] # g[1]
    BY <1>1 DEF Out
  <2>4. \A l \in wire' : /\ l[1] \notin mapped'
                         /\ \A m \in wire' : l[1] = m[1] => l = m
                         /\ \E e \in DispatcherID : l \in inflightWGs'[e]
    BY <1>2, <1>7, <2>1, <2>2, <2>3 DEF FlightInv
  <2>5. \A c \in CU : \A w \in running'[c] :
          /\ w \in mapped' /\ w # toCUs'
          /\ \A e \in CU : w \in running'[e] => e = c
          /\ \E e \in DispatcherID : <<w, c>> \in inflightWGs'[e]
    BY <1>2, <2>1, <2>2 DEF FlightInv
  <2>6. toCUs' # None =>
          /\ toCUs' \in mapped'
          /\ \E e \in DispatcherID : \E l \in inflightWGs'[e] : l[1] = toCUs'
    BY <1>2, <2>1, <2>2 DEF FlightInv
  <2> QED  BY <2>4, <2>5, <2>6 DEF FlightInv
<1>12. KernelInv'
  <2>1. KernelInv
    BY DEF IInv
  <2>2. \A j \in Kernel : j \in unlaunched \/ toDriver = j => OfKernel(j) \cap Out' = {}
    <3>1. SUFFICES ASSUME NEW j \in Kernel, j \in unlaunched \/ toDriver = j
                   PROVE  OfKernel(j) \cap Out' = {}
      OBVIOUS
    <3>2. OfKernel(j) \cap Out = {} /\ j # k
      BY <1>2, <2>1, <3>1 DEF KernelInv
    <3>3. g # None => g[1] \notin OfKernel(j)
      BY <1>1, <1>3, <3>2, InKernel
    <3> QED  BY <1>7, <3>2, <3>3
  <2> HIDE DEF OfKernel, Out
  <2> QED  BY <1>2, <2>1, <2>2 DEF KernelInv
<1> QED  BY <1>6, <1>9, <1>10, <1>11, <1>12 DEF IInv

-----------------------------------------------------------------------------
(* The results.                                                            *)

\* The invariant holds in every reachable state.
THEOREM Invariance == Spec => []IInv
<1>1. IInv /\ [Next]_vars => IInv'
  <2>1. SUFFICES ASSUME IInv, [Next]_vars  PROVE IInv'
    OBVIOUS
  <2>2. ASSUME NEW d \in DispatcherID,
               \/ StartDispatching(d) \/ CompleteKernel(d)
               \/ DispatchNextWG(d) \/ ProcessMessagesFromCU(d)
        PROVE  IInv'
    BY <2>1, <2>2, StartDispatchingIInv, CompleteKernelIInv, DispatchNextWGIInv,
       ProcessMessagesFromCUIInv
  <2>3. ASSUME NEW k \in Kernel, Launch(k)
        PROVE  IInv'
    BY <2>1, <2>3, LaunchIInv
  <2>4. CASE TakeRsp
    BY <2>1, <2>4, TakeRspIInv
  <2>5. ASSUME NEW c \in CU, HandleMapWGReq(c) \/ SendWGCompletionMessage(c)
        PROVE  IInv'
    BY <2>1, <2>5, HandleMapWGReqIInv, SendWGCompletionMessageIInv
  <2>6. CASE UNCHANGED vars
    BY <2>1, <2>6, UnchangedIInv
  <2> QED  BY <2>1, <2>2, <2>3, <2>4, <2>5, <2>6 DEF Next
<1> QED  BY <1>1, InitIInv, PTL DEF Spec

\* A launch is answered only after every group of its kernel started and
\* completed, whatever the algorithm, the shares, the dispatchers that compete
\* and the order in which compute units finish.
THEOREM AnswersComeLast == Spec => []AnsweredWhenDone
<1>1. IInv => AnsweredWhenDone
  <2>1. SUFFICES ASSUME IInv, NEW k \in Kernel, k \notin unlaunched, toDriver # k,
                        \A d \in DispatcherID : dispatching[d] # k
                 PROVE  /\ {w \in WG : w[1] = k} \subseteq mapped
                        /\ \A w \in WG : w[1] = k =>
                             /\ toCUs # w
                             /\ \A c \in CU : w \notin running[c] /\ <<w, c>> \notin wire
    BY DEF AnsweredWhenDone
  <2>2. {w \in WG : w[1] = k} \subseteq mapped
    <3>1. OfKernel(k) \subseteq mapped
      BY <2>1 DEF IInv, KernelInv
    <3>2. \A w \in WG : w \in OfKernel(w[1])
      BY Groups
    <3> QED  BY <3>1, <3>2
  <2>3. ASSUME NEW d \in DispatcherID, NEW l \in inflightWGs[d]
        PROVE  l[1][1] # k
    <3>1. dispatching[d] # None /\ Busy(d) /\ dispatching[d] \in Kernel
      BY <2>1, <2>3 DEF IInv, DispatcherInv, Rest, TypeInv
    <3>2. l[1] \in OfKernel(dispatching[d])
      BY <2>3, <3>1 DEF Busy
    <3> QED  BY <2>1, <3>1, <3>2, InKernel
  <2>4. ASSUME NEW w \in WG, w[1] = k
        PROVE  /\ toCUs # w
               /\ \A c \in CU : w \notin running[c] /\ <<w, c>> \notin wire
    <3>1. FlightInv /\ w # None /\ \A c \in CU : <<w, c>>[1] = w
      BY <2>1, Groups DEF IInv
    <3> QED  BY <2>3, <2>4, <3>1 DEF FlightInv
  <2> QED  BY <2>2, <2>4
<1> QED  BY <1>1, Invariance, PTL

\* No work-group is started twice, on one compute unit or on two: a group on
\* its way to a compute unit was never on one.
THEOREM GroupsStartOnce == Spec => StartsOnce
<1>1. IInv /\ [Next]_vars => [\A c \in CU : (running'[c] \ running[c]) \cap mapped = {}]_vars
  <2>1. SUFFICES ASSUME IInv, Next
                 PROVE  \A c \in CU : (running'[c] \ running[c]) \cap mapped = {}
    OBVIOUS
  <2>2. running \in [CU -> SUBSET WG]
    BY <2>1 DEF IInv, TypeInv
  <2>3. ASSUME NEW c \in CU, HandleMapWGReq(c)
        PROVE  \A e \in CU : (running'[e] \ running[e]) \cap mapped = {}
    <3>1. PICK l \in wire : running' = [running EXCEPT ![c] = @ \cup {l[1]}]
      BY <2>3 DEF HandleMapWGReq
    <3>2. l[1] \notin mapped
      BY <2>1 DEF IInv, FlightInv
    <3> QED  BY <2>2, <3>1, <3>2
  <2>4. ASSUME NEW c \in CU, SendWGCompletionMessage(c)
        PROVE  \A e \in CU : (running'[e] \ running[e]) \cap mapped = {}
    BY <2>2, <2>4 DEF SendWGCompletionMessage
  <2>5. ASSUME running' = running
        PROVE  \A e \in CU : (running'[e] \ running[e]) \cap mapped = {}
    BY <2>5
  <2> QED  BY <2>1, <2>3, <2>4, <2>5
           DEF Next, StartDispatching, CompleteKernel, DispatchNextWG,
               ProcessMessagesFromCU, Launch, TakeRsp, cuVars
<1> QED  BY <1>1, Invariance, PTL DEF Spec, StartsOnce

-----------------------------------------------------------------------------
(* The resources of a compute unit.                                        *)

\* A set that has 0 and with every number the next one has them all.
LEMMA Induction ==
  ASSUME NEW T, 0 \in T, \A n \in Nat : n \in T => n + 1 \in T
  PROVE  Nat \subseteq T
<1> SUFFICES ASSUME Nat \ T # {} PROVE FALSE
  OBVIOUS
<1>1. PICK n \in Nat \ T : \A m \in Nat \ T : n <= m
  BY SmallestNat
<1>2. n # 0 /\ n - 1 \in Nat /\ (n - 1) + 1 = n /\ ~ (n <= n - 1)
  BY <1>1
<1> QED BY <1>1, <1>2

\* A gap is free.
LEMMA GapIsFree ==
  ASSUME NEW mask, NEW size \in Nat, NEW length \in Nat, NEW o \in NextRegion(mask, size, length)
  PROVE  o \in Nat /\ \A u \in Region(o, length) : u \notin mask /\ u \in Nat
<1>1. CASE length = 0
  BY <1>1 DEF NextRegion, Region
<1>2. CASE length # 0
  BY <1>2 DEF NextRegion, IsFree, Region
<1> QED BY <1>1, <1>2

\* What SGPRs has taken for the first n waves.
Cuts(st, mask, length, n) ==
  /\ st.at \in Seq(Nat) /\ Len(st.at) = n
  /\ \A u : u \in st.mask <=> u \in mask \/ \E i \in 1 .. n : u \in Region(st.at[i], length)
  /\ \A i \in 1 .. n : Region(st.at[i], length) \cap mask = {}
  /\ \A i, j \in 1 .. n : i # j => Region(st.at[i], length) \cap Region(st.at[j], length) = {}

LEMMA CutsMore ==
  ASSUME NEW st, NEW mask, NEW length \in Nat, NEW n \in Nat, Cuts(st, mask, length, n),
         NEW size \in Nat, NEW o \in NextRegion(st.mask, size, length), NEW t,
         t.mask = st.mask \cup Region(o, length), t.at = Append(st.at, o)
  PROVE  Cuts(t, mask, length, n + 1)
<1> DEFINE s == st.at
           a == Append(s, o)
           R(x) == Region(x, length)
<1>1. o \in Nat /\ \A u \in R(o) : u \notin st.mask
  BY GapIsFree
<1>2. /\ a \in Seq(Nat) /\ Len(a) = n + 1 /\ a[n + 1] = o /\ \A i \in 1 .. n : a[i] = s[i]
  <2>1. s \in Seq(Nat) /\ Len(s) = n
    BY DEF Cuts
  <2> QED BY <1>1, <2>1
<1> HIDE DEF a
<1>3. /\ \A u : u \in st.mask <=> u \in mask \/ \E i \in 1 .. n : u \in R(s[i])
      /\ \A i \in 1 .. n : R(s[i]) \cap mask = {}
      /\ \A i, j \in 1 .. n : i # j => R(s[i]) \cap R(s[j]) = {}
  BY DEF Cuts
<1>4. \A i \in 1 .. n + 1 : i = n + 1 \/ i \in 1 .. n
  OBVIOUS
<1> HIDE DEF R, s
<1>5. \A u : u \in t.mask <=> u \in mask \/ \E i \in 1 .. n + 1 : u \in R(a[i])
  <2>1. \A u : u \in t.mask <=> u \in st.mask \/ u \in R(o)
    BY DEF R
  <2>2. \A u : (\E i \in 1 .. n + 1 : u \in R(a[i])) <=> (\E i \in 1 .. n : u \in R(s[i])) \/ u \in R(o)
    <3>1. 1 .. n \subseteq 1 .. n + 1 /\ n + 1 \in 1 .. n + 1
      OBVIOUS
    <3> QED BY <1>2, <1>4, <3>1
  <2> QED BY <2>1, <2>2, <1>3
<1>6. \A i \in 1 .. n + 1 : R(a[i]) \cap mask = {}
  BY <1>1, <1>2, <1>3, <1>4
<1>7. \A i, j \in 1 .. n + 1 : i # j => R(a[i]) \cap R(a[j]) = {}
  BY <1>1, <1>2, <1>3, <1>4
<1> QED BY <1>2, <1>5, <1>6, <1>7 DEF Cuts, R, a, s

AddCuts(S, shape) ==
  UNION {{[mask |-> st.mask \cup Region(o, shape.sregs), at |-> Append(st.at, o)] :
            o \in NextRegion(st.mask, SRegUnits, shape.sregs)} : st \in S}

IsTake(f, cu, shape, n) ==
  f = [i \in 0 .. n |-> IF i = 0 THEN {[mask |-> cu.sregMask, at |-> <<>>]}
                        ELSE AddCuts(f[i - 1], shape)]

\* The recursive function of SGPRs exists.
LEMMA TakeExists ==
  ASSUME NEW cu, NEW shape, NEW n \in Nat
  PROVE  \E f : IsTake(f, cu, shape, n)
<1> DEFINE T == {m \in Nat : \E f : IsTake(f, cu, shape, m)}
<1>1. 0 \in T
  <2> DEFINE f == [i \in 0 .. 0 |-> {[mask |-> cu.sregMask, at |-> <<>>]}]
  <2>1. IsTake(f, cu, shape, 0)
    BY DEF IsTake
  <2> QED BY <2>1
<1>2. ASSUME NEW m \in Nat, m \in T PROVE m + 1 \in T
  <2>1. PICK f : IsTake(f, cu, shape, m)
    BY <1>2
  <2> DEFINE g == [i \in 0 .. (m + 1) |-> IF i <= m THEN f[i] ELSE AddCuts(f[i - 1], shape)]
  <2>2. ASSUME NEW i \in 0 .. (m + 1)
        PROVE  g[i] = IF i = 0 THEN {[mask |-> cu.sregMask, at |-> <<>>]} ELSE AddCuts(g[i - 1], shape)
    <3>1. CASE i = 0
      BY <2>1, <3>1 DEF IsTake
    <3>2. CASE i # 0 /\ i <= m
      <4>1. g[i] = f[i] /\ g[i - 1] = f[i - 1] /\ i \in 0 .. m
        BY <3>2
      <4>2. f[i] = AddCuts(f[i - 1], shape)
        BY <4>1, <3>2, <2>1 DEF IsTake
      <4> HIDE DEF g
      <4> QED BY <4>1, <4>2, <3>2
    <3>3. CASE i = m + 1
      BY <3>3
    <3> QED BY <3>1, <3>2, <3>3
  <2>3. IsTake(g, cu, shape, m + 1)
    BY <2>2 DEF IsTake
  <2> HIDE DEF g
  <2> QED BY <2>3
<1> HIDE DEF T
<1>3. Nat \subseteq T
  BY <1>1, <1>2, Induction
<1> QED BY <1>3 DEF T

LEMMA SGPRsIsTake ==
  ASSUME NEW cu, NEW shape, shape.waves \in Nat
  PROVE  \E f : IsTake(f, cu, shape, shape.waves) /\ SGPRs(cu, shape) = f[shape.waves]
<1> DEFINE f == CHOOSE take : take =
                  [i \in 0 .. shape.waves |->
                     IF i = 0 THEN {[mask |-> cu.sregMask, at |-> <<>>]}
                     ELSE UNION {{[mask |-> st.mask \cup Region(o, shape.sregs),
                                   at   |-> Append(st.at, o)] :
                                    o \in NextRegion(st.mask, SRegUnits, shape.sregs)} :
                                 st \in take[i - 1]}]
<1>1. IsTake(f, cu, shape, shape.waves)
  <2>1. \E take : IsTake(take, cu, shape, shape.waves)
    BY TakeExists
  <2> QED BY <2>1, Zenon DEF IsTake, AddCuts
<1>2. SGPRs(cu, shape) = f[shape.waves]
  BY Zenon DEF SGPRs
<1> HIDE DEF f
<1> QED BY <1>1, <1>2

\* SGPRs gives every wave a region of its own.
LEMMA SGPRsAre ==
  ASSUME NEW cu, NEW shape, shape.waves \in Nat, shape.sregs \in Nat, NEW st \in SGPRs(cu, shape)
  PROVE  Cuts(st, cu.sregMask, shape.sregs, shape.waves)
<1>1. PICK f : IsTake(f, cu, shape, shape.waves) /\ SGPRs(cu, shape) = f[shape.waves]
  BY SGPRsIsTake
<1> DEFINE T == {n \in Nat : n <= shape.waves => \A s \in f[n] : Cuts(s, cu.sregMask, shape.sregs, n)}
<1>2. 0 \in T
  <2>1. f[0] = {[mask |-> cu.sregMask, at |-> <<>>]}
    BY <1>1 DEF IsTake
  <2> DEFINE s == [mask |-> cu.sregMask, at |-> <<>>]
  <2>2. Cuts(s, cu.sregMask, shape.sregs, 0)
    <3>1. <<>> \in Seq(Nat) /\ Len(<<>>) = 0
      OBVIOUS
    <3>2. 1 .. 0 = {}
      OBVIOUS
    <3> QED BY <3>1, <3>2 DEF Cuts
  <2> QED BY <2>1, <2>2
<1>3. ASSUME NEW n \in Nat, n \in T PROVE n + 1 \in T
  <2> SUFFICES ASSUME n + 1 <= shape.waves, NEW t \in f[n + 1]
               PROVE  Cuts(t, cu.sregMask, shape.sregs, n + 1)
    OBVIOUS
  <2>1. f[n + 1] = AddCuts(f[n], shape)
    <3>1. n + 1 \in 0 .. shape.waves /\ n + 1 # 0 /\ (n + 1) - 1 = n
      OBVIOUS
    <3>2. f[n + 1] = AddCuts(f[(n + 1) - 1], shape)
      BY <1>1, <3>1 DEF IsTake
    <3> QED BY <3>1, <3>2
  <2>0. PICK s \in f[n] : \E o \in NextRegion(s.mask, SRegUnits, shape.sregs) :
          t = [mask |-> s.mask \cup Region(o, shape.sregs), at |-> Append(s.at, o)]
    BY <2>1 DEF AddCuts
  <2>2. PICK o \in NextRegion(s.mask, SRegUnits, shape.sregs) :
          t = [mask |-> s.mask \cup Region(o, shape.sregs), at |-> Append(s.at, o)]
    BY <2>0
  <2>3. Cuts(s, cu.sregMask, shape.sregs, n)
    BY <1>3
  <2>4. t.mask = s.mask \cup Region(o, shape.sregs) /\ t.at = Append(s.at, o)
    BY <2>2
  <2>5. SRegUnits \in Nat
    BY UnitsAssumption
  <2> QED BY <2>3, <2>4, <2>5, CutsMore
<1>4. shape.waves \in T
  <2> HIDE DEF T
  <2> QED BY <1>2, <1>3, Induction
<1> QED BY <1>1, <1>4

\* A place of a wave, and what matchWfWithSIMDs has done for the first n waves.
Place == [SIMDID : SIMD, VGPR : Nat]

Seats(cu, shape, st, n) ==
  /\ st.at \in Seq(Place) /\ Len(st.at) <= n /\ st.next \in SIMD
  /\ st.used \in [SIMD -> Nat] /\ st.masks \in [SIMD -> SUBSET Nat]
  /\ \A s \in SIMD :
       /\ IsFiniteSet(OnSIMD(st.at, s))
       /\ st.used[s] = Cardinality(OnSIMD(st.at, s)) /\ st.used[s] <= cu.wfPoolFreeCount[s]
       /\ \A u : u \in st.masks[s] <=> \/ u \in cu.vregMasks[s]
                                       \/ \E i \in OnSIMD(st.at, s) : u \in Region(st.at[i].VGPR, shape.vregs)
       /\ \A i \in OnSIMD(st.at, s) :
            /\ Region(st.at[i].VGPR, shape.vregs) \cap cu.vregMasks[s] = {}
            /\ \A j \in OnSIMD(st.at, s) :
                 i # j => Region(st.at[i].VGPR, shape.vregs) \cap Region(st.at[j].VGPR, shape.vregs) = {}

LEMMA SIMDAtType ==
  ASSUME NEW st, st.next \in SIMD, NEW j \in Nat
  PROVE  SIMDAt(st, j) \in SIMD
<1>1. NumSIMD \in Nat \ {0} /\ st.next + j \in Nat
  BY UnitsAssumption DEF SIMD
<1>2. \A x \in Nat, y \in Nat \ {0} : x % y \in 0 .. y - 1
  OBVIOUS
<1> QED BY <1>1, <1>2 DEF SIMDAt, SIMD

\* A wave more.
LEMMA SeatsMore ==
  ASSUME NEW cu, cu.wfPoolFreeCount \in [SIMD -> Nat], NEW shape, shape.vregs \in Nat,
         NEW st, NEW n \in Nat, Seats(cu, shape, st, n),
         NEW j \in Nat, NEW o \in Gaps(cu, shape, st, j), NEW t, t = Seat(shape, st, SIMDAt(st, j), o)
  PROVE  Seats(cu, shape, t, n + 1)
<1> DEFINE s == SIMDAt(st, j)
           a == st.at
           b == t.at
           R(x) == Region(x, shape.vregs)
<1>1. s \in SIMD /\ s \in Nat
  BY SIMDAtType DEF Seats, SIMD
<1>2. cu.wfPoolFreeCount[s] > st.used[s] /\ o \in NextRegion(st.masks[s], VRegUnits, shape.vregs)
  BY DEF Gaps
<1>3. o \in Nat /\ \A u \in R(o) : u \notin st.masks[s] /\ u \in Nat
  <2>1. VRegUnits \in Nat
    BY UnitsAssumption
  <2> QED BY <1>2, <2>1, GapIsFree
<1>4. /\ t.masks = [st.masks EXCEPT ![s] = @ \cup R(o)] /\ t.used = [st.used EXCEPT ![s] = @ + 1]
      /\ t.next = (s + 1) % NumSIMD /\ b = Append(a, [SIMDID |-> s, VGPR |-> o])
  BY DEF Seat
<1>5. /\ a \in Seq(Place) /\ Len(a) <= n /\ Len(a) \in Nat /\ st.used \in [SIMD -> Nat]
      /\ st.masks \in [SIMD -> SUBSET Nat]
  BY DEF Seats
<1> DEFINE e == [SIMDID |-> s, VGPR |-> o]
           k == Len(a) + 1
<1>6. e \in Place /\ e.SIMDID = s /\ e.VGPR = o
  BY <1>1, <1>3 DEF Place
<1> HIDE DEF e
<1>7. /\ b \in Seq(Place) /\ Len(b) = k /\ DOMAIN b = 1 .. k /\ DOMAIN a = 1 .. Len(a)
      /\ b[k] = e /\ \A i \in 1 .. Len(a) : b[i] = a[i]
  <2>1. b = Append(a, e)
    BY <1>4 DEF e
  <2> HIDE DEF a, b
  <2> QED BY <1>5, <1>6, <2>1
<1>8. t.next \in SIMD
  <2>1. \A x \in Nat, y \in Nat \ {0} : x % y \in 0 .. y - 1
    OBVIOUS
  <2>2. NumSIMD \in Nat \ {0} /\ s + 1 \in Nat /\ t.next = (s + 1) % NumSIMD
    BY <1>1, <1>4, UnitsAssumption
  <2> QED BY <2>1, <2>2 DEF SIMD
<1>9. t.used \in [SIMD -> Nat] /\ t.masks \in [SIMD -> SUBSET Nat] /\ t.used[s] = st.used[s] + 1
      /\ t.masks[s] = st.masks[s] \cup R(o)
      /\ \A v \in SIMD : v # s => t.used[v] = st.used[v] /\ t.masks[v] = st.masks[v]
  <2>1. R(o) \subseteq Nat
    BY <1>3
  <2> HIDE DEF R, s
  <2>2. t.used \in [SIMD -> Nat] /\ t.used[s] = st.used[s] + 1
        /\ \A v \in SIMD : v # s => t.used[v] = st.used[v]
    BY <1>1, <1>4, <1>5
  <2>3. t.masks \in [SIMD -> SUBSET Nat] /\ t.masks[s] = st.masks[s] \cup R(o)
        /\ \A v \in SIMD : v # s => t.masks[v] = st.masks[v]
    BY <1>1, <1>4, <1>5, <2>1
  <2> QED BY <2>2, <2>3
<1>10. OnSIMD(b, s) = OnSIMD(a, s) \cup {k} /\ k \notin OnSIMD(a, s)
       /\ \A v \in SIMD : v # s => OnSIMD(b, v) = OnSIMD(a, v)
  <2>1. \A i \in 1 .. k : i = k \/ i \in 1 .. Len(a)
    BY <1>5
  <2>2. k \notin 1 .. Len(a) /\ 1 .. Len(a) \subseteq 1 .. k /\ k \in 1 .. k
    BY <1>5
  <2> HIDE DEF a, b, k, s
  <2> QED BY <1>6, <1>7, <2>1, <2>2 DEF OnSIMD
<1>11. \A v \in SIMD : OnSIMD(a, v) \subseteq 1 .. Len(a)
  BY <1>7 DEF OnSIMD
<1>12. \A v \in SIMD : \A i \in OnSIMD(a, v) : b[i] = a[i]
  BY <1>7, <1>11
<1>13. b[k].VGPR = o
  BY <1>6, <1>7
<1> HIDE DEF R, s, a, b, k
<1>14. \A v \in SIMD :
       /\ IsFiniteSet(OnSIMD(a, v))
       /\ st.used[v] = Cardinality(OnSIMD(a, v)) /\ st.used[v] <= cu.wfPoolFreeCount[v]
       /\ \A u : u \in st.masks[v] <=> \/ u \in cu.vregMasks[v]
                                       \/ \E i \in OnSIMD(a, v) : u \in R(a[i].VGPR)
       /\ \A i \in OnSIMD(a, v) :
            /\ R(a[i].VGPR) \cap cu.vregMasks[v] = {}
            /\ \A h \in OnSIMD(a, v) : i # h => R(a[i].VGPR) \cap R(a[h].VGPR) = {}
  BY DEF Seats, R, a
<1>15. ASSUME NEW v \in SIMD
       PROVE  /\ IsFiniteSet(OnSIMD(b, v))
              /\ t.used[v] = Cardinality(OnSIMD(b, v)) /\ t.used[v] <= cu.wfPoolFreeCount[v]
  <2>1. CASE v = s
    <3>1. /\ IsFiniteSet(OnSIMD(b, s))
          /\ Cardinality(OnSIMD(b, s)) = Cardinality(OnSIMD(a, s)) + 1
      BY <1>1, <1>10, <1>14, FS_AddElement
    <3>2. st.used[s] \in Nat /\ cu.wfPoolFreeCount[s] \in Nat
      BY <1>1, <1>5
    <3> QED BY <2>1, <3>1, <3>2, <1>1, <1>2, <1>9, <1>14
  <2>2. CASE v # s
    BY <2>2, <1>9, <1>10, <1>14
  <2> QED BY <2>1, <2>2
<1>16. ASSUME NEW v \in SIMD, NEW u
       PROVE  u \in t.masks[v] <=> \/ u \in cu.vregMasks[v]
                                   \/ \E i \in OnSIMD(b, v) : u \in R(b[i].VGPR)
  <2>1. CASE v = s
    <3>1. u \in t.masks[s] <=> u \in st.masks[s] \/ u \in R(o)
      BY <1>9
    <3>2. (\E i \in OnSIMD(b, s) : u \in R(b[i].VGPR)) <=> (\E i \in OnSIMD(a, s) : u \in R(a[i].VGPR)) \/ u \in R(o)
      BY <1>1, <1>10, <1>12, <1>13
    <3> QED BY <2>1, <3>1, <3>2, <1>1, <1>14
  <2>2. CASE v # s
    <3>1. t.masks[v] = st.masks[v] /\ OnSIMD(b, v) = OnSIMD(a, v)
      BY <2>2, <1>9, <1>10
    <3> QED BY <3>1, <1>12, <1>14
  <2> QED BY <2>1, <2>2
<1>17. ASSUME NEW v \in SIMD, NEW i \in OnSIMD(b, v)
       PROVE  /\ R(b[i].VGPR) \cap cu.vregMasks[v] = {}
              /\ \A h \in OnSIMD(b, v) : i # h => R(b[i].VGPR) \cap R(b[h].VGPR) = {}
  <2>1. CASE v = s
    <3>1. R(o) \cap cu.vregMasks[s] = {} /\ \A h \in OnSIMD(a, s) : R(o) \cap R(a[h].VGPR) = {}
      BY <1>1, <1>3, <1>14 DEF R
    <3>2. \A h \in OnSIMD(b, s) : h = k \/ h \in OnSIMD(a, s)
      BY <1>10
    <3>3. \A h \in OnSIMD(a, s) : b[h].VGPR = a[h].VGPR
      BY <1>1, <1>12
    <3>4. CASE i = k
      <4>1. R(b[i].VGPR) = R(o)
        BY <3>4, <1>13
      <4>2. ASSUME NEW h \in OnSIMD(b, s), i # h
            PROVE  R(b[i].VGPR) \cap R(b[h].VGPR) = {}
        <5>1. h \in OnSIMD(a, s)
          BY <3>2, <3>4, <4>2
        <5> QED BY <3>1, <3>3, <4>1, <5>1
      <4> QED BY <2>1, <3>1, <4>1, <4>2
    <3>5. CASE i \in OnSIMD(a, s)
      <4>1. R(b[i].VGPR) = R(a[i].VGPR)
        BY <3>3, <3>5
      <4>2. R(a[i].VGPR) \cap cu.vregMasks[s] = {}
            /\ \A h \in OnSIMD(a, s) : i # h => R(a[i].VGPR) \cap R(a[h].VGPR) = {}
        BY <1>1, <1>14, <3>5
      <4>3. ASSUME NEW h \in OnSIMD(b, s), i # h
            PROVE  R(b[i].VGPR) \cap R(b[h].VGPR) = {}
        <5>1. CASE h = k
          <6>1. R(b[h].VGPR) = R(o)
            BY <5>1, <1>13
          <6> QED BY <3>1, <3>5, <4>1, <6>1
        <5>2. CASE h \in OnSIMD(a, s)
          BY <3>3, <4>1, <4>2, <4>3, <5>2
        <5> QED BY <3>2, <5>1, <5>2
      <4> QED BY <2>1, <4>1, <4>2, <4>3
    <3> QED BY <2>1, <3>2, <3>4, <3>5
  <2>2. CASE v # s
    <3>1. OnSIMD(b, v) = OnSIMD(a, v)
      BY <2>2, <1>10
    <3> QED BY <3>1, <1>12, <1>14
  <2> QED BY <2>1, <2>2
<1>18. Len(b) <= n + 1
  BY <1>5, <1>7 DEF k
<1>19. \A v \in SIMD :
       /\ IsFiniteSet(OnSIMD(b, v))
       /\ t.used[v] = Cardinality(OnSIMD(b, v)) /\ t.used[v] <= cu.wfPoolFreeCount[v]
       /\ \A u : u \in t.masks[v] <=> \/ u \in cu.vregMasks[v]
                                      \/ \E i \in OnSIMD(b, v) : u \in R(b[i].VGPR)
       /\ \A i \in OnSIMD(b, v) :
            /\ R(b[i].VGPR) \cap cu.vregMasks[v] = {}
            /\ \A h \in OnSIMD(b, v) : i # h => R(b[i].VGPR) \cap R(b[h].VGPR) = {}
  BY <1>15, <1>16, <1>17
<1>20. b \in Seq(Place) /\ t.used \in [SIMD -> Nat] /\ t.masks \in [SIMD -> SUBSET Nat]
  BY <1>7, <1>9
<1> QED BY <1>8, <1>18, <1>19, <1>20 DEF Seats, R, b

Seating(cu) ==
  [masks |-> cu.vregMasks, used |-> [s \in SIMD |-> 0], next |-> cu.nextSIMD, at |-> <<>>]

SeatOne(S, cu, shape) ==
  UNION {IF WaveSeats(cu, shape, st) = {} THEN {st} ELSE WaveSeats(cu, shape, st) : st \in S}

IsPut(f, cu, shape, n) ==
  f = [i \in 0 .. n |-> IF i = 0 THEN {Seating(cu)} ELSE SeatOne(f[i - 1], cu, shape)]

\* The recursive function of MatchWfWithSIMDs exists.
LEMMA PutExists ==
  ASSUME NEW cu, NEW shape, NEW n \in Nat
  PROVE  \E f : IsPut(f, cu, shape, n)
<1> DEFINE T == {m \in Nat : \E f : IsPut(f, cu, shape, m)}
<1>1. 0 \in T
  <2> DEFINE f == [i \in 0 .. 0 |-> {Seating(cu)}]
  <2>1. IsPut(f, cu, shape, 0)
    BY DEF IsPut
  <2> QED BY <2>1
<1>2. ASSUME NEW m \in Nat, m \in T PROVE m + 1 \in T
  <2>1. PICK f : IsPut(f, cu, shape, m)
    BY <1>2
  <2> DEFINE g == [i \in 0 .. (m + 1) |-> IF i <= m THEN f[i] ELSE SeatOne(f[i - 1], cu, shape)]
  <2>2. ASSUME NEW i \in 0 .. (m + 1)
        PROVE  g[i] = IF i = 0 THEN {Seating(cu)} ELSE SeatOne(g[i - 1], cu, shape)
    <3>1. CASE i = 0
      BY <2>1, <3>1 DEF IsPut
    <3>2. CASE i # 0 /\ i <= m
      <4>1. g[i] = f[i] /\ g[i - 1] = f[i - 1] /\ i \in 0 .. m
        BY <3>2
      <4>2. f[i] = SeatOne(f[i - 1], cu, shape)
        BY <4>1, <3>2, <2>1 DEF IsPut
      <4> HIDE DEF g
      <4> QED BY <4>1, <4>2, <3>2
    <3>3. CASE i = m + 1
      BY <3>3
    <3> QED BY <3>1, <3>2, <3>3
  <2>3. IsPut(g, cu, shape, m + 1)
    BY <2>2 DEF IsPut
  <2> HIDE DEF g
  <2> QED BY <2>3
<1> HIDE DEF T
<1>3. Nat \subseteq T
  BY <1>1, <1>2, Induction
<1> QED BY <1>3 DEF T

LEMMA MatchIsPut ==
  ASSUME NEW cu, NEW shape, shape.waves \in Nat
  PROVE  \E f : IsPut(f, cu, shape, shape.waves) /\ MatchWfWithSIMDs(cu, shape) = f[shape.waves]
<1> DEFINE f == CHOOSE put : put =
                  [i \in 0 .. shape.waves |->
                     IF i = 0
                       THEN {[masks |-> cu.vregMasks, used |-> [s \in SIMD |-> 0],
                              next |-> cu.nextSIMD, at |-> <<>>]}
                       ELSE UNION {IF WaveSeats(cu, shape, st) = {} THEN {st}
                                   ELSE WaveSeats(cu, shape, st) : st \in put[i - 1]}]
<1>1. IsPut(f, cu, shape, shape.waves)
  <2>1. \E put : IsPut(put, cu, shape, shape.waves)
    BY PutExists
  <2> QED BY <2>1, Zenon DEF IsPut, Seating, SeatOne
<1>2. MatchWfWithSIMDs(cu, shape) = f[shape.waves]
  BY Zenon DEF MatchWfWithSIMDs
<1> HIDE DEF f
<1> QED BY <1>1, <1>2

\* Before the first wave.
LEMMA SeatsStart ==
  ASSUME NEW cu, cu.wfPoolFreeCount \in [SIMD -> Nat], cu.vregMasks \in [SIMD -> SUBSET Nat],
         cu.nextSIMD \in SIMD, NEW shape
  PROVE  Seats(cu, shape, Seating(cu), 0)
<1> DEFINE s == Seating(cu)
<1>1. /\ s.masks = cu.vregMasks /\ s.used = [v \in SIMD |-> 0] /\ s.next = cu.nextSIMD
      /\ s.at = <<>>
  BY DEF Seating
<1>2. <<>> \in Seq(Place) /\ Len(<<>>) = 0 /\ DOMAIN <<>> = {}
  OBVIOUS
<1>3. \A v \in SIMD : OnSIMD(s.at, v) = {}
  BY <1>1, <1>2 DEF OnSIMD
<1> HIDE DEF s
<1>4. ASSUME NEW v \in SIMD
      PROVE  /\ IsFiniteSet(OnSIMD(s.at, v)) /\ Cardinality(OnSIMD(s.at, v)) = 0
             /\ s.used[v] = 0 /\ 0 <= cu.wfPoolFreeCount[v]
  <2>1. IsFiniteSet({}) /\ Cardinality({}) = 0
    BY FS_EmptySet
  <2>2. s.used[v] = 0
    BY <1>1
  <2>3. 0 <= cu.wfPoolFreeCount[v]
    <3>1. cu.wfPoolFreeCount[v] \in Nat
      OBVIOUS
    <3> QED BY <3>1
  <2> QED BY <1>3, <2>1, <2>2, <2>3
<1>5. Seats(cu, shape, s, 0)
  BY <1>1, <1>2, <1>3, <1>4 DEF Seats
<1> QED BY <1>5 DEF s

\* MatchWfWithSIMDs gives every wave that it places a slot and a region of its own.
LEMMA SeatsAre ==
  ASSUME NEW cu, cu.wfPoolFreeCount \in [SIMD -> Nat], cu.vregMasks \in [SIMD -> SUBSET Nat],
         cu.nextSIMD \in SIMD, NEW shape, shape.waves \in Nat, shape.vregs \in Nat
  PROVE  /\ MatchWfWithSIMDs(cu, shape) # {}
         /\ \A st \in MatchWfWithSIMDs(cu, shape) : Seats(cu, shape, st, shape.waves)
<1>1. PICK f : IsPut(f, cu, shape, shape.waves) /\ MatchWfWithSIMDs(cu, shape) = f[shape.waves]
  BY MatchIsPut
<1> DEFINE T == {n \in Nat : n <= shape.waves => f[n] # {} /\ \A s \in f[n] : Seats(cu, shape, s, n)}
<1>2. 0 \in T
  <2>1. f[0] = {Seating(cu)}
    BY <1>1 DEF IsPut
  <2>2. Seats(cu, shape, Seating(cu), 0)
    BY SeatsStart
  <2> QED BY <2>1, <2>2
<1>3. ASSUME NEW n \in Nat, n \in T PROVE n + 1 \in T
  <2> SUFFICES ASSUME n + 1 <= shape.waves
               PROVE  f[n + 1] # {} /\ \A t \in f[n + 1] : Seats(cu, shape, t, n + 1)
    OBVIOUS
  <2>1. f[n + 1] = SeatOne(f[n], cu, shape)
    <3>1. n + 1 \in 0 .. shape.waves /\ n + 1 # 0 /\ (n + 1) - 1 = n
      OBVIOUS
    <3>2. f[n + 1] = SeatOne(f[(n + 1) - 1], cu, shape)
      BY <1>1, <3>1 DEF IsPut
    <3> QED BY <3>1, <3>2
  <2>2. f[n] # {} /\ \A s \in f[n] : Seats(cu, shape, s, n)
    BY <1>3
  <2>3. f[n + 1] # {}
    BY <2>1, <2>2 DEF SeatOne
  <2>4. ASSUME NEW t \in f[n + 1] PROVE Seats(cu, shape, t, n + 1)
    <3>1. PICK s \in f[n] : t = s \/ t \in WaveSeats(cu, shape, s)
      BY <2>1 DEF SeatOne
    <3>2. Seats(cu, shape, s, n)
      BY <2>2
    <3>3. CASE t = s
      <4>1. s.at \in Seq(Place) /\ Len(s.at) <= n
        BY <3>2 DEF Seats
      <4>2. Len(s.at) <= n + 1
        BY <4>1
      <4>3. Seats(cu, shape, s, n + 1)
        BY <3>2, <4>2 DEF Seats
      <4> QED BY <3>3, <4>3
    <3>4. CASE t \in WaveSeats(cu, shape, s)
      <4>1. PICK j \in Tries : \E o \in Gaps(cu, shape, s, j) : t = Seat(shape, s, SIMDAt(s, j), o)
        BY <3>4 DEF WaveSeats
      <4>2. j \in Nat
        BY UnitsAssumption DEF Tries
      <4> QED BY <3>2, <4>1, <4>2, SeatsMore
    <3> QED BY <3>1, <3>3, <3>4
  <2> QED BY <2>3, <2>4
<1>4. shape.waves \in T
  <2> HIDE DEF T
  <2> QED BY <1>2, <1>3, Induction
<1> QED BY <1>1, <1>4

-----------------------------------------------------------------------------
(* The books of one compute unit.                                          *)

Entry == [SIMDID : SIMD, VGPR : Nat, SGPR : Nat, LDS : Nat]

Reservations(w) == [1 .. Shape[w[1]].waves -> Entry]

BookType(cu) ==
  /\ cu = [sregMask |-> cu.sregMask, ldsMask |-> cu.ldsMask, vregMasks |-> cu.vregMasks,
           wfPoolFreeCount |-> cu.wfPoolFreeCount, nextSIMD |-> cu.nextSIMD,
           reservedWGs |-> cu.reservedWGs]
  /\ cu.vregMasks \in [SIMD -> SUBSET Nat] /\ cu.wfPoolFreeCount \in [SIMD -> Nat]
  /\ cu.nextSIMD \in SIMD
  /\ DOMAIN cu.reservedWGs \subseteq WG
  /\ \A w \in DOMAIN cu.reservedWGs : cu.reservedWGs[w] \in Reservations(w)

WavesOf(cu, w) == {<<w, i>> : i \in DOMAIN cu.reservedWGs[w]}
Here(cu, s) == {v \in Waves(cu) : Loc(cu, v).SIMDID = s}

\* What is taken is what the reserved groups have, and nobody has it twice.
Book(cu) ==
  /\ BookType(cu)
  /\ cu.sregMask = UNION {SGPROf(cu, v) : v \in Waves(cu)}
  /\ cu.ldsMask = UNION {LDSOf(cu, w) : w \in DOMAIN cu.reservedWGs}
  /\ \A s \in SIMD :
       /\ cu.vregMasks[s] = UNION {VGPROf(cu, v) : v \in Here(cu, s)}
       /\ IsFiniteSet(Here(cu, s))
       /\ cu.wfPoolFreeCount[s] + Cardinality(Here(cu, s)) = WfPoolSize
  /\ \A v, x \in Waves(cu) : v # x =>
       /\ SGPROf(cu, v) \cap SGPROf(cu, x) = {}
       /\ \/ Loc(cu, v).SIMDID # Loc(cu, x).SIMDID
          \/ VGPROf(cu, v) \cap VGPROf(cu, x) = {}
  /\ \A w, x \in DOMAIN cu.reservedWGs :
       w # x => LDSOf(cu, w) \cap LDSOf(cu, x) = {}

\* Nothing is booked on a compute unit that nobody used.
LEMMA EmptyBook == Book(EmptyCU)
<1> DEFINE cu == EmptyCU
<1>1. /\ cu.sregMask = {} /\ cu.ldsMask = {} /\ cu.vregMasks = [s \in SIMD |-> {}]
      /\ cu.wfPoolFreeCount = [s \in SIMD |-> WfPoolSize] /\ cu.nextSIMD = 0
      /\ DOMAIN cu.reservedWGs = {}
      /\ cu = [sregMask |-> cu.sregMask, ldsMask |-> cu.ldsMask, vregMasks |-> cu.vregMasks,
               wfPoolFreeCount |-> cu.wfPoolFreeCount, nextSIMD |-> cu.nextSIMD,
               reservedWGs |-> cu.reservedWGs]
  BY DEF EmptyCU
<1>2. WfPoolSize \in Nat /\ 0 \in SIMD
  BY UnitsAssumption DEF SIMD
<1> HIDE DEF cu
<1>3. BookType(cu)
  BY <1>1, <1>2 DEF BookType
<1>4. Waves(cu) = {}
  BY <1>1 DEF Waves
<1>5. \A s \in SIMD : Here(cu, s) = {}
  BY <1>4 DEF Here
<1>6. IsFiniteSet({}) /\ Cardinality({}) = 0 /\ WfPoolSize + 0 = WfPoolSize
  BY <1>2, FS_EmptySet
<1>7. \A s \in SIMD :
       /\ cu.vregMasks[s] = UNION {VGPROf(cu, v) : v \in Here(cu, s)}
       /\ IsFiniteSet(Here(cu, s))
       /\ cu.wfPoolFreeCount[s] + Cardinality(Here(cu, s)) = WfPoolSize
  BY <1>1, <1>5, <1>6
<1>8. /\ cu.sregMask = UNION {SGPROf(cu, v) : v \in Waves(cu)}
      /\ cu.ldsMask = UNION {LDSOf(cu, w) : w \in DOMAIN cu.reservedWGs}
  BY <1>1, <1>4
<1>9. Book(cu)
  BY <1>1, <1>3, <1>4, <1>7, <1>8 DEF Book
<1> QED BY <1>9 DEF cu

\* Numbering the members of a set with a name in front changes no count.
LEMMA Named ==
  ASSUME NEW S, IsFiniteSet(S), NEW w
  PROVE  IsFiniteSet({<<w, i>> : i \in S}) /\ Cardinality({<<w, i>> : i \in S}) = Cardinality(S)
<1> DEFINE T == {<<w, i>> : i \in S}
           f == [i \in S |-> <<w, i>>]
<1>1. f \in Bijection(S, T)
  BY DEF Bijection, Injection, Surjection, IsInjective
<1>2. ExistsBijection(S, T)
  BY <1>1 DEF ExistsBijection
<1> QED BY <1>2, FS_Bijection

LEMMA WavesIs ==
  ASSUME NEW cu, BookType(cu)
  PROVE  /\ \A w \in DOMAIN cu.reservedWGs : /\ WavesOf(cu, w) \subseteq Waves(cu)
                                             /\ DOMAIN cu.reservedWGs[w] = 1 .. Shape[w[1]].waves
         /\ \A v \in Waves(cu) : /\ v[1] \in DOMAIN cu.reservedWGs /\ v[1] \in WG
                                 /\ v[2] \in DOMAIN cu.reservedWGs[v[1]] /\ v = <<v[1], v[2]>>
                                 /\ v \in WavesOf(cu, v[1])
                                 /\ Loc(cu, v) \in Entry
<1>1. \A w \in DOMAIN cu.reservedWGs : DOMAIN cu.reservedWGs[w] = 1 .. Shape[w[1]].waves
  BY DEF BookType, Reservations
<1>2. ASSUME NEW v \in Waves(cu)
      PROVE  /\ v[1] \in DOMAIN cu.reservedWGs /\ v[1] \in WG
             /\ v[2] \in DOMAIN cu.reservedWGs[v[1]] /\ v = <<v[1], v[2]>>
             /\ v \in WavesOf(cu, v[1])
             /\ Loc(cu, v) \in Entry
  <2>1. PICK w \in DOMAIN cu.reservedWGs : v \in {<<w, i>> : i \in DOMAIN cu.reservedWGs[w]}
    BY DEF Waves
  <2>2. PICK i \in DOMAIN cu.reservedWGs[w] : v = <<w, i>>
    BY <2>1
  <2>3. cu.reservedWGs[w] \in Reservations(w) /\ w \in WG
    BY DEF BookType
  <2>4. cu.reservedWGs[w][i] \in Entry
    BY <2>3 DEF Reservations
  <2>5. v[1] = w /\ v[2] = i
    BY <2>2
  <2> QED BY <2>1, <2>2, <2>3, <2>4, <2>5 DEF Loc, WavesOf
<1>3. \A w \in DOMAIN cu.reservedWGs : WavesOf(cu, w) \subseteq Waves(cu)
  BY DEF WavesOf, Waves
<1> QED BY <1>1, <1>2, <1>3

\* b is a with one group more.
OneMore(a, b, wg) ==
  /\ BookType(a) /\ BookType(b) /\ wg \in WG \ DOMAIN a.reservedWGs
  /\ DOMAIN b.reservedWGs = DOMAIN a.reservedWGs \cup {wg}
  /\ \A w \in DOMAIN a.reservedWGs : b.reservedWGs[w] = a.reservedWGs[w]

LEMMA MoreWaves ==
  ASSUME NEW a, NEW b, NEW wg, OneMore(a, b, wg)
  PROVE  /\ Waves(b) = Waves(a) \cup WavesOf(b, wg)
         /\ Waves(a) \cap WavesOf(b, wg) = {}
         /\ \A v \in Waves(a) : /\ Loc(b, v) = Loc(a, v)
                                /\ SGPROf(b, v) = SGPROf(a, v) /\ VGPROf(b, v) = VGPROf(a, v)
         /\ \A w \in DOMAIN a.reservedWGs : LDSOf(b, w) = LDSOf(a, w)
<1>1. /\ BookType(a) /\ BookType(b) /\ wg \notin DOMAIN a.reservedWGs
      /\ DOMAIN b.reservedWGs = DOMAIN a.reservedWGs \cup {wg}
      /\ \A w \in DOMAIN a.reservedWGs : b.reservedWGs[w] = a.reservedWGs[w]
  BY DEF OneMore
<1>2. \A w \in DOMAIN a.reservedWGs : WavesOf(b, w) = WavesOf(a, w)
  BY <1>1 DEF WavesOf
<1>3. Waves(b) \subseteq Waves(a) \cup WavesOf(b, wg)
  <2> SUFFICES ASSUME NEW v \in Waves(b) PROVE v \in Waves(a) \/ v \in WavesOf(b, wg)
    OBVIOUS
  <2>1. v[1] \in DOMAIN b.reservedWGs /\ v \in WavesOf(b, v[1])
    BY <1>1, WavesIs
  <2> QED BY <1>1, <1>2, <2>1, WavesIs
<1>4. Waves(a) \subseteq Waves(b)
  <2> SUFFICES ASSUME NEW v \in Waves(a) PROVE v \in Waves(b)
    OBVIOUS
  <2>1. v[1] \in DOMAIN a.reservedWGs /\ v \in WavesOf(a, v[1])
    BY <1>1, WavesIs
  <2> QED BY <1>1, <1>2, <2>1, WavesIs
<1>5. WavesOf(b, wg) \subseteq Waves(b)
  BY <1>1, WavesIs
<1>6. Waves(a) \cap WavesOf(b, wg) = {}
  <2>1. \A v \in WavesOf(b, wg) : v[1] = wg
    BY DEF WavesOf
  <2>2. \A v \in Waves(a) : v[1] \in DOMAIN a.reservedWGs
    BY <1>1, WavesIs
  <2> QED BY <1>1, <2>1, <2>2
<1>7. \A v \in Waves(a) : Loc(b, v) = Loc(a, v)
  <2>2. \A v \in Waves(a) : v[1] \in DOMAIN a.reservedWGs
    BY <1>1, WavesIs
  <2> QED BY <1>1, <2>2 DEF Loc
<1>8. \A v \in Waves(a) : SGPROf(b, v) = SGPROf(a, v) /\ VGPROf(b, v) = VGPROf(a, v)
  BY <1>7 DEF SGPROf, VGPROf
<1>9. \A w \in DOMAIN a.reservedWGs : LDSOf(b, w) = LDSOf(a, w)
  BY <1>1 DEF LDSOf
<1> QED BY <1>3, <1>4, <1>5, <1>6, <1>7, <1>8, <1>9

LEMMA OnSIMDFinite ==
  ASSUME NEW cu, BookType(cu), NEW w \in DOMAIN cu.reservedWGs, NEW s
  PROVE  /\ IsFiniteSet(OnSIMD(cu.reservedWGs[w], s))
         /\ Cardinality(OnSIMD(cu.reservedWGs[w], s)) \in Nat
<1>1. DOMAIN cu.reservedWGs[w] = 1 .. Shape[w[1]].waves
  BY WavesIs
<1>2. Shape[w[1]].waves \in Nat
  <2>1. w \in WG
    BY DEF BookType
  <2>2. w[1] \in Kernel
    BY <2>1 DEF WG
  <2> QED BY <2>2, ShapeAssumption
<1>3. IsFiniteSet(1 .. Shape[w[1]].waves)
  BY <1>2, FS_Interval
<1>4. OnSIMD(cu.reservedWGs[w], s) \subseteq 1 .. Shape[w[1]].waves
  BY <1>1 DEF OnSIMD
<1>5. IsFiniteSet(OnSIMD(cu.reservedWGs[w], s))
  BY <1>3, <1>4, FS_Subset
<1> QED BY <1>5, FS_CardinalityType

\* How many more waves a SIMD has.
LEMMA MoreHere ==
  ASSUME NEW a, NEW b, NEW wg, OneMore(a, b, wg), NEW s \in SIMD,
         IsFiniteSet(Here(a, s)) \/ IsFiniteSet(Here(b, s))
  PROVE  /\ IsFiniteSet(OnSIMD(b.reservedWGs[wg], s))
         /\ Cardinality(OnSIMD(b.reservedWGs[wg], s)) \in Nat
         /\ IsFiniteSet(Here(a, s)) /\ IsFiniteSet(Here(b, s))
         /\ Cardinality(Here(a, s)) \in Nat
         /\ Cardinality(Here(b, s)) = Cardinality(Here(a, s)) + Cardinality(OnSIMD(b.reservedWGs[wg], s))
<1> DEFINE N == {<<wg, i>> : i \in OnSIMD(b.reservedWGs[wg], s)}
<1>1. N = {v \in WavesOf(b, wg) : Loc(b, v).SIMDID = s}
  BY DEF OnSIMD, WavesOf, Loc
<1>2. Here(b, s) = Here(a, s) \cup N /\ Here(a, s) \cap N = {}
  <2> HIDE DEF N
  <2> QED BY <1>1, MoreWaves DEF Here
<1>3. IsFiniteSet(OnSIMD(b.reservedWGs[wg], s))
  BY OnSIMDFinite DEF OneMore
<1>4. IsFiniteSet(N) /\ Cardinality(N) = Cardinality(OnSIMD(b.reservedWGs[wg], s))
  BY <1>3, Named
<1>5. Cardinality(N) \in Nat
  BY <1>4, FS_CardinalityType
<1> HIDE DEF N
<1>6. IsFiniteSet(Here(a, s))
  BY <1>2, FS_Subset
<1>7. /\ IsFiniteSet(Here(b, s)) /\ Cardinality(Here(a, s)) \in Nat
      /\ Cardinality(Here(b, s)) = Cardinality(Here(a, s)) + Cardinality(N) - Cardinality(Here(a, s) \cap N)
  BY <1>2, <1>4, <1>6, FS_Union, FS_CardinalityType
<1>8. Cardinality(Here(a, s) \cap N) = 0
  BY <1>2, FS_EmptySet
<1> QED BY <1>3, <1>4, <1>5, <1>6, <1>7, <1>8

\* The new waves of b on one SIMD.
NewHere(b, wg, s) == {v \in WavesOf(b, wg) : Loc(b, v).SIMDID = s}

\* A group that takes only what is free keeps the books right.
LEMMA Joined ==
  ASSUME NEW a, NEW b, NEW wg, OneMore(a, b, wg), Book(a),
         b.sregMask = a.sregMask \cup UNION {SGPROf(b, v) : v \in WavesOf(b, wg)},
         \A v \in WavesOf(b, wg) : SGPROf(b, v) \cap a.sregMask = {},
         \A v, x \in WavesOf(b, wg) : v # x => SGPROf(b, v) \cap SGPROf(b, x) = {},
         b.ldsMask = a.ldsMask \cup LDSOf(b, wg),
         LDSOf(b, wg) \cap a.ldsMask = {},
         \A s \in SIMD :
           /\ b.vregMasks[s] = a.vregMasks[s] \cup UNION {VGPROf(b, v) : v \in NewHere(b, wg, s)}
           /\ \A v \in NewHere(b, wg, s) : VGPROf(b, v) \cap a.vregMasks[s] = {}
           /\ \A v, x \in NewHere(b, wg, s) : v # x => VGPROf(b, v) \cap VGPROf(b, x) = {}
           /\ b.wfPoolFreeCount[s] = a.wfPoolFreeCount[s] - Cardinality(OnSIMD(b.reservedWGs[wg], s))
  PROVE  Book(b)
<1> DEFINE A == Waves(a)
           N == WavesOf(b, wg)
<1>1. /\ Waves(b) = A \cup N
      /\ \A v \in A : /\ Loc(b, v) = Loc(a, v)
                      /\ SGPROf(b, v) = SGPROf(a, v) /\ VGPROf(b, v) = VGPROf(a, v)
      /\ \A w \in DOMAIN a.reservedWGs : LDSOf(b, w) = LDSOf(a, w)
  BY MoreWaves
<1>2. /\ BookType(a) /\ BookType(b)
      /\ DOMAIN b.reservedWGs = DOMAIN a.reservedWGs \cup {wg} /\ wg \notin DOMAIN a.reservedWGs
  BY DEF OneMore
<1>3. /\ a.sregMask = UNION {SGPROf(a, v) : v \in A}
      /\ a.ldsMask = UNION {LDSOf(a, w) : w \in DOMAIN a.reservedWGs}
      /\ \A s \in SIMD :
           /\ a.vregMasks[s] = UNION {VGPROf(a, v) : v \in Here(a, s)}
           /\ IsFiniteSet(Here(a, s))
           /\ a.wfPoolFreeCount[s] + Cardinality(Here(a, s)) = WfPoolSize
      /\ \A v, x \in A : v # x =>
           /\ SGPROf(a, v) \cap SGPROf(a, x) = {}
           /\ \/ Loc(a, v).SIMDID # Loc(a, x).SIMDID
              \/ VGPROf(a, v) \cap VGPROf(a, x) = {}
      /\ \A w, x \in DOMAIN a.reservedWGs : w # x => LDSOf(a, w) \cap LDSOf(a, x) = {}
  BY DEF Book
<1> HIDE DEF A, N
<1>4. \A s \in SIMD : Here(b, s) = Here(a, s) \cup NewHere(b, wg, s) /\ Here(a, s) \subseteq A
  BY <1>1 DEF Here, NewHere, A, N
<1>5. b.sregMask = UNION {SGPROf(b, v) : v \in Waves(b)}
  <2>1. b.sregMask = a.sregMask \cup UNION {SGPROf(b, v) : v \in N}
    BY DEF N
  <2>2. a.sregMask = UNION {SGPROf(b, v) : v \in A}
    BY <1>1, <1>3
  <2> QED BY <2>1, <2>2, <1>1
<1>6. b.ldsMask = UNION {LDSOf(b, w) : w \in DOMAIN b.reservedWGs}
  <2>1. a.ldsMask = UNION {LDSOf(b, w) : w \in DOMAIN a.reservedWGs}
    BY <1>1, <1>3
  <2> QED BY <2>1, <1>2
<1>7. ASSUME NEW s \in SIMD
      PROVE  /\ b.vregMasks[s] = UNION {VGPROf(b, v) : v \in Here(b, s)}
             /\ IsFiniteSet(Here(b, s))
             /\ b.wfPoolFreeCount[s] + Cardinality(Here(b, s)) = WfPoolSize
  <2>1. b.vregMasks[s] = UNION {VGPROf(b, v) : v \in Here(b, s)}
    <3>1. a.vregMasks[s] = UNION {VGPROf(b, v) : v \in Here(a, s)}
      BY <1>1, <1>3, <1>4
    <3> QED BY <3>1, <1>4
  <2>2. /\ Cardinality(OnSIMD(b.reservedWGs[wg], s)) \in Nat
        /\ IsFiniteSet(Here(b, s)) /\ Cardinality(Here(a, s)) \in Nat
        /\ Cardinality(Here(b, s)) = Cardinality(Here(a, s)) + Cardinality(OnSIMD(b.reservedWGs[wg], s))
    BY <1>3, MoreHere
  <2>3. a.wfPoolFreeCount[s] \in Nat
    BY <1>2 DEF BookType
  <2>4. b.wfPoolFreeCount[s] + Cardinality(Here(b, s)) = WfPoolSize
    BY <1>3, <2>2, <2>3
  <2> QED BY <2>1, <2>2, <2>4
<1>8. \A v \in A : SGPROf(b, v) \subseteq a.sregMask
  BY <1>1, <1>3
<1>9. \A v \in A : VGPROf(b, v) \subseteq a.vregMasks[Loc(a, v).SIMDID] /\ Loc(a, v).SIMDID \in SIMD
  <2>1. \A v \in A : Loc(a, v) \in Entry
    BY <1>2, WavesIs DEF A
  <2>2. \A v \in A : Loc(a, v).SIMDID \in SIMD
    BY <2>1 DEF Entry
  <2>3. \A v \in A : v \in Here(a, Loc(a, v).SIMDID)
    BY DEF Here, A
  <2> QED BY <1>1, <1>3, <2>2, <2>3
<1>10. \A v \in N : Loc(b, v).SIMDID \in SIMD /\ v \in NewHere(b, wg, Loc(b, v).SIMDID)
  <2>1. \A v \in N : Loc(b, v) \in Entry
    BY <1>1, <1>2, WavesIs DEF A
  <2> QED BY <2>1 DEF Entry, NewHere, N
<1>11. ASSUME NEW v \in A, NEW x \in N
       PROVE  /\ SGPROf(b, v) \cap SGPROf(b, x) = {}
              /\ \/ Loc(b, v).SIMDID # Loc(b, x).SIMDID
                 \/ VGPROf(b, v) \cap VGPROf(b, x) = {}
  <2>1. SGPROf(b, v) \cap SGPROf(b, x) = {}
    BY <1>8 DEF N
  <2>2. CASE Loc(b, v).SIMDID = Loc(b, x).SIMDID
    <3>1. VGPROf(b, x) \cap a.vregMasks[Loc(b, x).SIMDID] = {}
      BY <1>10
    <3> QED BY <1>1, <1>9, <2>1, <2>2, <3>1
  <2> QED BY <2>1, <2>2
<1>12. ASSUME NEW v \in N, NEW x \in N, v # x
       PROVE  /\ SGPROf(b, v) \cap SGPROf(b, x) = {}
              /\ \/ Loc(b, v).SIMDID # Loc(b, x).SIMDID
                 \/ VGPROf(b, v) \cap VGPROf(b, x) = {}
  <2>1. SGPROf(b, v) \cap SGPROf(b, x) = {}
    BY <1>12 DEF N
  <2>2. CASE Loc(b, v).SIMDID = Loc(b, x).SIMDID
    BY <1>10, <1>12, <2>1, <2>2
  <2> QED BY <2>1, <2>2
<1>13. ASSUME NEW v \in A, NEW x \in A, v # x
       PROVE  /\ SGPROf(b, v) \cap SGPROf(b, x) = {}
              /\ \/ Loc(b, v).SIMDID # Loc(b, x).SIMDID
                 \/ VGPROf(b, v) \cap VGPROf(b, x) = {}
  BY <1>1, <1>3, <1>13
<1>14. \A v, x \in Waves(b) : v # x =>
         /\ SGPROf(b, v) \cap SGPROf(b, x) = {}
         /\ \/ Loc(b, v).SIMDID # Loc(b, x).SIMDID
            \/ VGPROf(b, v) \cap VGPROf(b, x) = {}
  <2> SUFFICES ASSUME NEW v \in A \cup N, NEW x \in A \cup N, v # x
               PROVE  /\ SGPROf(b, v) \cap SGPROf(b, x) = {}
                      /\ \/ Loc(b, v).SIMDID # Loc(b, x).SIMDID
                         \/ VGPROf(b, v) \cap VGPROf(b, x) = {}
    BY <1>1
  <2>1. CASE v \in A /\ x \in A
    BY <1>13, <2>1
  <2>2. CASE v \in N /\ x \in N
    BY <1>12, <2>2
  <2>3. CASE v \in A /\ x \in N
    BY <1>11, <2>3
  <2>4. CASE v \in N /\ x \in A
    <3>1. /\ SGPROf(b, x) \cap SGPROf(b, v) = {}
          /\ \/ Loc(b, x).SIMDID # Loc(b, v).SIMDID
             \/ VGPROf(b, x) \cap VGPROf(b, v) = {}
      BY <1>11, <2>4
    <3> QED BY <3>1
  <2> QED BY <2>1, <2>2, <2>3, <2>4
<1>15. \A w, x \in DOMAIN b.reservedWGs : w # x => LDSOf(b, w) \cap LDSOf(b, x) = {}
  <2>1. \A w \in DOMAIN a.reservedWGs : LDSOf(b, w) \subseteq a.ldsMask
    BY <1>1, <1>3
  <2>2. \A w, x \in DOMAIN a.reservedWGs : w # x => LDSOf(b, w) \cap LDSOf(b, x) = {}
    BY <1>1, <1>3
  <2> QED BY <1>2, <2>1, <2>2
<1> QED BY <1>2, <1>5, <1>6, <1>7, <1>14, <1>15 DEF Book

LEMMA Apart ==
  ASSUME NEW S, NEW T, \A x \in S, y \in T : x \cap y = {}
  PROVE  (UNION (S \cup T)) \ (UNION T) = UNION S
<1> DEFINE P == UNION S
           Q == UNION T
           R == UNION (S \cup T)
<1>1. \A u : u \in P => u \notin Q
  OBVIOUS
<1>2. \A u : u \in R <=> u \in P \/ u \in Q
  OBVIOUS
<1> HIDE DEF P, Q, R
<1>3. R \ Q = P
  BY <1>1, <1>2
<1> QED BY <1>3 DEF P, Q, R

\* A group that gives back what it had keeps the books right.
LEMMA Parted ==
  ASSUME NEW a, NEW b, NEW wg, OneMore(a, b, wg), Book(b),
         a.sregMask = b.sregMask \ UNION {SGPROf(b, v) : v \in WavesOf(b, wg)},
         a.ldsMask = b.ldsMask \ LDSOf(b, wg),
         \A s \in SIMD :
           /\ a.vregMasks[s] = b.vregMasks[s] \ UNION {VGPROf(b, v) : v \in NewHere(b, wg, s)}
           /\ a.wfPoolFreeCount[s] = b.wfPoolFreeCount[s] + Cardinality(OnSIMD(b.reservedWGs[wg], s))
  PROVE  Book(a)
<1> DEFINE A == Waves(a)
           N == WavesOf(b, wg)
<1>1. /\ Waves(b) = A \cup N /\ A \cap N = {}
      /\ \A v \in A : /\ Loc(b, v) = Loc(a, v)
                      /\ SGPROf(b, v) = SGPROf(a, v) /\ VGPROf(b, v) = VGPROf(a, v)
      /\ \A w \in DOMAIN a.reservedWGs : LDSOf(b, w) = LDSOf(a, w)
  BY MoreWaves
<1>2. /\ BookType(a) /\ BookType(b)
      /\ DOMAIN b.reservedWGs = DOMAIN a.reservedWGs \cup {wg} /\ wg \notin DOMAIN a.reservedWGs
  BY DEF OneMore
<1>3. /\ b.sregMask = UNION {SGPROf(b, v) : v \in Waves(b)}
      /\ b.ldsMask = UNION {LDSOf(b, w) : w \in DOMAIN b.reservedWGs}
      /\ \A s \in SIMD :
           /\ b.vregMasks[s] = UNION {VGPROf(b, v) : v \in Here(b, s)}
           /\ IsFiniteSet(Here(b, s))
           /\ b.wfPoolFreeCount[s] + Cardinality(Here(b, s)) = WfPoolSize
      /\ \A v, x \in Waves(b) : v # x =>
           /\ SGPROf(b, v) \cap SGPROf(b, x) = {}
           /\ \/ Loc(b, v).SIMDID # Loc(b, x).SIMDID
              \/ VGPROf(b, v) \cap VGPROf(b, x) = {}
      /\ \A w, x \in DOMAIN b.reservedWGs : w # x => LDSOf(b, w) \cap LDSOf(b, x) = {}
  BY DEF Book
<1> HIDE DEF A, N
<1>4. \A s \in SIMD : Here(b, s) = Here(a, s) \cup NewHere(b, wg, s) /\ Here(a, s) \subseteq A
                      /\ NewHere(b, wg, s) \subseteq N
  BY <1>1 DEF Here, NewHere, A, N
<1>5. a.sregMask = UNION {SGPROf(a, v) : v \in A}
  <2> DEFINE S == {SGPROf(b, v) : v \in A}
             T == {SGPROf(b, v) : v \in N}
  <2>1. a.sregMask = (UNION (S \cup T)) \ (UNION T)
    <3>1. a.sregMask = (UNION {SGPROf(b, v) : v \in Waves(b)}) \ (UNION T)
      <4>1. a.sregMask = b.sregMask \ (UNION T)
        BY DEF N
      <4>2. b.sregMask = UNION {SGPROf(b, v) : v \in Waves(b)}
        BY <1>3
      <4> HIDE DEF T
      <4> QED BY <4>1, <4>2
    <3>2. {SGPROf(b, v) : v \in Waves(b)} = S \cup T
      BY <1>1
    <3> QED BY <3>1, <3>2
  <2>2. \A v \in A, x \in N : SGPROf(b, v) \cap SGPROf(b, x) = {}
    BY <1>1, <1>3
  <2>3. a.sregMask = UNION S
    <3>1. \A x \in S, y \in T : x \cap y = {}
      BY <2>2
    <3> HIDE DEF S, T
    <3> QED BY <2>1, <3>1, Apart
  <2>4. S = {SGPROf(a, v) : v \in A}
    BY <1>1
  <2> QED BY <2>3, <2>4
<1>6. a.ldsMask = UNION {LDSOf(a, w) : w \in DOMAIN a.reservedWGs}
  <2> DEFINE S == {LDSOf(b, w) : w \in DOMAIN a.reservedWGs}
             T == {LDSOf(b, wg)}
  <2>1. a.ldsMask = (UNION (S \cup T)) \ (UNION T)
    <3>1. a.ldsMask = (UNION {LDSOf(b, w) : w \in DOMAIN b.reservedWGs}) \ (UNION T)
      <4>1. a.ldsMask = b.ldsMask \ (UNION T)
        <5>1. UNION T = LDSOf(b, wg)
          OBVIOUS
        <5> QED BY <5>1
      <4>2. b.ldsMask = UNION {LDSOf(b, w) : w \in DOMAIN b.reservedWGs}
        BY <1>3
      <4> HIDE DEF T
      <4> QED BY <4>1, <4>2
    <3>2. {LDSOf(b, w) : w \in DOMAIN b.reservedWGs} = S \cup T
      BY <1>2
    <3> QED BY <3>1, <3>2
  <2>2. \A w \in DOMAIN a.reservedWGs : LDSOf(b, w) \cap LDSOf(b, wg) = {}
    BY <1>2, <1>3
  <2>3. a.ldsMask = UNION S
    <3>1. \A x \in S, y \in T : x \cap y = {}
      BY <2>2
    <3> HIDE DEF S, T
    <3> QED BY <2>1, <3>1, Apart
  <2>4. S = {LDSOf(a, w) : w \in DOMAIN a.reservedWGs}
    BY <1>1
  <2> QED BY <2>3, <2>4
<1>7. ASSUME NEW s \in SIMD
      PROVE  /\ a.vregMasks[s] = UNION {VGPROf(a, v) : v \in Here(a, s)}
             /\ IsFiniteSet(Here(a, s))
             /\ a.wfPoolFreeCount[s] + Cardinality(Here(a, s)) = WfPoolSize
  <2> DEFINE H == Here(a, s)
             M == NewHere(b, wg, s)
             S == {VGPROf(b, v) : v \in H}
             T == {VGPROf(b, v) : v \in M}
  <2>1. a.vregMasks[s] = (UNION (S \cup T)) \ (UNION T)
    <3>1. a.vregMasks[s] = (UNION {VGPROf(b, v) : v \in Here(b, s)}) \ (UNION T)
      <4>1. a.vregMasks[s] = b.vregMasks[s] \ (UNION T)
        OBVIOUS
      <4>2. b.vregMasks[s] = UNION {VGPROf(b, v) : v \in Here(b, s)}
        BY <1>3
      <4> HIDE DEF T
      <4> QED BY <4>1, <4>2
    <3>2. {VGPROf(b, v) : v \in Here(b, s)} = S \cup T
      BY <1>4
    <3> QED BY <3>1, <3>2
  <2>2. \A v \in H, x \in M : VGPROf(b, v) \cap VGPROf(b, x) = {}
    <3>1. \A v \in H, x \in M : /\ v \in Waves(b) /\ x \in Waves(b) /\ v # x
                                /\ Loc(b, v).SIMDID = s /\ Loc(b, x).SIMDID = s
      BY <1>1, <1>4 DEF Here, NewHere
    <3> QED BY <1>3, <3>1
  <2>3. a.vregMasks[s] = UNION S
    <3>1. \A x \in S, y \in T : x \cap y = {}
      BY <2>2
    <3> HIDE DEF S, T
    <3> QED BY <2>1, <3>1, Apart
  <2>4. a.vregMasks[s] = UNION {VGPROf(a, v) : v \in Here(a, s)}
    <3>1. S = {VGPROf(a, v) : v \in Here(a, s)}
      BY <1>1, <1>4
    <3> QED BY <2>3, <3>1
  <2>5. /\ Cardinality(OnSIMD(b.reservedWGs[wg], s)) \in Nat
        /\ IsFiniteSet(Here(a, s)) /\ Cardinality(Here(a, s)) \in Nat
        /\ Cardinality(Here(b, s)) = Cardinality(Here(a, s)) + Cardinality(OnSIMD(b.reservedWGs[wg], s))
    BY <1>3, MoreHere
  <2>6. b.wfPoolFreeCount[s] \in Nat
    BY <1>2 DEF BookType
  <2>7. a.wfPoolFreeCount[s] + Cardinality(Here(a, s)) = WfPoolSize
    BY <1>3, <2>5, <2>6
  <2> QED BY <2>4, <2>5, <2>7
<1>8. \A v, x \in A : v # x =>
         /\ SGPROf(a, v) \cap SGPROf(a, x) = {}
         /\ \/ Loc(a, v).SIMDID # Loc(a, x).SIMDID
            \/ VGPROf(a, v) \cap VGPROf(a, x) = {}
  BY <1>1, <1>3
<1>9. \A w, x \in DOMAIN a.reservedWGs : w # x => LDSOf(a, w) \cap LDSOf(a, x) = {}
  BY <1>1, <1>2, <1>3
<1> QED BY <1>2, <1>5, <1>6, <1>7, <1>8, <1>9 DEF Book, A

\* What a reservation books.
LEMMA FitBook ==
  ASSUME NEW cu, Book(cu), NEW wg \in WG \ DOMAIN cu.reservedWGs, NEW shape, shape = Shape[wg[1]],
         NEW sgprs \in SGPRs(cu, shape), NEW lds \in NextRegion(cu.ldsMask, LDSUnits, shape.lds),
         NEW simds \in MatchWfWithSIMDs(cu, shape), ~ (Len(simds.at) < shape.waves)
  PROVE  /\ Book(Reserved(cu, wg, shape, sgprs, lds, simds))
         /\ DOMAIN Reserved(cu, wg, shape, sgprs, lds, simds).reservedWGs = DOMAIN cu.reservedWGs \cup {wg}
<1> DEFINE b == Reserved(cu, wg, shape, sgprs, lds, simds)
           n == shape.waves
           f == [i \in 1 .. n |-> [SIMDID |-> simds.at[i].SIMDID, VGPR |-> simds.at[i].VGPR,
                                   SGPR |-> sgprs.at[i], LDS |-> lds]]
<1>1. n \in Nat \ {0} /\ shape.sregs \in Nat /\ shape.vregs \in Nat /\ shape.lds \in Nat
  <2>1. wg[1] \in Kernel
    BY DEF WG
  <2> QED BY <2>1, ShapeAssumption
<1>2. BookType(cu)
  BY DEF Book
<1>3. Cuts(sgprs, cu.sregMask, shape.sregs, n)
  BY <1>1, SGPRsAre
<1>4. Seats(cu, shape, simds, n)
  BY <1>1, <1>2, SeatsAre DEF BookType
<1>5. lds \in Nat /\ \A u \in Region(lds, shape.lds) : u \notin cu.ldsMask
  <2>1. LDSUnits \in Nat
    BY UnitsAssumption
  <2> QED BY <1>1, <2>1, GapIsFree
<1>6. /\ b.sregMask = sgprs.mask /\ b.ldsMask = cu.ldsMask \cup Region(lds, shape.lds)
      /\ b.vregMasks = simds.masks
      /\ b.wfPoolFreeCount = [s \in SIMD |-> cu.wfPoolFreeCount[s] - simds.used[s]]
      /\ b.nextSIMD = simds.next
      /\ b.reservedWGs = [w \in DOMAIN cu.reservedWGs \cup {wg} |-> IF w # wg THEN cu.reservedWGs[w] ELSE f]
      /\ b = [sregMask |-> b.sregMask, ldsMask |-> b.ldsMask, vregMasks |-> b.vregMasks,
              wfPoolFreeCount |-> b.wfPoolFreeCount, nextSIMD |-> b.nextSIMD, reservedWGs |-> b.reservedWGs]
  BY DEF Reserved
<1>7. \A i \in 1 .. n : /\ simds.at[i] \in Place /\ sgprs.at[i] \in Nat
                        /\ simds.at[i].SIMDID \in SIMD /\ simds.at[i].VGPR \in Nat
  <2>1. simds.at \in Seq(Place) /\ Len(simds.at) = n /\ sgprs.at \in Seq(Nat) /\ Len(sgprs.at) = n
    <3>1. simds.at \in Seq(Place) /\ Len(simds.at) <= n /\ Len(simds.at) \in Nat
      BY <1>4 DEF Seats
    <3> QED BY <1>1, <1>3, <3>1 DEF Cuts
  <2>2. \A i \in 1 .. n : simds.at[i] \in Place /\ sgprs.at[i] \in Nat
    BY <2>1
  <2> QED BY <2>2 DEF Place
<1>8. DOMAIN simds.at = 1 .. n
  <2>1. simds.at \in Seq(Place) /\ Len(simds.at) <= n /\ Len(simds.at) \in Nat
    BY <1>4 DEF Seats
  <2> QED BY <1>1, <2>1
<1>9. /\ DOMAIN f = 1 .. n
      /\ \A i \in 1 .. n : /\ f[i] \in Entry /\ f[i].SIMDID = simds.at[i].SIMDID
                           /\ f[i].VGPR = simds.at[i].VGPR /\ f[i].SGPR = sgprs.at[i] /\ f[i].LDS = lds
  BY <1>5, <1>7 DEF Entry
<1>10. f \in [1 .. n -> Entry]
  BY <1>9
<1> HIDE DEF f, b, n
<1>11. /\ DOMAIN b.reservedWGs = DOMAIN cu.reservedWGs \cup {wg} /\ b.reservedWGs[wg] = f
       /\ \A w \in DOMAIN cu.reservedWGs : b.reservedWGs[w] = cu.reservedWGs[w]
  BY <1>6
<1>12. BookType(b)
  <2>1. simds.masks \in [SIMD -> SUBSET Nat] /\ simds.next \in SIMD
    BY <1>4 DEF Seats
  <2>2. \A s \in SIMD : cu.wfPoolFreeCount[s] - simds.used[s] \in Nat
    <3>1. \A s \in SIMD : /\ simds.used[s] \in Nat /\ cu.wfPoolFreeCount[s] \in Nat
                          /\ simds.used[s] <= cu.wfPoolFreeCount[s]
      BY <1>2, <1>4 DEF Seats, BookType
    <3> QED BY <3>1
  <2>3. b.wfPoolFreeCount \in [SIMD -> Nat]
    BY <1>6, <2>2
  <2>4. \A w \in DOMAIN b.reservedWGs : b.reservedWGs[w] \in Reservations(w)
    BY <1>2, <1>10, <1>11 DEF BookType, Reservations, n
  <2> QED BY <1>2, <1>6, <1>11, <2>1, <2>3, <2>4 DEF BookType
<1>13. OneMore(cu, b, wg)
  BY <1>2, <1>11, <1>12 DEF OneMore
<1>14. WavesOf(b, wg) = {<<wg, i>> : i \in 1 .. n}
  BY <1>9, <1>11 DEF WavesOf
<1>15. \A i \in 1 .. n : /\ Loc(b, <<wg, i>>) = f[i]
                         /\ SGPROf(b, <<wg, i>>) = Region(sgprs.at[i], shape.sregs)
                         /\ VGPROf(b, <<wg, i>>) = Region(simds.at[i].VGPR, shape.vregs)
  BY <1>9, <1>11 DEF Loc, SGPROf, VGPROf
<1>16. LDSOf(b, wg) = Region(lds, shape.lds)
  <2>1. 1 \in 1 .. n
    BY <1>1 DEF n
  <2> QED BY <1>9, <1>11, <2>1 DEF LDSOf
<1>17. /\ b.sregMask = cu.sregMask \cup UNION {SGPROf(b, v) : v \in WavesOf(b, wg)}
       /\ \A v \in WavesOf(b, wg) : SGPROf(b, v) \cap cu.sregMask = {}
       /\ \A v, x \in WavesOf(b, wg) : v # x => SGPROf(b, v) \cap SGPROf(b, x) = {}
  <2>1. /\ \A u : u \in sgprs.mask <=> u \in cu.sregMask \/ \E i \in 1 .. n : u \in Region(sgprs.at[i], shape.sregs)
        /\ \A i \in 1 .. n : Region(sgprs.at[i], shape.sregs) \cap cu.sregMask = {}
        /\ \A i, j \in 1 .. n : i # j =>
             Region(sgprs.at[i], shape.sregs) \cap Region(sgprs.at[j], shape.sregs) = {}
    BY <1>3 DEF Cuts
  <2>2. \A u : u \in UNION {SGPROf(b, v) : v \in WavesOf(b, wg)} <=>
               \E i \in 1 .. n : u \in Region(sgprs.at[i], shape.sregs)
    <3>1. \A u : u \in UNION {SGPROf(b, v) : v \in WavesOf(b, wg)} <=>
                  \E v \in WavesOf(b, wg) : u \in SGPROf(b, v)
      OBVIOUS
    <3>2. ASSUME NEW u, NEW i \in 1 .. n, u \in Region(sgprs.at[i], shape.sregs)
          PROVE  \E v \in WavesOf(b, wg) : u \in SGPROf(b, v)
      BY <1>14, <1>15, <3>2
    <3>3. ASSUME NEW u, NEW v \in WavesOf(b, wg), u \in SGPROf(b, v)
          PROVE  \E i \in 1 .. n : u \in Region(sgprs.at[i], shape.sregs)
      BY <1>14, <1>15, <3>3
    <3> QED BY <3>1, <3>2, <3>3
  <2>3. b.sregMask = cu.sregMask \cup UNION {SGPROf(b, v) : v \in WavesOf(b, wg)}
    <3> DEFINE U == UNION {SGPROf(b, v) : v \in WavesOf(b, wg)}
    <3>1. \A u : u \in b.sregMask <=> u \in cu.sregMask \/ u \in U
      BY <1>6, <2>1, <2>2
    <3> HIDE DEF U
    <3>2. b.sregMask = cu.sregMask \cup U
      BY <3>1
    <3> QED BY <3>2 DEF U
  <2>4. \A v \in WavesOf(b, wg) : SGPROf(b, v) \cap cu.sregMask = {}
    BY <1>14, <1>15, <2>1
  <2>5. ASSUME NEW v \in WavesOf(b, wg), NEW x \in WavesOf(b, wg), v # x
        PROVE  SGPROf(b, v) \cap SGPROf(b, x) = {}
    <3>1. PICK i \in 1 .. n : v = <<wg, i>>
      BY <1>14
    <3>2. PICK j \in 1 .. n : x = <<wg, j>>
      BY <1>14
    <3> QED BY <1>15, <2>1, <2>5, <3>1, <3>2
  <2> QED BY <2>3, <2>4, <2>5
<1>18. ASSUME NEW s \in SIMD
       PROVE  /\ OnSIMD(b.reservedWGs[wg], s) = OnSIMD(simds.at, s)
              /\ NewHere(b, wg, s) = {<<wg, i>> : i \in OnSIMD(simds.at, s)}
              /\ OnSIMD(simds.at, s) \subseteq 1 .. n
  <2>1. OnSIMD(b.reservedWGs[wg], s) = OnSIMD(simds.at, s)
    BY <1>8, <1>9, <1>11 DEF OnSIMD
  <2>2. NewHere(b, wg, s) = {<<wg, i>> : i \in OnSIMD(simds.at, s)}
    BY <1>8, <1>9, <1>14, <1>15 DEF NewHere, OnSIMD
  <2>3. OnSIMD(simds.at, s) \subseteq 1 .. n
    BY <1>8 DEF OnSIMD
  <2> QED BY <2>1, <2>2, <2>3
<1>19. ASSUME NEW s \in SIMD
       PROVE  /\ b.vregMasks[s] = cu.vregMasks[s] \cup UNION {VGPROf(b, v) : v \in NewHere(b, wg, s)}
              /\ \A v \in NewHere(b, wg, s) : VGPROf(b, v) \cap cu.vregMasks[s] = {}
              /\ \A v, x \in NewHere(b, wg, s) : v # x => VGPROf(b, v) \cap VGPROf(b, x) = {}
              /\ b.wfPoolFreeCount[s] = cu.wfPoolFreeCount[s] - Cardinality(OnSIMD(b.reservedWGs[wg], s))
  <2> DEFINE O == OnSIMD(simds.at, s)
             R(i) == Region(simds.at[i].VGPR, shape.vregs)
  <2>1. /\ simds.used[s] = Cardinality(O)
        /\ \A u : u \in simds.masks[s] <=> u \in cu.vregMasks[s] \/ \E i \in O : u \in R(i)
        /\ \A i \in O : R(i) \cap cu.vregMasks[s] = {}
        /\ \A i, j \in O : i # j => R(i) \cap R(j) = {}
    BY <1>4 DEF Seats
  <2>2. NewHere(b, wg, s) = {<<wg, i>> : i \in O} /\ \A i \in O : VGPROf(b, <<wg, i>>) = R(i)
    BY <1>15, <1>18
  <2>3. b.wfPoolFreeCount[s] = cu.wfPoolFreeCount[s] - Cardinality(OnSIMD(b.reservedWGs[wg], s))
    BY <1>6, <1>18, <2>1
  <2> HIDE DEF O, R
  <2>4. \A u : u \in UNION {VGPROf(b, v) : v \in NewHere(b, wg, s)} <=> \E i \in O : u \in R(i)
    BY <2>2
  <2>5. b.vregMasks[s] = cu.vregMasks[s] \cup UNION {VGPROf(b, v) : v \in NewHere(b, wg, s)}
    <3> DEFINE U == UNION {VGPROf(b, v) : v \in NewHere(b, wg, s)}
    <3>0. b.vregMasks[s] = simds.masks[s]
      BY <1>6
    <3>1. \A u : u \in b.vregMasks[s] <=> u \in cu.vregMasks[s] \/ u \in U
      BY <2>1, <2>4, <3>0
    <3> HIDE DEF U
    <3>2. b.vregMasks[s] = cu.vregMasks[s] \cup U
      BY <3>1
    <3> QED BY <3>2 DEF U
  <2>6. /\ \A v \in NewHere(b, wg, s) : VGPROf(b, v) \cap cu.vregMasks[s] = {}
        /\ \A v, x \in NewHere(b, wg, s) : v # x => VGPROf(b, v) \cap VGPROf(b, x) = {}
    BY <2>1, <2>2
  <2> QED BY <2>3, <2>5, <2>6
<1>20. /\ b.ldsMask = cu.ldsMask \cup LDSOf(b, wg)
       /\ LDSOf(b, wg) \cap cu.ldsMask = {}
  BY <1>5, <1>6, <1>16
<1>21. Book(b)
  BY <1>13, <1>17, <1>19, <1>20, Joined
<1> QED BY <1>11, <1>21 DEF b

\* A reservation that fails books nothing.
LEMMA RefusedBook ==
  ASSUME NEW cu, Book(cu), NEW simds, simds.next \in SIMD
  PROVE  Book(Refused(cu, simds)) /\ Refused(cu, simds).reservedWGs = cu.reservedWGs
<1> DEFINE b == Refused(cu, simds)
<1>1. BookType(cu)
  BY DEF Book
<1>2. /\ b.sregMask = cu.sregMask /\ b.ldsMask = cu.ldsMask /\ b.vregMasks = cu.vregMasks
      /\ b.wfPoolFreeCount = cu.wfPoolFreeCount /\ b.reservedWGs = cu.reservedWGs
      /\ b.nextSIMD = simds.next
      /\ b = [sregMask |-> b.sregMask, ldsMask |-> b.ldsMask, vregMasks |-> b.vregMasks,
              wfPoolFreeCount |-> b.wfPoolFreeCount, nextSIMD |-> b.nextSIMD, reservedWGs |-> b.reservedWGs]
  <2>1. cu = [sregMask |-> cu.sregMask, ldsMask |-> cu.ldsMask, vregMasks |-> cu.vregMasks,
              wfPoolFreeCount |-> cu.wfPoolFreeCount, nextSIMD |-> cu.nextSIMD,
              reservedWGs |-> cu.reservedWGs]
    BY <1>1 DEF BookType
  <2>2. b = [sregMask |-> cu.sregMask, ldsMask |-> cu.ldsMask, vregMasks |-> cu.vregMasks,
             wfPoolFreeCount |-> cu.wfPoolFreeCount, nextSIMD |-> simds.next,
             reservedWGs |-> cu.reservedWGs]
    BY <2>1 DEF Refused
  <2> HIDE DEF b
  <2> QED BY <2>2
<1> HIDE DEF b
<1>3. BookType(b)
  BY <1>1, <1>2 DEF BookType
<1>4. Waves(b) = Waves(cu) /\ \A v : Loc(b, v) = Loc(cu, v)
  BY <1>2 DEF Waves, Loc
<1>5. /\ \A v : SGPROf(b, v) = SGPROf(cu, v) /\ VGPROf(b, v) = VGPROf(cu, v)
      /\ \A w : LDSOf(b, w) = LDSOf(cu, w)
      /\ \A s : Here(b, s) = Here(cu, s)
  BY <1>2, <1>4 DEF SGPROf, VGPROf, LDSOf, Here
<1>6. Book(b)
  <2>1. /\ cu.sregMask = UNION {SGPROf(cu, v) : v \in Waves(cu)}
        /\ cu.ldsMask = UNION {LDSOf(cu, w) : w \in DOMAIN cu.reservedWGs}
        /\ \A s \in SIMD :
             /\ cu.vregMasks[s] = UNION {VGPROf(cu, v) : v \in Here(cu, s)}
             /\ IsFiniteSet(Here(cu, s))
             /\ cu.wfPoolFreeCount[s] + Cardinality(Here(cu, s)) = WfPoolSize
        /\ \A v, x \in Waves(cu) : v # x =>
             /\ SGPROf(cu, v) \cap SGPROf(cu, x) = {}
             /\ \/ Loc(cu, v).SIMDID # Loc(cu, x).SIMDID
                \/ VGPROf(cu, v) \cap VGPROf(cu, x) = {}
        /\ \A w, x \in DOMAIN cu.reservedWGs : w # x => LDSOf(cu, w) \cap LDSOf(cu, x) = {}
    BY DEF Book
  <2>2. /\ b.sregMask = UNION {SGPROf(b, v) : v \in Waves(b)}
        /\ b.ldsMask = UNION {LDSOf(b, w) : w \in DOMAIN b.reservedWGs}
    BY <1>2, <1>4, <1>5, <2>1
  <2>3. \A s \in SIMD :
             /\ b.vregMasks[s] = UNION {VGPROf(b, v) : v \in Here(b, s)}
             /\ IsFiniteSet(Here(b, s))
             /\ b.wfPoolFreeCount[s] + Cardinality(Here(b, s)) = WfPoolSize
    BY <1>2, <1>5, <2>1
  <2>4. \A v, x \in Waves(b) : v # x =>
             /\ SGPROf(b, v) \cap SGPROf(b, x) = {}
             /\ \/ Loc(b, v).SIMDID # Loc(b, x).SIMDID
                \/ VGPROf(b, v) \cap VGPROf(b, x) = {}
    BY <1>4, <1>5, <2>1
  <2>5. \A w, x \in DOMAIN b.reservedWGs : w # x => LDSOf(b, w) \cap LDSOf(b, x) = {}
    BY <1>2, <1>5, <2>1
  <2> QED BY <1>3, <2>2, <2>3, <2>4, <2>5 DEF Book
<1> QED BY <1>2, <1>6 DEF b

\* What comes of one choice of registers, bytes and slots.
Outcome(cu, wg, shape, sgprs, lds, simds) ==
  IF Len(simds.at) < shape.waves
    THEN [ok |-> FALSE, cu |-> Refused(cu, simds)]
    ELSE [ok |-> TRUE, cu |-> Reserved(cu, wg, shape, sgprs, lds, simds)]

LEMMA OutcomeIs ==
  ASSUME NEW cu, NEW wg, NEW shape, MatchWfWithSIMDs(cu, shape) # {}
  PROVE  LET r == ReserveResourceForWG(cu, wg, shape) IN
         \/ /\ r = [ok |-> FALSE, cu |-> cu]
            /\ SGPRs(cu, shape) = {} \/ NextRegion(cu.ldsMask, LDSUnits, shape.lds) = {}
         \/ \E sgprs \in SGPRs(cu, shape), lds \in NextRegion(cu.ldsMask, LDSUnits, shape.lds),
               simds \in MatchWfWithSIMDs(cu, shape) : r = Outcome(cu, wg, shape, sgprs, lds, simds)
<1> DEFINE r == ReserveResourceForWG(cu, wg, shape)
           G == SGPRs(cu, shape)
           L == NextRegion(cu.ldsMask, LDSUnits, shape.lds)
           M == MatchWfWithSIMDs(cu, shape)
           S == {Outcome(cu, wg, shape, sgprs, lds, simds) : sgprs \in G, lds \in L, simds \in M}
<1>1. r = CHOOSE x \in (IF G = {} \/ L = {} THEN {[ok |-> FALSE, cu |-> cu]} ELSE S) : TRUE
  BY DEF ReserveResourceForWG, Outcome
<1> HIDE DEF r
<1>2. CASE G = {} \/ L = {}
  <2>1. r \in {[ok |-> FALSE, cu |-> cu]}
    BY <1>1, <1>2
  <2> QED BY <1>2, <2>1 DEF r
<1>3. CASE ~ (G = {} \/ L = {})
  <2> HIDE DEF G, L, M
  <2>1. S # {}
    <3>1. PICK sgprs \in G, lds \in L, simds \in M : TRUE
      BY <1>3 DEF M
    <3>2. Outcome(cu, wg, shape, sgprs, lds, simds) \in S
      OBVIOUS
    <3> QED BY <3>2
  <2> HIDE DEF S
  <2>2. r \in S
    BY <1>1, <1>3, <2>1
  <2>3. \E sgprs \in G, lds \in L, simds \in M : r = Outcome(cu, wg, shape, sgprs, lds, simds)
    BY <2>2 DEF S
  <2> QED BY <2>3 DEF r, G, L, M
<1> QED BY <1>2, <1>3

\* What ReserveResourceForWG does to the books.
LEMMA ReserveBook ==
  ASSUME NEW cu, Book(cu), NEW wg \in WG \ DOMAIN cu.reservedWGs,
         NEW r, r = ReserveResourceForWG(cu, wg, Shape[wg[1]])
  PROVE  /\ r.ok \in BOOLEAN /\ Book(r.cu)
         /\ r.ok => DOMAIN r.cu.reservedWGs = DOMAIN cu.reservedWGs \cup {wg}
         /\ ~ r.ok => DOMAIN r.cu.reservedWGs = DOMAIN cu.reservedWGs
<1>1. PICK shape : shape = Shape[wg[1]]
  OBVIOUS
<1>2. shape.waves \in Nat \ {0} /\ shape.vregs \in Nat
  <2>1. wg[1] \in Kernel
    BY DEF WG
  <2> QED BY <1>1, <2>1, ShapeAssumption
<1>3. BookType(cu)
  BY DEF Book
<1>4. /\ MatchWfWithSIMDs(cu, shape) # {}
      /\ \A st \in MatchWfWithSIMDs(cu, shape) : Seats(cu, shape, st, shape.waves)
  BY <1>2, <1>3, SeatsAre DEF BookType
<1>5. CASE r = [ok |-> FALSE, cu |-> cu]
  BY <1>5
<1>6. ASSUME NEW sgprs \in SGPRs(cu, shape), NEW lds \in NextRegion(cu.ldsMask, LDSUnits, shape.lds),
             NEW simds \in MatchWfWithSIMDs(cu, shape), r = Outcome(cu, wg, shape, sgprs, lds, simds)
      PROVE  /\ r.ok \in BOOLEAN /\ Book(r.cu)
             /\ r.ok => DOMAIN r.cu.reservedWGs = DOMAIN cu.reservedWGs \cup {wg}
             /\ ~ r.ok => DOMAIN r.cu.reservedWGs = DOMAIN cu.reservedWGs
  <2>1. CASE Len(simds.at) < shape.waves
    <3>1. r.ok = FALSE /\ r.cu = Refused(cu, simds)
      BY <1>6, <2>1 DEF Outcome
    <3>2. simds.next \in SIMD
      BY <1>4 DEF Seats
    <3> QED BY <3>1, <3>2, RefusedBook
  <2>2. CASE ~ (Len(simds.at) < shape.waves)
    <3>1. r.ok = TRUE /\ r.cu = Reserved(cu, wg, shape, sgprs, lds, simds)
      BY <1>6, <2>2 DEF Outcome
    <3>2. /\ Book(Reserved(cu, wg, shape, sgprs, lds, simds))
          /\ DOMAIN Reserved(cu, wg, shape, sgprs, lds, simds).reservedWGs = DOMAIN cu.reservedWGs \cup {wg}
      <4>1. /\ Book(cu) /\ wg \in WG \ DOMAIN cu.reservedWGs /\ ~ (Len(simds.at) < shape.waves)
            /\ sgprs \in SGPRs(cu, shape) /\ lds \in NextRegion(cu.ldsMask, LDSUnits, shape.lds)
            /\ simds \in MatchWfWithSIMDs(cu, shape) /\ shape = Shape[wg[1]]
        BY <1>1, <2>2
      <4> QED BY <4>1, FitBook
    <3> QED BY <3>1, <3>2
  <2> QED BY <2>1, <2>2
<1>7. \/ r = [ok |-> FALSE, cu |-> cu]
      \/ \E sgprs \in SGPRs(cu, shape), lds \in NextRegion(cu.ldsMask, LDSUnits, shape.lds),
            simds \in MatchWfWithSIMDs(cu, shape) : r = Outcome(cu, wg, shape, sgprs, lds, simds)
  BY <1>1, <1>4, OutcomeIs
<1> QED BY <1>5, <1>6, <1>7

\* What FreeResourcesForWG does to the books.
LEMMA FreeBook ==
  ASSUME NEW cu, Book(cu), NEW wg \in DOMAIN cu.reservedWGs, NEW shape, shape = Shape[wg[1]]
  PROVE  /\ Book(FreeResourcesForWG(cu, wg, shape))
         /\ DOMAIN FreeResourcesForWG(cu, wg, shape).reservedWGs = DOMAIN cu.reservedWGs \ {wg}
<1> DEFINE a == FreeResourcesForWG(cu, wg, shape)
           f == cu.reservedWGs[wg]
<1>1. BookType(cu) /\ wg \in WG /\ wg[1] \in Kernel
  <2>1. BookType(cu)
    BY DEF Book
  <2>2. wg \in WG
    BY <2>1 DEF BookType
  <2> QED BY <2>1, <2>2 DEF WG
<1>2. shape.waves \in Nat \ {0}
  BY <1>1, ShapeAssumption
<1>3. DOMAIN f = 1 .. shape.waves /\ \A i \in 1 .. shape.waves : f[i] \in Entry
  BY <1>1 DEF BookType, Reservations
<1>4. \A s \in SIMD : /\ IsFiniteSet(OnSIMD(f, s)) /\ Cardinality(OnSIMD(f, s)) \in Nat
  BY <1>1, OnSIMDFinite
<1>5. /\ a.sregMask = cu.sregMask \ UNION {Region(f[i].SGPR, shape.sregs) : i \in DOMAIN f}
      /\ a.ldsMask = cu.ldsMask \ Region(f[1].LDS, shape.lds)
      /\ a.vregMasks = [s \in SIMD |-> cu.vregMasks[s] \ UNION {Region(f[i].VGPR, shape.vregs) : i \in OnSIMD(f, s)}]
      /\ a.wfPoolFreeCount = [s \in SIMD |-> cu.wfPoolFreeCount[s] + Cardinality(OnSIMD(f, s))]
      /\ a.nextSIMD = cu.nextSIMD
      /\ a.reservedWGs = [w \in DOMAIN cu.reservedWGs \ {wg} |-> cu.reservedWGs[w]]
      /\ a = [sregMask |-> a.sregMask, ldsMask |-> a.ldsMask, vregMasks |-> a.vregMasks,
              wfPoolFreeCount |-> a.wfPoolFreeCount, nextSIMD |-> a.nextSIMD, reservedWGs |-> a.reservedWGs]
  <2> DEFINE sm == cu.sregMask \ UNION {Region(f[i].SGPR, shape.sregs) : i \in DOMAIN f}
             lm == cu.ldsMask \ Region(f[1].LDS, shape.lds)
             vm == [s \in SIMD |-> cu.vregMasks[s] \ UNION {Region(f[i].VGPR, shape.vregs) : i \in OnSIMD(f, s)}]
             fc == [s \in SIMD |-> cu.wfPoolFreeCount[s] + Cardinality(OnSIMD(f, s))]
             rs == [w \in DOMAIN cu.reservedWGs \ {wg} |-> cu.reservedWGs[w]]
  <2>1. cu = [sregMask |-> cu.sregMask, ldsMask |-> cu.ldsMask, vregMasks |-> cu.vregMasks,
              wfPoolFreeCount |-> cu.wfPoolFreeCount, nextSIMD |-> cu.nextSIMD,
              reservedWGs |-> cu.reservedWGs]
    BY <1>1 DEF BookType
  <2>2. a = [cu EXCEPT !.sregMask = sm, !.ldsMask = lm, !.vregMasks = vm, !.wfPoolFreeCount = fc,
                       !.reservedWGs = rs]
    BY <2>1 DEF FreeResourcesForWG
  <2> HIDE DEF sm, lm, vm, fc, rs, a, f
  <2>3. a = [sregMask |-> sm, ldsMask |-> lm, vregMasks |-> vm, wfPoolFreeCount |-> fc,
             nextSIMD |-> cu.nextSIMD, reservedWGs |-> rs]
    BY <2>1, <2>2
  <2>4. /\ a.sregMask = sm /\ a.ldsMask = lm /\ a.vregMasks = vm /\ a.wfPoolFreeCount = fc
        /\ a.nextSIMD = cu.nextSIMD /\ a.reservedWGs = rs
    BY <2>3
  <2>5. a = [sregMask |-> a.sregMask, ldsMask |-> a.ldsMask, vregMasks |-> a.vregMasks,
             wfPoolFreeCount |-> a.wfPoolFreeCount, nextSIMD |-> a.nextSIMD, reservedWGs |-> a.reservedWGs]
    BY <2>3, <2>4
  <2> QED BY <2>4, <2>5 DEF sm, lm, vm, fc, rs
<1> HIDE DEF a, f
<1>6. /\ DOMAIN a.reservedWGs = DOMAIN cu.reservedWGs \ {wg}
      /\ \A w \in DOMAIN a.reservedWGs : a.reservedWGs[w] = cu.reservedWGs[w]
  BY <1>5
<1>7. BookType(a)
  <2>1. a.vregMasks \in [SIMD -> SUBSET Nat]
    <3>1. \A s \in SIMD : cu.vregMasks[s] \in SUBSET Nat
      BY <1>1 DEF BookType
    <3> QED BY <1>5, <3>1
  <2>2. a.wfPoolFreeCount \in [SIMD -> Nat]
    <3>1. \A s \in SIMD : cu.wfPoolFreeCount[s] \in Nat
      BY <1>1 DEF BookType
    <3>2. \A s \in SIMD : cu.wfPoolFreeCount[s] + Cardinality(OnSIMD(f, s)) \in Nat
      BY <1>4, <3>1
    <3> QED BY <1>5, <3>2
  <2> QED BY <1>1, <1>5, <1>6, <2>1, <2>2 DEF BookType
<1>8. OneMore(a, cu, wg)
  BY <1>1, <1>6, <1>7 DEF OneMore
<1>9. WavesOf(cu, wg) = {<<wg, i>> : i \in DOMAIN f}
  BY DEF WavesOf, f
<1>10. \A i \in DOMAIN f : /\ Loc(cu, <<wg, i>>) = f[i]
                           /\ SGPROf(cu, <<wg, i>>) = Region(f[i].SGPR, shape.sregs)
                           /\ VGPROf(cu, <<wg, i>>) = Region(f[i].VGPR, shape.vregs)
  BY DEF Loc, SGPROf, VGPROf, f
<1>11. LDSOf(cu, wg) = Region(f[1].LDS, shape.lds)
  BY DEF LDSOf, f
<1>12. a.sregMask = cu.sregMask \ UNION {SGPROf(cu, v) : v \in WavesOf(cu, wg)}
  <2> DEFINE U == UNION {SGPROf(cu, v) : v \in WavesOf(cu, wg)}
             W == UNION {Region(f[i].SGPR, shape.sregs) : i \in DOMAIN f}
  <2>1. ASSUME NEW u PROVE u \in U <=> u \in W
    <3>1. ASSUME NEW i \in DOMAIN f, u \in Region(f[i].SGPR, shape.sregs) PROVE u \in U
      BY <1>9, <1>10, <3>1
    <3>2. ASSUME NEW v \in WavesOf(cu, wg), u \in SGPROf(cu, v) PROVE u \in W
      BY <1>9, <1>10, <3>2
    <3> QED BY <3>1, <3>2
  <2>2. a.sregMask = cu.sregMask \ W
    BY <1>5
  <2> HIDE DEF U, W
  <2>3. a.sregMask = cu.sregMask \ U
    BY <2>1, <2>2
  <2> QED BY <2>3 DEF U
<1>13. ASSUME NEW s \in SIMD
       PROVE  /\ a.vregMasks[s] = cu.vregMasks[s] \ UNION {VGPROf(cu, v) : v \in NewHere(cu, wg, s)}
              /\ a.wfPoolFreeCount[s] = cu.wfPoolFreeCount[s] + Cardinality(OnSIMD(cu.reservedWGs[wg], s))
  <2> DEFINE U == UNION {VGPROf(cu, v) : v \in NewHere(cu, wg, s)}
             W == UNION {Region(f[i].VGPR, shape.vregs) : i \in OnSIMD(f, s)}
  <2>0. NewHere(cu, wg, s) = {<<wg, i>> : i \in OnSIMD(f, s)} /\ OnSIMD(f, s) \subseteq DOMAIN f
    BY <1>9, <1>10 DEF NewHere, OnSIMD
  <2>1. ASSUME NEW u PROVE u \in U <=> u \in W
    <3>1. ASSUME NEW i \in OnSIMD(f, s), u \in Region(f[i].VGPR, shape.vregs) PROVE u \in U
      BY <2>0, <1>10, <3>1
    <3>2. ASSUME NEW v \in NewHere(cu, wg, s), u \in VGPROf(cu, v) PROVE u \in W
      BY <2>0, <1>10, <3>2
    <3> QED BY <3>1, <3>2
  <2>2. a.vregMasks[s] = cu.vregMasks[s] \ W
    BY <1>5
  <2>3. a.wfPoolFreeCount[s] = cu.wfPoolFreeCount[s] + Cardinality(OnSIMD(cu.reservedWGs[wg], s))
    BY <1>5 DEF f
  <2> HIDE DEF U, W
  <2>4. a.vregMasks[s] = cu.vregMasks[s] \ U
    BY <2>1, <2>2
  <2> QED BY <2>3, <2>4 DEF U
<1>14. a.ldsMask = cu.ldsMask \ LDSOf(cu, wg)
  BY <1>5, <1>11
<1>15. Book(a)
  BY <1>8, <1>12, <1>13, <1>14, Parted
<1> QED BY <1>6, <1>15 DEF a

-----------------------------------------------------------------------------
(* The books of the pool.                                                  *)

\* A search tries no compute unit twice.
LEMMA OrderApart ==
  ASSUME NEW a \in AlgState, NEW n \in 0 .. NumCU - 1, NEW m \in 0 .. NumCU - 1, Order(a, n) = Order(a, m)
  PROVE  n = m
<1>1. NumCU \in Nat \ {0} /\ FirstCU(a) \in 0 .. NumCU
  BY GridAssumption DEF AlgState, FirstCU
<1>2. \A x \in Nat, y \in Nat \ {0} : x < y => x % y = x
  OBVIOUS
<1>3. \A x \in Nat, y \in Nat \ {0} : y <= x /\ x < y + y => x % y = x - y
  OBVIOUS
<1>4. ASSUME NEW i \in 0 .. NumCU - 1
      PROVE  Order(a, i) = FirstCU(a) + i \/ Order(a, i) = FirstCU(a) + i - NumCU
  <2>1. FirstCU(a) + i \in Nat /\ FirstCU(a) + i < NumCU + NumCU
    BY <1>1
  <2> QED BY <1>1, <1>2, <1>3, <2>1 DEF Order
<1> QED BY <1>1, <1>4

\* What a search does to the books of a pool, if it offers no group to the
\* compute unit that has it.
LEMMA SearchBook ==
  ASSUME NEW a \in AlgState, NEW pool, \A c \in CU : Book(pool[c]),
         \A t \in Offers(a) : t.wg # None => t.wg \in WG \ DOMAIN pool[t.cu].reservedWGs,
         NEW r, r = Search(a, pool, Attempts(a, pool))
  PROVE  /\ r.pool = [c \in CU |-> r.pool[c]]
         /\ \A c \in CU : Book(r.pool[c])
         /\ \/ /\ r.found = None
               /\ \A c \in CU : DOMAIN r.pool[c].reservedWGs = DOMAIN pool[c].reservedWGs
            \/ \E w \in WG, e \in CU :
                 /\ r.found = <<w, e>>
                 /\ \A c \in CU : DOMAIN r.pool[c].reservedWGs =
                      DOMAIN pool[c].reservedWGs \cup (IF c = e THEN {w} ELSE {})
<1> DEFINE tries == Attempts(a, pool)
           good  == {t \in tries : t.res.ok}
           least == CHOOSE n \in {t.n : t \in good} : \A t \in good : n <= t.n
           last  == IF good = {} THEN NumCU - 1 ELSE least
           made  == {t \in tries : t.n <= last}
           hit   == CHOOSE t \in good : t.n = last
<1>1. /\ r.found = IF good = {} THEN None ELSE <<hit.wg, hit.cu>>
      /\ r.pool = [c \in CU |-> IF \E t \in made : t.cu = c
                                  THEN (CHOOSE t \in made : t.cu = c).res.cu ELSE pool[c]]
  BY DEF Search
<1>2. ASSUME NEW t \in tries
      PROVE  /\ t.n \in 0 .. NumCU - 1 /\ t.n \in Nat /\ t.cu = Order(a, t.n) /\ t.cu \in CU
             /\ t.wg = AtHand(a, t.n, Provider(a, t.n)) /\ t.wg \in WG
             /\ t.res = ReserveResourceForWG(pool[t.cu], t.wg, Shape[t.wg[1]])
             /\ t = [n |-> t.n, cu |-> t.cu, wg |-> t.wg, res |-> t.res]
             /\ t.wg \notin DOMAIN pool[t.cu].reservedWGs
  <2>1. PICK u \in Offers(a) : u.wg # None /\ t = [n |-> u.n, cu |-> u.cu, wg |-> u.wg,
             res |-> ReserveResourceForWG(pool[u.cu], u.wg, Shape[u.wg[1]])]
    BY DEF Attempts
  <2>2. u.n \in 0 .. NumCU - 1 /\ u.cu = Order(a, u.n) /\ u.wg = AtHand(a, u.n, Provider(a, u.n))
    BY DEF Offers
  <2>3. u.cu \in CU
    BY <2>2, OrderType
  <2>4. t.n = u.n /\ t.cu = u.cu /\ t.wg = u.wg /\ t.res = ReserveResourceForWG(pool[u.cu], u.wg, Shape[u.wg[1]])
    BY <2>1
  <2>5. u.wg \in WG \ DOMAIN pool[u.cu].reservedWGs
    BY <2>1
  <2>6. u.n \in Nat
    BY <2>2
  <2>7. t = [n |-> t.n, cu |-> t.cu, wg |-> t.wg, res |-> t.res]
    BY <2>1, <2>4
  <2> QED BY <2>2, <2>3, <2>4, <2>5, <2>6, <2>7
<1>3. ASSUME NEW t \in tries
      PROVE  /\ t.res.ok \in BOOLEAN /\ Book(t.res.cu)
             /\ t.res.ok => DOMAIN t.res.cu.reservedWGs = DOMAIN pool[t.cu].reservedWGs \cup {t.wg}
             /\ ~ t.res.ok => DOMAIN t.res.cu.reservedWGs = DOMAIN pool[t.cu].reservedWGs
  <2>1. Book(pool[t.cu]) /\ t.wg \in WG \ DOMAIN pool[t.cu].reservedWGs
        /\ t.res = ReserveResourceForWG(pool[t.cu], t.wg, Shape[t.wg[1]])
    BY <1>2
  <2> QED BY <2>1, ReserveBook
<1>4. ASSUME NEW t \in tries, NEW u \in tries, t.cu = u.cu \/ t.n = u.n
      PROVE  t = u
  <2>1. t.n = u.n
    BY <1>2, <1>4, OrderApart
  <2>2. t.cu = u.cu /\ t.wg = u.wg
    BY <1>2, <2>1
  <2>3. t.res = u.res
    BY <1>2, <2>2
  <2>4. t = [n |-> t.n, cu |-> t.cu, wg |-> t.wg, res |-> t.res]
        /\ u = [n |-> u.n, cu |-> u.cu, wg |-> u.wg, res |-> u.res]
    BY <1>2
  <2> QED BY <2>1, <2>2, <2>3, <2>4
<1>5. good \subseteq tries /\ made \subseteq tries
  OBVIOUS
<1>6. good # {} => hit \in good /\ hit \in made /\ \A t \in made : t.res.ok => t = hit
  <2> SUFFICES ASSUME good # {}
               PROVE  hit \in good /\ hit \in made /\ \A t \in made : t.res.ok => t = hit
    OBVIOUS
  <2> DEFINE ns == {t.n : t \in good}
  <2>1. ns \in SUBSET Nat /\ ns # {}
    BY <1>2
  <2>2. \E n \in ns : \A m \in ns : n <= m
    <3> HIDE DEF ns
    <3> QED BY <2>1, SmallestNat
  <2>3. least \in ns /\ \A t \in good : least <= t.n
    BY <2>2
  <2>4. last = least
    OBVIOUS
  <2> HIDE DEF last, least
  <2>5. hit \in good /\ hit.n = last
    BY <2>3, <2>4
  <2> HIDE DEF hit
  <2>6. hit \in tries /\ hit.n \in Nat /\ hit.n <= last
    BY <1>2, <2>5
  <2>7. ASSUME NEW t \in made, t.res.ok PROVE t = hit
    <3>1. t \in good /\ t.n <= last /\ t.n \in Nat
      BY <1>2, <2>7
    <3>2. t.n = last
      BY <2>3, <2>4, <2>5, <2>6, <3>1
    <3> QED BY <1>4, <2>5, <2>6, <3>2
  <2> QED BY <2>5, <2>6, <2>7
<1>7. good = {} => \A t \in made : ~ t.res.ok
  OBVIOUS
<1> HIDE DEF hit, made, good, last, least, tries
<1>8. ASSUME NEW t \in made
      PROVE  t.cu \in CU /\ r.pool[t.cu] = t.res.cu
  <2> DEFINE u == CHOOSE x \in made : x.cu = t.cu
  <2>1. u \in made /\ u.cu = t.cu
    OBVIOUS
  <2> HIDE DEF u
  <2>2. u = t
    BY <1>4, <1>5, <2>1
  <2>3. t.cu \in CU
    BY <1>2, <1>5
  <2>4. r.pool[t.cu] = u.res.cu
    BY <1>1, <2>3 DEF u
  <2> QED BY <2>2, <2>3, <2>4
<1>9. ASSUME NEW c \in CU, \A t \in made : t.cu # c
      PROVE  r.pool[c] = pool[c]
  BY <1>1, <1>9
<1>10. \A c \in CU : Book(r.pool[c])
  <2> SUFFICES ASSUME NEW c \in CU PROVE Book(r.pool[c])
    OBVIOUS
  <2>1. CASE \E t \in made : t.cu = c
    BY <1>3, <1>5, <1>8, <2>1
  <2>2. CASE \A t \in made : t.cu # c
    BY <1>9, <2>2
  <2> QED BY <2>1, <2>2
<1>11. r.pool = [c \in CU |-> r.pool[c]]
  BY <1>1
<1>12. CASE good = {}
  <2>1. ASSUME NEW c \in CU PROVE DOMAIN r.pool[c].reservedWGs = DOMAIN pool[c].reservedWGs
    <3>1. CASE \E t \in made : t.cu = c
      BY <1>3, <1>5, <1>7, <1>8, <1>12, <3>1
    <3>2. CASE \A t \in made : t.cu # c
      BY <1>9, <3>2
    <3> QED BY <3>1, <3>2
  <2>2. r.found = None
    BY <1>1, <1>12
  <2> QED BY <1>10, <1>11, <2>1, <2>2
<1>13. CASE good # {}
  <2>1. hit \in made /\ hit \in tries /\ hit.res.ok /\ hit.wg \in WG /\ hit.cu \in CU
    <3>1. hit \in good /\ hit \in made /\ hit \in tries
      BY <1>5, <1>6, <1>13
    <3> QED BY <1>2, <3>1 DEF good
  <2>2. ASSUME NEW c \in CU
        PROVE  DOMAIN r.pool[c].reservedWGs =
                 DOMAIN pool[c].reservedWGs \cup (IF c = hit.cu THEN {hit.wg} ELSE {})
    <3>1. CASE c = hit.cu
      <4>1. r.pool[c] = hit.res.cu
        BY <1>8, <2>1, <3>1
      <4> QED BY <1>3, <2>1, <3>1, <4>1
    <3>2. CASE c # hit.cu /\ \E t \in made : t.cu = c
      <4>1. PICK t \in made : t.cu = c
        BY <3>2
      <4>2. t \in tries /\ t # hit /\ ~ t.res.ok
        BY <1>5, <1>6, <1>13, <3>2, <4>1
      <4>3. DOMAIN t.res.cu.reservedWGs = DOMAIN pool[c].reservedWGs
        BY <1>3, <4>1, <4>2
      <4> QED BY <1>8, <3>2, <4>1, <4>3
    <3>3. CASE c # hit.cu /\ \A t \in made : t.cu # c
      BY <1>9, <3>3
    <3> QED BY <3>1, <3>2, <3>3
  <2>3. r.found = <<hit.wg, hit.cu>>
    BY <1>1, <1>13
  <2> QED BY <1>10, <1>11, <2>1, <2>2, <2>3
<1> QED BY <1>12, <1>13

\* Where the dispatchers say a group is.
LEMMA PlacedIs ==
  ASSUME NEW c, NEW w
  PROVE  w \in Placed(c) <=>
           \E d \in DispatcherID : \E l \in inflightWGs[d] \cup ({currWG[d]} \ {None}) : l[2] = c /\ l[1] = w
  BY DEF Placed

\* A group that the algorithm has at hand is not with the dispatcher.
LEMMA AtHandIsNew ==
  ASSUME IInv, NEW d \in DispatcherID, dispatching[d] # None,
         NEW n \in 0 .. NumCU - 1, NEW p \in CU, AtHand(alg[d], n, p) # None
  PROVE  AtHand(alg[d], n, p) \in OfKernel(dispatching[d]) \ Given(d)
<1> DEFINE k == dispatching[d]
           a == alg[d]
           f == Fetched(a, n)
           w == f.currWGs[p]
<1>1. /\ k \in Kernel /\ a \in AlgState /\ Busy(d) /\ OneBuilder(a)
  BY DEF IInv, TypeInv, DispatcherInv
<1>2. a.kernel = k /\ Cut(a) /\ \A x \in Given(d) : Gone(a, x)
  BY <1>1 DEF Busy
<1>3. f \in AlgState /\ f.kernel = k /\ w = AtHand(a, n, p)
  BY <1>1, <1>2, FetchedType
<1>4. Cut(f) /\ OneBuilder(f) /\ \A x \in WG : Gone(a, x) => Gone(f, x)
  BY <1>1, <1>2, FetchedCut
<1>5. \A x \in Given(d) : Gone(f, x)
  <2>1. Given(d) \subseteq WG
    BY <1>1, InKernel DEF Given
  <2> QED BY <1>2, <1>4, <2>1
<1>6. 0 \in 0 .. NumCU
  BY GridAssumption
<1>7. w \in OfKernel(k) /\ ~ Gone(f, w)
  <2>1. f.kernel \in Kernel /\ w # None
    BY <1>1, <1>3
  <2> HIDE DEF f, AlgState, Cut, OneBuilder, Gone, OfKernel
  <2>2. PICK b : b = Took(f, p, 0)
    OBVIOUS
  <2>3. f.currWGs[p] \in OfKernel(f.kernel) /\ ~ Gone(f, f.currWGs[p])
    BY <1>3, <1>4, <1>6, <2>1, <2>2, TakenCut
  <2> QED BY <1>3, <2>3
<1> QED BY <1>3, <1>5, <1>7

\* The places of the groups of a dispatcher.
LEMMA OwnKernel ==
  ASSUME IInv, NEW d \in DispatcherID, NEW l \in inflightWGs[d] \cup ({currWG[d]} \ {None})
  PROVE  /\ dispatching[d] # None /\ l \in Location /\ l[1] \in WG /\ l[1][1] = dispatching[d]
         /\ l[1] \in Given(d)
         /\ l \in inflightWGs[d] => l[1] \in Out
         /\ l = currWG[d] => l[1] \notin Out
<1>1. DispatcherInv(d) /\ l \in Location
  BY DEF IInv, TypeInv
<1>2. dispatching[d] # None
  BY <1>1 DEF DispatcherInv, Rest
<1>3. Busy(d) /\ dispatching[d] \in Kernel /\ l # None
  BY <1>1, <1>2, NoneAssumption DEF DispatcherInv, IInv, TypeInv
<1>4. /\ l \in inflightWGs[d] => l[1] \in OfKernel(dispatching[d]) \cap Out
      /\ l = currWG[d] => l[1] \in OfKernel(dispatching[d]) \ Out
  BY <1>3 DEF Busy
<1>5. l[1] \in OfKernel(dispatching[d]) /\ l[1] \in Given(d)
  BY <1>3, <1>4 DEF Given
<1>6. l[1] \in WG /\ l[1][1] = dispatching[d]
  BY <1>3, <1>5, InKernel
<1> QED BY <1>1, <1>2, <1>4, <1>5, <1>6

\* No search offers a group that a compute unit has.
LEMMA OffersAreNew ==
  ASSUME IInv, NEW d \in DispatcherID, dispatching[d] # None, NEW t \in Offers(alg[d]), t.wg # None, NEW c
  PROVE  t.wg \in WG /\ t.wg \notin Placed(c)
<1>1. alg[d] \in AlgState /\ dispatching[d] \in Kernel
  BY DEF IInv, TypeInv
<1>2. PICK n \in 0 .. NumCU - 1 : t.wg = AtHand(alg[d], n, Provider(alg[d], n))
  BY DEF Offers
<1>3. Provider(alg[d], n) \in CU
  BY <1>1, ProviderType
<1>4. t.wg \in OfKernel(dispatching[d]) \ Given(d)
  BY <1>2, <1>3, AtHandIsNew
<1>5. t.wg \in WG /\ t.wg[1] = dispatching[d]
  BY <1>1, <1>4, InKernel
<1>6. ASSUME t.wg \in Placed(c) PROVE FALSE
  <2>1. PICK e \in DispatcherID : \E l \in inflightWGs[e] \cup ({currWG[e]} \ {None}) : l[2] = c /\ l[1] = t.wg
    BY <1>6, PlacedIs
  <2>2. PICK l \in inflightWGs[e] \cup ({currWG[e]} \ {None}) : l[2] = c /\ l[1] = t.wg
    BY <2>1
  <2>3. /\ dispatching[e] # None /\ l[1][1] = dispatching[e] /\ l[1] \in Given(e)
    BY OwnKernel
  <2>4. dispatching[e] = dispatching[d]
    BY <1>5, <2>2, <2>3
  <2>5. e = d
    BY <2>3, <2>4 DEF IInv, KernelInv
  <2> QED BY <1>4, <2>2, <2>3, <2>5
<1> QED BY <1>5, <1>6

\* The books of every compute unit are right, and are about the groups that
\* the dispatchers placed there.
BooksInv ==
  /\ cuPool = [c \in CU |-> cuPool[c]]
  /\ \A c \in CU : Book(cuPool[c]) /\ DOMAIN cuPool[c].reservedWGs = Placed(c)

LEMMA BooksMatch ==
  ASSUME BooksInv
  PROVE  ResourcesMatch
<1> SUFFICES ASSUME NEW c \in CU
             PROVE  LET cu == cuPool[c]
                    IN  /\ DOMAIN cu.reservedWGs = Placed(c)
                        /\ cu.sregMask = UNION {SGPROf(cu, v) : v \in Waves(cu)}
                        /\ cu.ldsMask = UNION {LDSOf(cu, w) : w \in DOMAIN cu.reservedWGs}
                        /\ \A s \in SIMD :
                             LET here == {v \in Waves(cu) : Loc(cu, v).SIMDID = s}
                             IN  /\ cu.vregMasks[s] = UNION {VGPROf(cu, v) : v \in here}
                                 /\ cu.wfPoolFreeCount[s] + Cardinality(here) = WfPoolSize
                        /\ \A v, x \in Waves(cu) : v # x =>
                             /\ SGPROf(cu, v) \cap SGPROf(cu, x) = {}
                             /\ \/ Loc(cu, v).SIMDID # Loc(cu, x).SIMDID
                                \/ VGPROf(cu, v) \cap VGPROf(cu, x) = {}
                        /\ \A w, x \in DOMAIN cu.reservedWGs :
                             w # x => LDSOf(cu, w) \cap LDSOf(cu, x) = {}
  BY DEF ResourcesMatch
<1>1. Book(cuPool[c]) /\ DOMAIN cuPool[c].reservedWGs = Placed(c)
  BY DEF BooksInv
<1> QED BY <1>1, Zenon DEF Book, Here

\* Sending a group moves it from the hand of the dispatcher to its table.
LEMMA SendPlaced ==
  ASSUME TypeInv, NEW d \in DispatcherID, NEW g \in Location \cup {None}, currWG[d] \in {None, g},
         SendOrKeep(d, g), NEW c
  PROVE  Placed(c)' = Placed(c) \cup (IF g # None /\ g[2] = c THEN {g[1]} ELSE {})
<1> DEFINE At(e) == inflightWGs[e] \cup ({currWG[e]} \ {None})
           In(e) == inflightWGs'[e] \cup ({currWG'[e]} \ {None})
           new == {g} \ {None}
<1>1. /\ currWG \in [DispatcherID -> Location \cup {None}]
      /\ inflightWGs \in [DispatcherID -> SUBSET Location]
  BY DEF TypeInv
<1>2. \/ /\ g # None
         /\ currWG' = [currWG EXCEPT ![d] = None]
         /\ inflightWGs' = [inflightWGs EXCEPT ![d] = @ \cup {g}]
      \/ /\ currWG' = [currWG EXCEPT ![d] = g]
         /\ UNCHANGED inflightWGs
  BY DEF SendOrKeep, Remember
<1>3. \A e \in DispatcherID : e # d => In(e) = At(e)
  BY <1>1, <1>2
<1>4. In(d) = At(d) \cup new
  BY <1>1, <1>2
<1>5. ASSUME NEW w
      PROVE  w \in Placed(c)' <=> \E e \in DispatcherID : \E l \in In(e) : l[2] = c /\ l[1] = w
  BY DEF Placed
<1>6. ASSUME NEW w
      PROVE  w \in Placed(c) <=> \E e \in DispatcherID : \E l \in At(e) : l[2] = c /\ l[1] = w
  BY DEF Placed
<1> HIDE DEF At, In
<1>7. ASSUME NEW w
      PROVE  w \in Placed(c)' <=> w \in Placed(c) \/ (g # None /\ g[2] = c /\ g[1] = w)
  <2>1. (\E l \in new : l[2] = c /\ l[1] = w) <=> (g # None /\ g[2] = c /\ g[1] = w)
    OBVIOUS
  <2> HIDE DEF new
  <2> QED BY <1>3, <1>4, <1>5, <1>6, <2>1
<1> QED BY <1>7

LEMMA DispatchNextWGBooks ==
  ASSUME IInv, BooksInv, NEW d \in DispatcherID, DispatchNextWG(d)
  PROVE  BooksInv'
<1> DEFINE a == alg[d]
<1>1. TypeInv /\ dispatching[d] # None /\ a \in AlgState /\ currWG[d] \in Location \cup {None}
  BY DEF IInv, TypeInv, DispatchNextWG
<1>2. CASE currWG[d] # None
  <2>1. SendOrKeep(d, currWG[d]) /\ cuPool' = cuPool
    BY <1>2 DEF DispatchNextWG
  <2>2. ASSUME NEW c \in CU PROVE Placed(c)' = Placed(c)
    <3>1. Placed(c)' = Placed(c) \cup (IF currWG[d] # None /\ currWG[d][2] = c THEN {currWG[d][1]} ELSE {})
      BY <1>1, <2>1, SendPlaced
    <3>2. currWG[d][2] = c => currWG[d][1] \in Placed(c)
      BY <1>2 DEF Placed
    <3> QED BY <3>1, <3>2
  <2> QED BY <2>1, <2>2 DEF BooksInv
<1>3. CASE currWG[d] = None
  <2>1. PICK r : r = Search(a, cuPool, Attempts(a, cuPool))
    OBVIOUS
  <2>2. cuPool' = r.pool /\ SendOrKeep(d, r.found)
    BY <1>3, <2>1 DEF DispatchNextWG
  <2>3. \A c \in CU : Book(cuPool[c]) /\ DOMAIN cuPool[c].reservedWGs = Placed(c)
    BY DEF BooksInv
  <2>4. \A t \in Offers(a) : t.wg # None => t.wg \in WG \ DOMAIN cuPool[t.cu].reservedWGs
    <3> SUFFICES ASSUME NEW t \in Offers(a), t.wg # None
                 PROVE  t.wg \in WG \ DOMAIN cuPool[t.cu].reservedWGs
      OBVIOUS
    <3>1. t.cu \in CU
      BY <1>1, OrderType DEF Offers
    <3>2. t.wg \in WG /\ t.wg \notin Placed(t.cu)
      BY <1>1, OffersAreNew
    <3> QED BY <2>3, <3>1, <3>2
  <2>5. /\ r.pool = [c \in CU |-> r.pool[c]]
        /\ \A c \in CU : Book(r.pool[c])
        /\ \/ /\ r.found = None
              /\ \A c \in CU : DOMAIN r.pool[c].reservedWGs = DOMAIN cuPool[c].reservedWGs
           \/ \E w \in WG, e \in CU :
                /\ r.found = <<w, e>>
                /\ \A c \in CU : DOMAIN r.pool[c].reservedWGs =
                     DOMAIN cuPool[c].reservedWGs \cup (IF c = e THEN {w} ELSE {})
    BY <1>1, <2>1, <2>3, <2>4, SearchBook
  <2>6. CASE r.found = None /\ \A c \in CU : DOMAIN r.pool[c].reservedWGs = DOMAIN cuPool[c].reservedWGs
    <3>1. ASSUME NEW c \in CU PROVE Placed(c)' = Placed(c)
      <4>1. SendOrKeep(d, None)
        BY <2>2, <2>6
      <4>2. Placed(c)' = Placed(c) \cup (IF None # None /\ None[2] = c THEN {None[1]} ELSE {})
        BY <1>1, <1>3, <4>1, SendPlaced
      <4> QED BY <4>2
    <3> QED BY <2>2, <2>3, <2>5, <2>6, <3>1 DEF BooksInv
  <2>7. ASSUME NEW w \in WG, NEW e \in CU, r.found = <<w, e>>,
               \A c \in CU : DOMAIN r.pool[c].reservedWGs =
                 DOMAIN cuPool[c].reservedWGs \cup (IF c = e THEN {w} ELSE {})
        PROVE  BooksInv'
    <3>1. <<w, e>> \in Location /\ <<w, e>> # None
      BY NoneAssumption DEF Location
    <3>2. ASSUME NEW c \in CU PROVE Placed(c)' = Placed(c) \cup (IF c = e THEN {w} ELSE {})
      <4> DEFINE g == <<w, e>>
      <4>1. g[1] = w /\ g[2] = e
        OBVIOUS
      <4>2. SendOrKeep(d, g) /\ g \in Location /\ g # None
        BY <2>2, <2>7, <3>1
      <4> HIDE DEF g
      <4>3. Placed(c)' = Placed(c) \cup (IF g # None /\ g[2] = c THEN {g[1]} ELSE {})
        BY <1>1, <1>3, <4>2, SendPlaced
      <4> QED BY <4>1, <4>2, <4>3
    <3> QED BY <2>2, <2>3, <2>5, <2>7, <3>2 DEF BooksInv
  <2> QED BY <2>5, <2>6, <2>7
<1> QED BY <1>2, <1>3

LEMMA ProcessMessagesFromCUBooks ==
  ASSUME IInv, BooksInv, NEW d \in DispatcherID, ProcessMessagesFromCU(d)
  PROVE  BooksInv'
<1>1. PICK l \in inflightWGs[d] :
        /\ l[1] = toCUs
        /\ cuPool' = [cuPool EXCEPT ![l[2]] = FreeResourcesForWG(@, l[1], Shape[toCUs[1]])]
        /\ inflightWGs' = [inflightWGs EXCEPT ![d] = @ \ {l}]
  BY DEF ProcessMessagesFromCU
<1>2. currWG' = currWG /\ inflightWGs \in [DispatcherID -> SUBSET Location]
      /\ currWG \in [DispatcherID -> Location \cup {None}]
  BY DEF ProcessMessagesFromCU, IInv, TypeInv
<1>3. l \in Location /\ l[2] \in CU /\ l = <<l[1], l[2]>>
  <2>1. l \in Location
    BY <1>2
  <2> QED BY <2>1 DEF Location
<1>4. PICK w, e : w = l[1] /\ e = l[2] /\ e \in CU
  BY <1>3
<1>5. /\ cuPool = [c \in CU |-> cuPool[c]]
      /\ \A c \in CU : Book(cuPool[c]) /\ DOMAIN cuPool[c].reservedWGs = Placed(c)
  BY DEF BooksInv
<1>6. w \in Placed(e)
  BY <1>1, <1>4 DEF Placed
<1>7. /\ Book(FreeResourcesForWG(cuPool[e], w, Shape[w[1]]))
      /\ DOMAIN FreeResourcesForWG(cuPool[e], w, Shape[w[1]]).reservedWGs = Placed(e) \ {w}
  BY <1>4, <1>5, <1>6, FreeBook
<1>8. /\ cuPool' = [c \in CU |-> cuPool'[c]]
      /\ cuPool'[e] = FreeResourcesForWG(cuPool[e], w, Shape[w[1]])
      /\ \A c \in CU : c # e => cuPool'[c] = cuPool[c]
  <2>1. cuPool' = [cuPool EXCEPT ![e] = FreeResourcesForWG(cuPool[e], w, Shape[w[1]])]
    BY <1>1, <1>4
  <2> QED BY <1>4, <1>5, <2>1
<1> DEFINE At(f) == inflightWGs[f] \cup ({currWG[f]} \ {None})
           In(f) == inflightWGs'[f] \cup ({currWG'[f]} \ {None})
<1>9. In(d) = At(d) \ {l} /\ \A f \in DispatcherID : f # d => In(f) = At(f)
  <2>1. l[1] \in Out
    BY OwnKernel
  <2>2. l # currWG[d]
    <3>1. ASSUME l = currWG[d] PROVE FALSE
      <4>1. l # None
        BY <1>3, NoneAssumption
      <4> QED BY <2>1, <3>1, <4>1, OwnKernel
    <3> QED BY <3>1
  <2> QED BY <1>1, <1>2, <2>2
<1>10. ASSUME NEW f \in DispatcherID, l \in At(f) PROVE f = d
  <2>1. dispatching[f] # None /\ l[1][1] = dispatching[f]
    BY <1>10, OwnKernel
  <2>2. dispatching[d] # None /\ l[1][1] = dispatching[d]
    BY OwnKernel
  <2> QED BY <2>1, <2>2 DEF IInv, KernelInv
<1>11. ASSUME NEW c \in CU, NEW x
       PROVE  /\ x \in Placed(c)' <=> \E f \in DispatcherID : \E m \in In(f) : m[2] = c /\ m[1] = x
              /\ x \in Placed(c) <=> \E f \in DispatcherID : \E m \in At(f) : m[2] = c /\ m[1] = x
  BY DEF Placed
<1>12. \A f \in DispatcherID : \A m \in At(f) : m = <<m[1], m[2]>>
  <2>1. \A f \in DispatcherID : \A m \in At(f) : m \in Location
    BY <1>2
  <2> QED BY <2>1 DEF Location
<1> HIDE DEF At, In
<1>13. ASSUME NEW c \in CU, c # e PROVE Placed(c)' = Placed(c)
  <2>1. \A f \in DispatcherID : \A m : m[2] = c => (m \in In(f) <=> m \in At(f))
    BY <1>4, <1>9, <1>13
  <2>2. ASSUME NEW x PROVE x \in Placed(c)' <=> x \in Placed(c)
    BY <1>11, <2>1
  <2> QED BY <2>2
<1>14. Placed(e)' = Placed(e) \ {w}
  <2>1. \A f \in DispatcherID : \A m \in At(f) : m[2] = e /\ m[1] = w => m = l
    BY <1>3, <1>4, <1>12
  <2>2. \A f \in DispatcherID : \A m : m \in In(f) <=> m \in At(f) /\ m # l
    BY <1>9, <1>10
  <2>3. ASSUME NEW x PROVE x \in Placed(e)' <=> x \in Placed(e) /\ x # w
    BY <1>4, <1>11, <2>1, <2>2
  <2> QED BY <2>3
<1>15. ASSUME NEW c \in CU PROVE Book(cuPool'[c]) /\ DOMAIN cuPool'[c].reservedWGs = Placed(c)'
  <2>1. CASE c = e
    BY <1>7, <1>8, <1>14, <2>1
  <2>2. CASE c # e
    BY <1>5, <1>8, <1>13, <2>2
  <2> QED BY <2>1, <2>2
<1> QED BY <1>8, <1>15 DEF BooksInv

\* The books stay right.
THEOREM BooksHold == Spec => []BooksInv
<1>1. Init => BooksInv
  <2> SUFFICES ASSUME Init PROVE BooksInv
    OBVIOUS
  <2>1. cuPool = [c \in CU |-> EmptyCU] /\ \A c \in CU : cuPool[c] = EmptyCU
    BY DEF Init
  <2>2. DOMAIN EmptyCU.reservedWGs = {}
    BY DEF EmptyCU
  <2>3. \A c \in CU : Placed(c) = {}
    BY DEF Placed, Init
  <2>4. cuPool = [c \in CU |-> cuPool[c]]
    BY <2>1
  <2> QED BY <2>1, <2>2, <2>3, <2>4, EmptyBook DEF BooksInv
<1>2. IInv /\ BooksInv /\ [Next]_vars => BooksInv'
  <2> SUFFICES ASSUME IInv, BooksInv, [Next]_vars PROVE BooksInv'
    OBVIOUS
  <2>1. ASSUME UNCHANGED <<cuPool, currWG, inflightWGs>> PROVE BooksInv'
    BY <2>1 DEF BooksInv, Placed
  <2>2. CASE \E d \in DispatcherID : DispatchNextWG(d)
    BY <2>2, DispatchNextWGBooks
  <2>3. CASE \E d \in DispatcherID : ProcessMessagesFromCU(d)
    BY <2>3, ProcessMessagesFromCUBooks
  <2>4. CASE \E d \in DispatcherID : StartDispatching(d) \/ CompleteKernel(d)
    BY <2>1, <2>4 DEF StartDispatching, CompleteKernel
  <2>5. CASE (\E k \in Kernel : Launch(k)) \/ TakeRsp
    BY <2>1, <2>5 DEF Launch, TakeRsp, dVars
  <2>6. CASE \E c \in CU : HandleMapWGReq(c) \/ SendWGCompletionMessage(c)
    BY <2>1, <2>6 DEF HandleMapWGReq, SendWGCompletionMessage, dVars
  <2>7. CASE UNCHANGED vars
    BY <2>1, <2>7 DEF vars, dVars
  <2> QED BY <2>2, <2>3, <2>4, <2>5, <2>6, <2>7 DEF Next
<1> QED BY <1>1, <1>2, Invariance, PTL DEF Spec

\* The books of the pool agree with the dispatchers, whatever is reserved and
\* freed in whichever order: a group is booked on a compute unit exactly while
\* a dispatcher holds it there, no two waves share a register of a file and no
\* two groups a byte, and nothing else is taken.
THEOREM BooksAgree == Spec => []ResourcesMatch
<1>1. BooksInv => ResourcesMatch
  BY BooksMatch
<1> QED BY <1>1, BooksHold, PTL

-----------------------------------------------------------------------------
(* What first fit achieves.                                                *)

\* Regions of one length that are free and apart, named by their offsets.
Packed(mask, size, length, R) ==
  /\ R \subseteq 0 .. size
  /\ \A o \in R : IsFree(mask, size, length, o)
  /\ \A o, p \in R : o < p => o + length <= p

Fits(mask, size, length, n) ==
  \/ length = 0
  \/ \E R : Packed(mask, size, length, R) /\ IsFiniteSet(R) /\ Cardinality(R) = n

LEMMA FitsNone ==
  ASSUME NEW mask, NEW size, NEW length
  PROVE  Fits(mask, size, length, 0)
<1>1. IsFiniteSet({}) /\ Cardinality({}) = 0
  BY FS_EmptySet
<1>2. Packed(mask, size, length, {})
  BY DEF Packed
<1> QED BY <1>1, <1>2 DEF Fits

LEMMA FitsLess ==
  ASSUME NEW mask, NEW size, NEW length, NEW n \in Nat, Fits(mask, size, length, n + 1)
  PROVE  Fits(mask, size, length, n)
<1>1. CASE length = 0
  BY <1>1 DEF Fits
<1>2. CASE length # 0
  <2>1. PICK R : Packed(mask, size, length, R) /\ IsFiniteSet(R) /\ Cardinality(R) = n + 1
    BY <1>2 DEF Fits
  <2>2. PICK p \in R : TRUE
    BY <2>1, FS_EmptySet
  <2>3. IsFiniteSet(R \ {p}) /\ Cardinality(R \ {p}) = n
    BY <2>1, FS_RemoveElement
  <2>4. Packed(mask, size, length, R \ {p})
    BY <2>1 DEF Packed
  <2> QED BY <2>3, <2>4 DEF Fits
<1> QED BY <1>1, <1>2

LEMMA FitsFewer ==
  ASSUME NEW mask, NEW size, NEW length, NEW n \in Nat, NEW m \in Nat, n <= m, Fits(mask, size, length, m)
  PROVE  Fits(mask, size, length, n)
<1> DEFINE T == {d \in Nat : \A k \in Nat : Fits(mask, size, length, k + d) => Fits(mask, size, length, k)}
<1>1. 0 \in T
  <2>1. \A k \in Nat : k + 0 = k
    OBVIOUS
  <2> QED BY <2>1
<1>2. ASSUME NEW d \in Nat, d \in T PROVE d + 1 \in T
  <2> SUFFICES ASSUME NEW k \in Nat, Fits(mask, size, length, k + (d + 1))
               PROVE  Fits(mask, size, length, k)
    OBVIOUS
  <2>1. k + (d + 1) = (k + d) + 1 /\ k + d \in Nat
    OBVIOUS
  <2>2. Fits(mask, size, length, k + d)
    BY <2>1, FitsLess
  <2> QED BY <1>2, <2>2
<1> HIDE DEF T
<1>3. Nat \subseteq T
  BY <1>1, <1>2, Induction
<1>4. m - n \in Nat /\ n + (m - n) = m
  OBVIOUS
<1> QED BY <1>3, <1>4 DEF T

\* There is a first region if there is any.
LEMMA FirstRegion ==
  ASSUME NEW mask, NEW size \in Nat, NEW length \in Nat, NEW n \in Nat, Fits(mask, size, length, n + 1)
  PROVE  NextRegion(mask, size, length) # {}
<1>1. CASE length = 0
  BY <1>1 DEF NextRegion
<1>2. CASE length # 0
  <2> DEFINE S == {o \in 0 .. size : IsFree(mask, size, length, o)}
  <2>1. PICK R : Packed(mask, size, length, R) /\ IsFiniteSet(R) /\ Cardinality(R) = n + 1
    BY <1>2 DEF Fits
  <2>2. PICK p \in R : TRUE
    BY <2>1, FS_EmptySet
  <2>3. p \in S
    BY <2>1 DEF Packed
  <2>4. S \in SUBSET Nat
    OBVIOUS
  <2> HIDE DEF S
  <2>5. PICK o \in S : \A q \in S : o <= q
    BY <2>3, <2>4, SmallestNat
  <2>6. o \in 0 .. size /\ IsFree(mask, size, length, o)
    BY DEF S
  <2>7. ASSUME NEW q \in 0 .. o - 1, IsFree(mask, size, length, q) PROVE FALSE
    <3>1. q \in 0 .. size /\ q < o /\ q \in Nat /\ o \in Nat
      BY <2>6
    <3>2. q \in S
      BY <2>7, <3>1 DEF S
    <3>3. o <= q
      BY <2>5, <3>2
    <3> QED BY <3>1, <3>3
  <2>8. o \in NextRegion(mask, size, length)
    BY <1>2, <2>6, <2>7 DEF NextRegion
  <2> QED BY <2>8
<1> QED BY <1>1, <1>2

\* Taking the first region costs one of the regions that fit: of those, only
\* the first one can meet it.
LEMMA TakeFirst ==
  ASSUME NEW mask, NEW size \in Nat, NEW length \in Nat, NEW n \in Nat, Fits(mask, size, length, n + 1),
         NEW o \in NextRegion(mask, size, length)
  PROVE  Fits(mask \cup Region(o, length), size, length, n)
<1>1. CASE length = 0
  BY <1>1 DEF Fits
<1>2. CASE length # 0
  <2>1. PICK R : Packed(mask, size, length, R) /\ IsFiniteSet(R) /\ Cardinality(R) = n + 1
    BY <1>2 DEF Fits
  <2>2. R # {} /\ R \in SUBSET Nat
    BY <2>1, FS_EmptySet DEF Packed
  <2>3. PICK p \in R : \A q \in R : p <= q
    BY <2>2, SmallestNat
  <2>4. IsFiniteSet(R \ {p}) /\ Cardinality(R \ {p}) = n
    BY <2>1, FS_RemoveElement
  <2>5. o \in 0 .. size /\ \A q \in 0 .. o - 1 : ~ IsFree(mask, size, length, q)
    BY <1>2 DEF NextRegion
  <2>6. p \in Nat /\ o \in Nat /\ o <= p
    <3>1. p \in 0 .. size /\ IsFree(mask, size, length, p)
      BY <2>1 DEF Packed
    <3>2. ~ (p \in 0 .. o - 1)
      BY <2>5, <3>1
    <3> QED BY <2>5, <3>1, <3>2
  <2>7. ASSUME NEW q \in R \ {p}
        PROVE  q \in 0 .. size /\ IsFree(mask \cup Region(o, length), size, length, q)
    <3>1. q \in 0 .. size /\ IsFree(mask, size, length, q) /\ (p < q => p + length <= q)
      BY <2>1 DEF Packed
    <3>2. p < q
      BY <2>3, <2>6, <3>1
    <3>3. o + length <= q
      BY <2>6, <3>1, <3>2
    <3>4. \A u \in Region(q, length) : u \notin Region(o, length)
      BY <2>6, <3>1, <3>3 DEF Region
    <3> QED BY <3>1, <3>4 DEF IsFree
  <2>8. Packed(mask \cup Region(o, length), size, length, R \ {p})
    <3>1. \A q, r \in R : q < r => q + length <= r
      BY <2>1 DEF Packed
    <3> QED BY <2>7, <3>1 DEF Packed
  <2> QED BY <2>4, <2>8 DEF Fits
<1> QED BY <1>1, <1>2

\* What fits besides a region that is free fits together with it.
LEMMA GiveBack ==
  ASSUME NEW mask, NEW size \in Nat, NEW length \in Nat, NEW n \in Nat,
         NEW o \in NextRegion(mask, size, length), Fits(mask \cup Region(o, length), size, length, n)
  PROVE  Fits(mask, size, length, n + 1)
<1>1. CASE length = 0
  BY <1>1 DEF Fits
<1>2. CASE length # 0
  <2>1. PICK R : /\ Packed(mask \cup Region(o, length), size, length, R)
                 /\ IsFiniteSet(R) /\ Cardinality(R) = n
    BY <1>2 DEF Fits
  <2>2. o \in 0 .. size /\ IsFree(mask, size, length, o)
    BY <1>2 DEF NextRegion
  <2>3. ASSUME NEW q \in R
        PROVE  /\ q \in 0 .. size /\ IsFree(mask, size, length, q)
               /\ o + length <= q \/ q + length <= o
    <3>1. q \in 0 .. size /\ IsFree(mask \cup Region(o, length), size, length, q)
      BY <2>1 DEF Packed
    <3>2. \A u \in Region(q, length) : u \notin mask /\ u \notin Region(o, length)
      BY <3>1 DEF IsFree
    <3>3. IsFree(mask, size, length, q)
      BY <3>1, <3>2 DEF IsFree
    <3>4. q \in Nat /\ o \in Nat /\ length > 0
      BY <1>2, <2>2, <3>1
    <3>5. q \notin Region(o, length) /\ o \notin Region(q, length)
      <4>1. q \in Region(q, length) /\ o \in Region(o, length)
        BY <3>4 DEF Region
      <4> QED BY <3>2, <4>1
    <3>6. o + length <= q \/ q + length <= o
      BY <3>4, <3>5 DEF Region
    <3> QED BY <3>1, <3>3, <3>6
  <2>4. o \notin R
    BY <1>2, <2>2, <2>3
  <2>5. IsFiniteSet(R \cup {o}) /\ Cardinality(R \cup {o}) = n + 1
    BY <2>1, <2>4, FS_AddElement
  <2>6. ASSUME NEW q \in R \cup {o}, NEW r \in R \cup {o}, q < r
        PROVE  q + length <= r
    <3>1. q \in R /\ r \in R => q + length <= r
      BY <2>1, <2>6 DEF Packed
    <3>2. q \in 0 .. size /\ r \in 0 .. size /\ o \in 0 .. size
      BY <2>2, <2>3
    <3>3. q = o /\ r \in R => q + length <= r
      BY <2>3, <2>6, <3>2
    <3>4. r = o /\ q \in R => q + length <= r
      BY <2>3, <2>6, <3>2
    <3>5. ~ (q = o /\ r = o)
      BY <2>6, <3>2
    <3> QED BY <3>1, <3>3, <3>4, <3>5
  <2>7. Packed(mask, size, length, R \cup {o})
    BY <2>2, <2>3, <2>6 DEF Packed
  <2> QED BY <2>5, <2>7 DEF Fits
<1> QED BY <1>1, <1>2
\* Room counts what fits.
LEMMA RoomIs ==
  ASSUME NEW mask, NEW size \in Nat, NEW length \in Nat, NEW n \in Nat
  PROVE  /\ Room(mask, size, length, n) \in 0 .. n
         /\ \A k \in 0 .. n : k <= Room(mask, size, length, n) <=> Fits(mask, size, length, k)
<1>1. CASE length = 0
  <2>1. Room(mask, size, length, n) = n
    BY <1>1 DEF Room
  <2> QED BY <1>1, <2>1 DEF Fits
<1>2. CASE length # 0
  <2> DEFINE sets == {R \in SUBSET {o \in 0 .. size : IsFree(mask, size, length, o)} :
                        /\ Cardinality(R) <= n
                        /\ \A o, p \in R : o < p => o + length <= p}
             best(m) == (\E R \in sets : Cardinality(R) = m) /\ (\A R \in sets : Cardinality(R) <= m)
             r == CHOOSE m \in 0 .. n : best(m)
  <2>1. Room(mask, size, length, n) = r
    BY <1>2 DEF Room
  <2>2. ASSUME NEW R \in sets
        PROVE  Packed(mask, size, length, R) /\ IsFiniteSet(R) /\ Cardinality(R) \in 0 .. n
    <3>1. R \subseteq 0 .. size /\ Cardinality(R) <= n
      OBVIOUS
    <3>2. IsFiniteSet(0 .. size)
      BY FS_Interval
    <3>3. IsFiniteSet(R) /\ Cardinality(R) \in Nat
      BY <3>1, <3>2, FS_Subset, FS_CardinalityType
    <3>4. Packed(mask, size, length, R)
      BY DEF Packed
    <3> QED BY <3>1, <3>3, <3>4
  <2>3. ASSUME NEW R, Packed(mask, size, length, R), Cardinality(R) <= n PROVE R \in sets
    BY <2>3 DEF Packed
  <2>4. {} \in sets
    <3>1. Packed(mask, size, length, {}) /\ Cardinality({}) <= n
      BY FS_EmptySet DEF Packed
    <3> HIDE DEF sets
    <3> QED BY <2>3, <3>1
  <2> HIDE DEF sets
  <2>5. \E m \in 0 .. n : best(m)
    <3> DEFINE D == {d \in 0 .. n : \E R \in sets : Cardinality(R) = n - d}
    <3>1. D # {}
      <4>1. Cardinality({}) = 0
        BY FS_EmptySet
      <4>2. n \in D
        BY <2>4, <4>1
      <4> QED BY <4>2
    <3>2. D \in SUBSET Nat
      OBVIOUS
    <3>3. \A R \in sets : n - Cardinality(R) \in D
      <4> SUFFICES ASSUME NEW R \in sets PROVE n - Cardinality(R) \in D
        OBVIOUS
      <4>1. Cardinality(R) \in 0 .. n
        BY <2>2
      <4>2. n - Cardinality(R) \in 0 .. n /\ n - (n - Cardinality(R)) = Cardinality(R)
        BY <4>1
      <4> QED BY <4>2
    <3>4. \A d \in D : d \in 0 .. n /\ \E R \in sets : Cardinality(R) = n - d
      OBVIOUS
    <3> HIDE DEF D
    <3>5. PICK d \in D : \A e \in D : d <= e
      BY <3>1, <3>2, SmallestNat
    <3>6. d \in 0 .. n /\ n - d \in 0 .. n
      BY <3>4
    <3>7. \A R \in sets : Cardinality(R) <= n - d
      <4> SUFFICES ASSUME NEW R \in sets PROVE Cardinality(R) <= n - d
        OBVIOUS
      <4>1. Cardinality(R) \in 0 .. n /\ d <= n - Cardinality(R)
        BY <2>2, <3>3, <3>5
      <4> QED BY <3>6, <4>1
    <3>8. best(n - d)
      BY <3>4, <3>7
    <3> QED BY <3>6, <3>8
  <2>6. r \in 0 .. n /\ best(r)
    <3> HIDE DEF best
    <3> QED BY <2>5, Zenon
  <2> HIDE DEF r
  <2>7. PICK R \in sets : Cardinality(R) = r
    BY <2>6
  <2>8. Fits(mask, size, length, r)
    BY <2>2, <2>7 DEF Fits
  <2>9. ASSUME NEW k \in 0 .. n PROVE k <= r <=> Fits(mask, size, length, k)
    <3>1. k \in Nat /\ r \in Nat
      BY <2>6
    <3>2. k <= r => Fits(mask, size, length, k)
      BY <2>8, <3>1, FitsFewer
    <3>3. ASSUME Fits(mask, size, length, k) PROVE k <= r
      <4>1. PICK Q : Packed(mask, size, length, Q) /\ IsFiniteSet(Q) /\ Cardinality(Q) = k
        BY <1>2, <3>3 DEF Fits
      <4>2. Q \in sets
        BY <2>3, <4>1
      <4> QED BY <2>6, <4>1, <4>2
    <3> QED BY <3>2, <3>3
  <2> QED BY <2>1, <2>6, <2>9
<1> QED BY <1>1, <1>2

\* withinSGPRLimitation finds registers for all waves if there are any.
LEMMA SGPRsFit ==
  ASSUME NEW cu, NEW shape, shape.waves \in Nat, shape.sregs \in Nat
  PROVE  SGPRs(cu, shape) # {} <=> Fits(cu.sregMask, SRegUnits, shape.sregs, shape.waves)
<1> DEFINE Fit(mask, n) == Fits(mask, SRegUnits, shape.sregs, n)
           G(o) == Region(o, shape.sregs)
<1>1. PICK f : IsTake(f, cu, shape, shape.waves) /\ SGPRs(cu, shape) = f[shape.waves]
  BY SGPRsIsTake
<1>0. SRegUnits \in Nat
  BY UnitsAssumption
<1> DEFINE T == {n \in Nat : n <= shape.waves =>
                   /\ \A s \in f[n], m \in Nat : Fit(s.mask, m) <=> Fit(cu.sregMask, n + m)
                   /\ Fit(cu.sregMask, n) => f[n] # {}}
<1>2. 0 \in T
  <2>1. f[0] = {[mask |-> cu.sregMask, at |-> <<>>]}
    BY <1>1 DEF IsTake
  <2>2. \A s \in f[0] : s.mask = cu.sregMask
    BY <2>1
  <2>3. \A m \in Nat : 0 + m = m
    OBVIOUS
  <2> HIDE DEF Fit
  <2> QED BY <2>1, <2>2, <2>3
<1>3. ASSUME NEW n \in Nat, n \in T PROVE n + 1 \in T
  <2> SUFFICES ASSUME n + 1 <= shape.waves
               PROVE  /\ \A t \in f[n + 1], m \in Nat : Fit(t.mask, m) <=> Fit(cu.sregMask, (n + 1) + m)
                      /\ Fit(cu.sregMask, n + 1) => f[n + 1] # {}
    OBVIOUS
  <2>1. f[n + 1] = AddCuts(f[n], shape)
    <3>1. n + 1 \in 0 .. shape.waves /\ n + 1 # 0 /\ (n + 1) - 1 = n
      OBVIOUS
    <3>2. f[n + 1] = AddCuts(f[(n + 1) - 1], shape)
      BY <1>1, <3>1 DEF IsTake
    <3> QED BY <3>1, <3>2
  <2>2. /\ \A s \in f[n], m \in Nat : Fit(s.mask, m) <=> Fit(cu.sregMask, n + m)
        /\ Fit(cu.sregMask, n) => f[n] # {}
    BY <1>3
  <2>3. ASSUME NEW t \in f[n + 1], NEW m \in Nat
        PROVE  Fit(t.mask, m) <=> Fit(cu.sregMask, (n + 1) + m)
    <3>1. PICK s \in f[n] : \E o \in NextRegion(s.mask, SRegUnits, shape.sregs) :
            t = [mask |-> s.mask \cup G(o), at |-> Append(s.at, o)]
      BY <2>1 DEF AddCuts
    <3>2. PICK o \in NextRegion(s.mask, SRegUnits, shape.sregs) :
            t = [mask |-> s.mask \cup G(o), at |-> Append(s.at, o)]
      BY <3>1
    <3>3. t.mask = s.mask \cup G(o)
      BY <3>2
    <3>4. Fit(t.mask, m) <=> Fit(s.mask, m + 1)
      BY <1>0, <3>3, TakeFirst, GiveBack
    <3>5. m + 1 \in Nat /\ n + (m + 1) = (n + 1) + m
      OBVIOUS
    <3>6. Fit(s.mask, m + 1) <=> Fit(cu.sregMask, (n + 1) + m)
      <4> HIDE DEF Fit
      <4> QED BY <2>2, <3>5
    <3> QED BY <3>4, <3>6
  <2>4. ASSUME Fit(cu.sregMask, n + 1) PROVE f[n + 1] # {}
    <3>1. Fit(cu.sregMask, n)
      BY <2>4, FitsLess
    <3>2. PICK s \in f[n] : TRUE
      BY <2>2, <3>1
    <3>3. Fit(s.mask, 1)
      <4> HIDE DEF Fit
      <4> QED BY <2>2, <2>4
    <3>4. NextRegion(s.mask, SRegUnits, shape.sregs) # {}
      <4>1. 0 \in Nat /\ Fit(s.mask, 0 + 1)
        BY <3>3
      <4> QED BY <1>0, <4>1, FirstRegion
    <3>5. PICK o \in NextRegion(s.mask, SRegUnits, shape.sregs) : TRUE
      BY <3>4
    <3>6. [mask |-> s.mask \cup G(o), at |-> Append(s.at, o)] \in AddCuts(f[n], shape)
      <4>1. [mask |-> s.mask \cup G(o), at |-> Append(s.at, o)]
              \in {[mask |-> s.mask \cup G(q), at |-> Append(s.at, q)] :
                     q \in NextRegion(s.mask, SRegUnits, shape.sregs)}
        OBVIOUS
      <4> QED BY <4>1, Zenon DEF AddCuts
    <3> QED BY <2>1, <3>6
  <2> QED BY <2>3, <2>4
<1>4. shape.waves \in T
  <2> HIDE DEF T
  <2> QED BY <1>2, <1>3, Induction
<1>5. ASSUME SGPRs(cu, shape) # {} PROVE Fit(cu.sregMask, shape.waves)
  <2>1. PICK s \in f[shape.waves] : TRUE
    BY <1>1, <1>5
  <2>2. Fit(s.mask, 0)
    BY FitsNone
  <2>3. shape.waves + 0 = shape.waves /\ 0 \in Nat
    OBVIOUS
  <2> HIDE DEF Fit
  <2> QED BY <1>4, <2>2, <2>3
<1> HIDE DEF Fit
<1>6. Fit(cu.sregMask, shape.waves) => SGPRs(cu, shape) # {}
  BY <1>1, <1>4
<1> QED BY <1>5, <1>6 DEF Fit

\* The same for the local data share, which the group has one region of.
LEMMA LDSFits ==
  ASSUME NEW mask, NEW size \in Nat, NEW length \in Nat
  PROVE  NextRegion(mask, size, length) # {} <=> Fits(mask, size, length, 1)
<1>1. 0 \in Nat /\ 0 + 1 = 1
  OBVIOUS
<1>2. ASSUME NEW o \in NextRegion(mask, size, length) PROVE Fits(mask, size, length, 1)
  <2>1. Fits(mask \cup Region(o, length), size, length, 0)
    BY FitsNone
  <2> QED BY <1>1, <2>1, GiveBack
<1>3. Fits(mask, size, length, 1) => NextRegion(mask, size, length) # {}
  BY <1>1, FirstRegion
<1> QED BY <1>2, <1>3
\* Every SIMD is among those a wave looks at.
LEMMA SIMDAtAll ==
  ASSUME NEW st, st.next \in SIMD, NEW s \in SIMD
  PROVE  \E j \in Tries : SIMDAt(st, j) = s
<1>1. NumSIMD \in Nat \ {0} /\ st.next \in Nat /\ s \in Nat /\ st.next < NumSIMD /\ s < NumSIMD
  BY UnitsAssumption DEF SIMD
<1>2. ASSUME NEW x \in Nat, NEW y \in Nat, x < y PROVE x % y = x /\ (x + y) % y = x
  BY <1>2, Z3
<1>3. CASE st.next <= s
  <2>1. s - st.next \in Tries /\ st.next + (s - st.next) = s
    BY <1>1, <1>3 DEF Tries
  <2>2. SIMDAt(st, s - st.next) = s
    BY <1>1, <1>2, <2>1 DEF SIMDAt
  <2> QED BY <2>1, <2>2
<1>4. CASE s < st.next
  <2>1. s - st.next + NumSIMD \in Tries /\ st.next + (s - st.next + NumSIMD) = s + NumSIMD
    BY <1>1, <1>4 DEF Tries
  <2>2. SIMDAt(st, s - st.next + NumSIMD) = s
    BY <1>1, <1>2, <2>1 DEF SIMDAt
  <2> QED BY <2>1, <2>2
<1> QED BY <1>1, <1>3, <1>4

\* A wave without a place finds every SIMD full.
LEMMA NoSeat ==
  ASSUME NEW cu, NEW shape, NEW st, st.next \in SIMD, WaveSeats(cu, shape, st) = {}, NEW s \in SIMD
  PROVE  \/ ~ (cu.wfPoolFreeCount[s] > st.used[s])
         \/ NextRegion(st.masks[s], VRegUnits, shape.vregs) = {}
<1> DEFINE S == {n \in Tries : Gaps(cu, shape, st, n) # {}}
<1>1. S = {}
  <2> SUFFICES ASSUME S # {} PROVE FALSE
    OBVIOUS
  <2>1. S \in SUBSET Nat
    BY UnitsAssumption DEF Tries
  <2>2. \A n \in S : n \in Tries /\ Gaps(cu, shape, st, n) # {}
    OBVIOUS
  <2>3. \A n \in Tries : n \notin S => Gaps(cu, shape, st, n) = {}
    OBVIOUS
  <2> HIDE DEF S
  <2>4. PICK n \in S : \A m \in S : n <= m
    BY <2>1, SmallestNat
  <2>5. \A i \in 0 .. n - 1 : Gaps(cu, shape, st, i) = {}
    <3> SUFFICES ASSUME NEW i \in 0 .. n - 1 PROVE Gaps(cu, shape, st, i) = {}
      OBVIOUS
    <3>1. n \in Tries /\ n \in Nat /\ NumSIMD \in Nat
      BY <2>1, <2>2, UnitsAssumption
    <3>2. i \in Tries /\ i < n /\ i \in Nat
      BY <3>1 DEF Tries
    <3>3. i \notin S
      BY <2>4, <3>1, <3>2
    <3> QED BY <2>3, <3>2, <3>3
  <2>6. PICK o \in Gaps(cu, shape, st, n) : TRUE
    BY <2>2
  <2>7. n \in Tries
    BY <2>2
  <2>8. Seat(shape, st, SIMDAt(st, n), o) \in WaveSeats(cu, shape, st)
    BY <2>5, <2>7 DEF WaveSeats
  <2> QED BY <2>8
<1>2. PICK j \in Tries : SIMDAt(st, j) = s
  BY SIMDAtAll
<1>3. Gaps(cu, shape, st, j) = {}
  BY <1>1
<1> HIDE DEF S
<1> QED BY <1>2, <1>3 DEF Gaps

\* The first n waves cost every SIMD one region each, and if one of them got no
\* place, the next one gets none either.
Filled(cu, shape, st, n) ==
  /\ \A s \in SIMD, m \in Nat :
       Fits(st.masks[s], VRegUnits, shape.vregs, m)
         <=> Fits(cu.vregMasks[s], VRegUnits, shape.vregs, st.used[s] + m)
  /\ \/ Len(st.at) = n
     \/ Len(st.at) < n /\ WaveSeats(cu, shape, st) = {}

LEMMA FilledMore ==
  ASSUME NEW cu, cu.wfPoolFreeCount \in [SIMD -> Nat], NEW shape, shape.vregs \in Nat,
         NEW st, NEW n \in Nat, Seats(cu, shape, st, n), Filled(cu, shape, st, n),
         NEW j \in Tries, NEW o \in Gaps(cu, shape, st, j), NEW t, t = Seat(shape, st, SIMDAt(st, j), o),
         t \in WaveSeats(cu, shape, st)
  PROVE  Filled(cu, shape, t, n + 1)
<1> DEFINE s == SIMDAt(st, j)
           Fit(mask, m) == Fits(mask, VRegUnits, shape.vregs, m)
<1>1. s \in SIMD /\ VRegUnits \in Nat
  <2>1. j \in Nat /\ st.next \in SIMD
    BY UnitsAssumption DEF Tries, Seats
  <2> QED BY <2>1, SIMDAtType, UnitsAssumption
<1>2. o \in NextRegion(st.masks[s], VRegUnits, shape.vregs)
  BY DEF Gaps
<1>3. /\ t.masks = [st.masks EXCEPT ![s] = @ \cup Region(o, shape.vregs)]
      /\ t.used = [st.used EXCEPT ![s] = @ + 1]
      /\ t.at = Append(st.at, [SIMDID |-> s, VGPR |-> o])
  BY DEF Seat
<1>4. st.at \in Seq(Place) /\ st.used \in [SIMD -> Nat] /\ st.masks \in [SIMD -> SUBSET Nat]
  BY DEF Seats
<1>5. Len(t.at) = n + 1
  <2>1. Len(st.at) = n
    BY DEF Filled
  <2> QED BY <1>3, <1>4, <2>1
<1>6. \A v \in SIMD, m \in Nat : Fit(st.masks[v], m) <=> Fit(cu.vregMasks[v], st.used[v] + m)
  BY DEF Filled
<1>7. Len(t.at) = n + 1 => \/ Len(t.at) = n + 1
                           \/ Len(t.at) < n + 1 /\ WaveSeats(cu, shape, t) = {}
  OBVIOUS
<1>8. ASSUME NEW v \in SIMD, NEW m \in Nat
      PROVE  Fit(t.masks[v], m) <=> Fit(cu.vregMasks[v], t.used[v] + m)
  <2>1. CASE v = s
    <3>1. t.masks[v] = st.masks[s] \cup Region(o, shape.vregs) /\ t.used[v] = st.used[s] + 1
      <4> HIDE DEF s
      <4> QED BY <1>1, <1>3, <1>4, <2>1
    <3>2. Fit(t.masks[v], m) <=> Fit(st.masks[s], m + 1)
      BY <1>1, <1>2, <3>1, TakeFirst, GiveBack
    <3>3. st.used[s] \in Nat
      BY <1>1, <1>4
    <3> HIDE DEF Fit, s
    <3>4. m + 1 \in Nat /\ st.used[s] + (m + 1) = t.used[v] + m
      BY <3>1, <3>3
    <3>5. Fit(st.masks[s], m + 1) <=> Fit(cu.vregMasks[s], st.used[s] + (m + 1))
      BY <1>1, <1>6, <3>4
    <3> QED BY <2>1, <3>2, <3>4, <3>5
  <2>2. CASE v # s
    <3>1. t.masks[v] = st.masks[v] /\ t.used[v] = st.used[v]
      <4> HIDE DEF s
      <4> QED BY <1>3, <1>4, <2>2
    <3> HIDE DEF Fit, s
    <3> QED BY <1>6, <3>1
  <2> QED BY <2>1, <2>2
<1> QED BY <1>5, <1>7, <1>8 DEF Filled

LEMMA SeatsFilled ==
  ASSUME NEW cu, cu.wfPoolFreeCount \in [SIMD -> Nat], cu.vregMasks \in [SIMD -> SUBSET Nat],
         cu.nextSIMD \in SIMD, NEW shape, shape.waves \in Nat, shape.vregs \in Nat,
         NEW st \in MatchWfWithSIMDs(cu, shape)
  PROVE  Seats(cu, shape, st, shape.waves) /\ Filled(cu, shape, st, shape.waves)
<1>1. PICK f : IsPut(f, cu, shape, shape.waves) /\ MatchWfWithSIMDs(cu, shape) = f[shape.waves]
  BY MatchIsPut
<1> DEFINE T == {n \in Nat : n <= shape.waves =>
                   \A s \in f[n] : Seats(cu, shape, s, n) /\ Filled(cu, shape, s, n)}
<1>2. 0 \in T
  <2>1. f[0] = {Seating(cu)}
    BY <1>1 DEF IsPut
  <2> DEFINE s == Seating(cu)
  <2>2. Seats(cu, shape, s, 0)
    BY SeatsStart
  <2>3. Filled(cu, shape, s, 0)
    <3>1. s.masks = cu.vregMasks /\ s.used = [v \in SIMD |-> 0] /\ s.at = <<>>
      BY DEF Seating
    <3> HIDE DEF s
    <3>2. Len(s.at) = 0
      BY <3>1
    <3>3. \A v \in SIMD, m \in Nat : s.used[v] + m = m
      BY <3>1
    <3> QED BY <3>1, <3>2, <3>3 DEF Filled
  <2> QED BY <2>1, <2>2, <2>3
<1>3. ASSUME NEW n \in Nat, n \in T PROVE n + 1 \in T
  <2> SUFFICES ASSUME n + 1 <= shape.waves, NEW t \in f[n + 1]
               PROVE  Seats(cu, shape, t, n + 1) /\ Filled(cu, shape, t, n + 1)
    OBVIOUS
  <2>1. f[n + 1] = SeatOne(f[n], cu, shape)
    <3>1. n + 1 \in 0 .. shape.waves /\ n + 1 # 0 /\ (n + 1) - 1 = n
      OBVIOUS
    <3>2. f[n + 1] = SeatOne(f[(n + 1) - 1], cu, shape)
      BY <1>1, <3>1 DEF IsPut
    <3> QED BY <3>1, <3>2
  <2>2. \A s \in f[n] : Seats(cu, shape, s, n) /\ Filled(cu, shape, s, n)
    BY <1>3
  <2>3. PICK s \in f[n] : \/ t = s /\ WaveSeats(cu, shape, s) = {}
                          \/ t \in WaveSeats(cu, shape, s)
    BY <2>1 DEF SeatOne
  <2>4. Seats(cu, shape, s, n) /\ Filled(cu, shape, s, n)
    BY <2>2
  <2>5. CASE t = s /\ WaveSeats(cu, shape, s) = {}
    <3>1. s.at \in Seq(Place) /\ Len(s.at) <= n /\ Len(s.at) \in Nat
      BY <2>4 DEF Seats
    <3>2. Len(s.at) <= n + 1 /\ Len(s.at) < n + 1
      BY <3>1
    <3>3. Seats(cu, shape, s, n + 1)
      BY <2>4, <3>2 DEF Seats
    <3>4. Filled(cu, shape, s, n + 1)
      BY <2>4, <2>5, <3>2 DEF Filled
    <3> QED BY <2>5, <3>3, <3>4
  <2>6. CASE t \in WaveSeats(cu, shape, s)
    <3>1. PICK j \in Tries : \E o \in Gaps(cu, shape, s, j) : t = Seat(shape, s, SIMDAt(s, j), o)
      BY <2>6 DEF WaveSeats
    <3>2. PICK o \in Gaps(cu, shape, s, j) : t = Seat(shape, s, SIMDAt(s, j), o)
      BY <3>1
    <3>3. j \in Nat
      BY UnitsAssumption DEF Tries
    <3>4. Seats(cu, shape, t, n + 1)
      BY <2>4, <3>2, <3>3, SeatsMore
    <3>5. Filled(cu, shape, t, n + 1)
      BY <2>4, <2>6, <3>2, FilledMore
    <3> QED BY <3>4, <3>5
  <2> QED BY <2>3, <2>5, <2>6
<1>4. shape.waves \in T
  <2> HIDE DEF T
  <2> QED BY <1>2, <1>3, Induction
<1> QED BY <1>1, <1>4
\* The members of C that h sends to s.
Fibre(C, h, s) == {x \in C : h[x] = s}

\* A set that has no more members than another on any SIMD has no more members.
LEMMA NotMore ==
  ASSUME NEW A, NEW B, IsFiniteSet(A), IsFiniteSet(B), NEW f, NEW g,
         \A x \in A : f[x] \in SIMD, \A x \in B : g[x] \in SIMD,
         \A s \in SIMD : Cardinality(Fibre(A, f, s)) <= Cardinality(Fibre(B, g, s))
  PROVE  Cardinality(A) <= Cardinality(B)
<1> DEFINE Below(C, h, n) == {x \in C : h[x] < n}
           T == {n \in Nat : n <= NumSIMD => Cardinality(Below(A, f, n)) <= Cardinality(Below(B, g, n))}
<1>0. NumSIMD \in Nat /\ \A n : n \in SIMD <=> n \in Nat /\ n < NumSIMD
  BY UnitsAssumption DEF SIMD
<1>1. 0 \in T
  <2>1. Below(A, f, 0) = {} /\ Below(B, g, 0) = {}
    BY <1>0
  <2>2. Cardinality({}) <= Cardinality({})
    BY FS_EmptySet
  <2> QED BY <2>1, <2>2
<1>2. ASSUME NEW C, IsFiniteSet(C), NEW h, \A x \in C : h[x] \in SIMD, NEW n \in Nat
      PROVE  /\ Cardinality(Below(C, h, n + 1)) = Cardinality(Below(C, h, n)) + Cardinality(Fibre(C, h, n))
             /\ Cardinality(Below(C, h, n)) \in Nat /\ Cardinality(Fibre(C, h, n)) \in Nat
  <2> DEFINE S == Below(C, h, n)
             R == Fibre(C, h, n)
  <2>1. IsFiniteSet(S) /\ IsFiniteSet(R)
    <3>1. S \subseteq C /\ R \subseteq C
      BY DEF Fibre
    <3> HIDE DEF S, R
    <3> QED BY <1>2, <3>1, FS_Subset
  <2>2. S \cap R = {} /\ Below(C, h, n + 1) = S \cup R
    BY <1>0, <1>2 DEF Fibre
  <2>3. Cardinality(S \cap R) = 0
    BY <2>2, FS_EmptySet
  <2> HIDE DEF S, R
  <2>4. Cardinality(S) \in Nat /\ Cardinality(R) \in Nat
    BY <2>1, FS_CardinalityType
  <2>5. Cardinality(S \cup R) = Cardinality(S) + Cardinality(R) - Cardinality(S \cap R)
    BY <2>1, FS_Union
  <2>6. Cardinality(S \cup R) = Cardinality(S) + Cardinality(R)
    BY <2>3, <2>4, <2>5
  <2> HIDE DEF Below
  <2> QED BY <2>2, <2>4, <2>6 DEF S, R
<1>3. ASSUME NEW n \in Nat, n \in T PROVE n + 1 \in T
  <2> SUFFICES ASSUME n + 1 <= NumSIMD
               PROVE  Cardinality(Below(A, f, n + 1)) <= Cardinality(Below(B, g, n + 1))
    OBVIOUS
  <2>1. Cardinality(Below(A, f, n)) <= Cardinality(Below(B, g, n))
    BY <1>0, <1>3
  <2>2. Cardinality(Fibre(A, f, n)) <= Cardinality(Fibre(B, g, n))
    <3>1. n \in SIMD
      BY <1>0
    <3> QED BY <3>1
  <2>3. /\ Cardinality(Below(A, f, n + 1)) = Cardinality(Below(A, f, n)) + Cardinality(Fibre(A, f, n))
        /\ Cardinality(Below(A, f, n)) \in Nat /\ Cardinality(Fibre(A, f, n)) \in Nat
    <3> HIDE DEF Below
    <3> QED BY <1>2
  <2>4. /\ Cardinality(Below(B, g, n + 1)) = Cardinality(Below(B, g, n)) + Cardinality(Fibre(B, g, n))
        /\ Cardinality(Below(B, g, n)) \in Nat /\ Cardinality(Fibre(B, g, n)) \in Nat
    <3> HIDE DEF Below
    <3> QED BY <1>2
  <2> HIDE DEF Below
  <2> QED BY <2>1, <2>2, <2>3, <2>4
<1>4. NumSIMD \in T
  <2> HIDE DEF T
  <2> QED BY <1>0, <1>1, <1>3, Induction
<1>5. Below(A, f, NumSIMD) = A /\ Below(B, g, NumSIMD) = B
  BY <1>0
<1> HIDE DEF Below
<1> QED BY <1>0, <1>4, <1>5

\* What CanHold asks of the SIMDs.
Shares(cu, shape, share) ==
  /\ \A s \in SIMD :
       /\ share[s] <= cu.wfPoolFreeCount[s]
       /\ share[s] <= Room(cu.vregMasks[s], VRegUnits, shape.vregs, shape.waves)
  /\ \E order \in [1 .. shape.waves -> SIMD] :
       \A s \in SIMD : share[s] = Cardinality({i \in 1 .. shape.waves : order[i] = s})

\* When all waves got a place, theirs is a way to place them.
LEMMA PlacedIsShare ==
  ASSUME NEW cu, cu.wfPoolFreeCount \in [SIMD -> Nat], NEW shape, shape.waves \in Nat, shape.vregs \in Nat,
         NEW st, Seats(cu, shape, st, shape.waves), Filled(cu, shape, st, shape.waves),
         ~ (Len(st.at) < shape.waves)
  PROVE  \E share \in [SIMD -> 0 .. shape.waves] : Shares(cu, shape, share)
<1> DEFINE n == shape.waves
<1>0. VRegUnits \in Nat
  BY UnitsAssumption
<1>1. st.at \in Seq(Place) /\ DOMAIN st.at = 1 .. n
  <2>1. st.at \in Seq(Place) /\ Len(st.at) <= n
    BY DEF Seats
  <2> QED BY <2>1
<1>2. /\ st.used \in [SIMD -> Nat]
      /\ \A s \in SIMD : st.used[s] = Cardinality(OnSIMD(st.at, s)) /\ st.used[s] <= cu.wfPoolFreeCount[s]
  BY DEF Seats
<1>3. \A i \in 1 .. n : st.at[i].SIMDID \in SIMD
  <2> SUFFICES ASSUME NEW i \in 1 .. n PROVE st.at[i].SIMDID \in SIMD
    OBVIOUS
  <2>1. st.at[i] \in Place
    BY <1>1
  <2> QED BY <2>1 DEF Place
<1>4. \A s \in SIMD : st.used[s] \in 0 .. n
  <2> SUFFICES ASSUME NEW s \in SIMD PROVE st.used[s] \in 0 .. n
    OBVIOUS
  <2>1. OnSIMD(st.at, s) \subseteq 1 .. n
    BY <1>1 DEF OnSIMD
  <2>2. IsFiniteSet(1 .. n) /\ Cardinality(1 .. n) = n
    <3>1. 1 \in Int /\ n \in Int
      OBVIOUS
    <3>2. IsFiniteSet(1 .. n) /\ Cardinality(1 .. n) = IF 1 > n THEN 0 ELSE n - 1 + 1
      BY <3>1, FS_Interval
    <3> QED BY <3>2
  <2>3. Cardinality(OnSIMD(st.at, s)) <= n
    BY <2>1, <2>2, FS_Subset
  <2> QED BY <1>2, <2>3
<1>5. st.used \in [SIMD -> 0 .. n]
  BY <1>2, <1>4
<1>6. \A s \in SIMD : st.used[s] <= Room(cu.vregMasks[s], VRegUnits, shape.vregs, n)
  <2> SUFFICES ASSUME NEW s \in SIMD
               PROVE  st.used[s] <= Room(cu.vregMasks[s], VRegUnits, shape.vregs, n)
    OBVIOUS
  <2>1. Fits(st.masks[s], VRegUnits, shape.vregs, 0)
    BY FitsNone
  <2>2. 0 \in Nat /\ st.used[s] + 0 = st.used[s]
    BY <1>2
  <2>3. Fits(cu.vregMasks[s], VRegUnits, shape.vregs, st.used[s])
    BY <2>1, <2>2 DEF Filled
  <2> QED BY <1>0, <1>4, <2>3, RoomIs
<1>7. \E order \in [1 .. n -> SIMD] :
        \A s \in SIMD : st.used[s] = Cardinality({i \in 1 .. n : order[i] = s})
  <2> DEFINE order == [i \in 1 .. n |-> st.at[i].SIMDID]
  <2>1. order \in [1 .. n -> SIMD]
    BY <1>3
  <2>2. \A s \in SIMD : {i \in 1 .. n : order[i] = s} = OnSIMD(st.at, s)
    BY <1>1 DEF OnSIMD
  <2> HIDE DEF order
  <2> QED BY <1>2, <2>1, <2>2
<1>8. Shares(cu, shape, st.used)
  BY <1>2, <1>6, <1>7 DEF Shares
<1> QED BY <1>5, <1>8

\* When a wave got none, no way to place them has more waves on any SIMD.
LEMMA UnplacedIsFull ==
  ASSUME NEW cu, cu.wfPoolFreeCount \in [SIMD -> Nat], NEW shape, shape.waves \in Nat, shape.vregs \in Nat,
         NEW st, Seats(cu, shape, st, shape.waves), Filled(cu, shape, st, shape.waves),
         Len(st.at) < shape.waves,
         NEW share \in [SIMD -> 0 .. shape.waves], Shares(cu, shape, share)
  PROVE  FALSE
<1> DEFINE n == shape.waves
<1>0. VRegUnits \in Nat
  BY UnitsAssumption
<1>1. st.at \in Seq(Place) /\ Len(st.at) \in Nat /\ DOMAIN st.at = 1 .. Len(st.at) /\ st.next \in SIMD
  BY DEF Seats
<1>2. /\ st.used \in [SIMD -> Nat]
      /\ \A s \in SIMD : st.used[s] = Cardinality(OnSIMD(st.at, s))
  BY DEF Seats
<1>3. WaveSeats(cu, shape, st) = {}
  BY <1>1 DEF Filled
<1>4. ASSUME NEW s \in SIMD PROVE share[s] <= st.used[s]
  <2>1. /\ share[s] \in 0 .. n /\ share[s] <= cu.wfPoolFreeCount[s]
        /\ share[s] <= Room(cu.vregMasks[s], VRegUnits, shape.vregs, n)
    BY DEF Shares
  <2>2. Fits(cu.vregMasks[s], VRegUnits, shape.vregs, share[s])
    BY <1>0, <2>1, RoomIs
  <2>3. st.used[s] \in Nat /\ share[s] \in Nat /\ cu.wfPoolFreeCount[s] \in Nat
    BY <1>2, <2>1
  <2> SUFFICES ASSUME st.used[s] < share[s] PROVE FALSE
    BY <2>3
  <2>4. Fits(cu.vregMasks[s], VRegUnits, shape.vregs, st.used[s] + 1)
    <3>1. st.used[s] + 1 \in Nat /\ st.used[s] + 1 <= share[s]
      BY <2>3
    <3> QED BY <2>2, <2>3, <3>1, FitsFewer
  <2>5. Fits(st.masks[s], VRegUnits, shape.vregs, 1)
    BY <2>4 DEF Filled
  <2>6. NextRegion(st.masks[s], VRegUnits, shape.vregs) # {}
    BY <1>0, <2>5, LDSFits
  <2>7. ~ (cu.wfPoolFreeCount[s] > st.used[s])
    BY <1>1, <1>3, <2>6, NoSeat
  <2> QED BY <2>1, <2>3, <2>7
<1>5. PICK order \in [1 .. n -> SIMD] :
        \A s \in SIMD : share[s] = Cardinality({i \in 1 .. n : order[i] = s})
  BY DEF Shares
<1> DEFINE at == [i \in 1 .. Len(st.at) |-> st.at[i].SIMDID]
<1>6. \A i \in 1 .. Len(st.at) : at[i] \in SIMD
  <2> SUFFICES ASSUME NEW i \in 1 .. Len(st.at) PROVE at[i] \in SIMD
    OBVIOUS
  <2>1. st.at[i] \in Place
    BY <1>1
  <2> QED BY <2>1 DEF Place
<1>7. \A s \in SIMD : {i \in 1 .. Len(st.at) : at[i] = s} = OnSIMD(st.at, s)
  BY <1>1 DEF OnSIMD
<1> HIDE DEF at
<1>8. \A s \in SIMD : Cardinality({i \in 1 .. n : order[i] = s}) <= Cardinality({i \in 1 .. Len(st.at) : at[i] = s})
  BY <1>2, <1>4, <1>5, <1>7
<1>9. \A k \in Nat : IsFiniteSet(1 .. k) /\ Cardinality(1 .. k) = k
  <2> SUFFICES ASSUME NEW k \in Nat PROVE IsFiniteSet(1 .. k) /\ Cardinality(1 .. k) = k
    OBVIOUS
  <2>1. 1 \in Int /\ k \in Int
    OBVIOUS
  <2>2. IsFiniteSet(1 .. k) /\ Cardinality(1 .. k) = IF 1 > k THEN 0 ELSE k - 1 + 1
    BY <2>1, FS_Interval
  <2> QED BY <2>2
<1>10. \A i \in 1 .. n : order[i] \in SIMD
  OBVIOUS
<1>11. Cardinality(1 .. n) <= Cardinality(1 .. Len(st.at))
  <2> DEFINE A == 1 .. n
             B == 1 .. Len(st.at)
  <2>1. IsFiniteSet(A) /\ IsFiniteSet(B)
    BY <1>1, <1>9
  <2>2. (\A x \in A : order[x] \in SIMD) /\ (\A x \in B : at[x] \in SIMD)
    BY <1>6, <1>10
  <2>3. \A s \in SIMD : Cardinality(Fibre(A, order, s)) <= Cardinality(Fibre(B, at, s))
    BY <1>8 DEF Fibre
  <2> HIDE DEF A, B
  <2>4. Cardinality(A) <= Cardinality(B)
    BY <2>1, <2>2, <2>3, NotMore
  <2> QED BY <2>4 DEF A, B
<1> QED BY <1>1, <1>9, <1>11

\* A group is refused exactly if there is no way to place it.
LEMMA FitIsPossible ==
  ASSUME NEW cu, BookType(cu), NEW wg, NEW shape,
         shape \in [waves : Nat \ {0}, sregs : Nat, lds : Nat, vregs : Nat]
  PROVE  ReserveResourceForWG(cu, wg, shape).ok <=> CanHold(cu, shape)
<1> DEFINE r == ReserveResourceForWG(cu, wg, shape)
           n == shape.waves
<1>1. /\ n \in Nat /\ shape.sregs \in Nat /\ shape.lds \in Nat /\ shape.vregs \in Nat
      /\ SRegUnits \in Nat /\ LDSUnits \in Nat /\ VRegUnits \in Nat
  BY UnitsAssumption
<1>2. /\ cu.wfPoolFreeCount \in [SIMD -> Nat] /\ cu.vregMasks \in [SIMD -> SUBSET Nat]
      /\ cu.nextSIMD \in SIMD
  BY DEF BookType
<1>3. Room(cu.sregMask, SRegUnits, shape.sregs, n) = n <=> SGPRs(cu, shape) # {}
  <2>1. Fits(cu.sregMask, SRegUnits, shape.sregs, n) <=> n <= Room(cu.sregMask, SRegUnits, shape.sregs, n)
    <3>1. n \in 0 .. n
      BY <1>1
    <3> QED BY <1>1, <3>1, RoomIs
  <2>2. Room(cu.sregMask, SRegUnits, shape.sregs, n) \in 0 .. n
    BY <1>1, RoomIs
  <2>3. SGPRs(cu, shape) # {} <=> Fits(cu.sregMask, SRegUnits, shape.sregs, n)
    BY <1>1, SGPRsFit
  <2> QED BY <1>1, <2>1, <2>2, <2>3
<1>4. Room(cu.ldsMask, LDSUnits, shape.lds, 1) = 1 <=> NextRegion(cu.ldsMask, LDSUnits, shape.lds) # {}
  <2>1. Fits(cu.ldsMask, LDSUnits, shape.lds, 1) <=> 1 <= Room(cu.ldsMask, LDSUnits, shape.lds, 1)
    <3>1. 1 \in 0 .. 1 /\ 1 \in Nat
      OBVIOUS
    <3> QED BY <1>1, <3>1, RoomIs
  <2>2. Room(cu.ldsMask, LDSUnits, shape.lds, 1) \in 0 .. 1
    BY <1>1, RoomIs
  <2>3. NextRegion(cu.ldsMask, LDSUnits, shape.lds) # {} <=> Fits(cu.ldsMask, LDSUnits, shape.lds, 1)
    BY <1>1, LDSFits
  <2> QED BY <2>1, <2>2, <2>3
<1>5. CanHold(cu, shape)
        <=> /\ Room(cu.sregMask, SRegUnits, shape.sregs, n) = n
            /\ Room(cu.ldsMask, LDSUnits, shape.lds, 1) = 1
            /\ \E share \in [SIMD -> 0 .. n] : Shares(cu, shape, share)
  BY Zenon DEF CanHold, Shares
<1>6. MatchWfWithSIMDs(cu, shape) # {}
  BY <1>1, <1>2, SeatsAre
<1>7. ASSUME /\ r = [ok |-> FALSE, cu |-> cu]
             /\ SGPRs(cu, shape) = {} \/ NextRegion(cu.ldsMask, LDSUnits, shape.lds) = {}
      PROVE  r.ok <=> CanHold(cu, shape)
  <2>1. r.ok = FALSE
    BY <1>7
  <2> HIDE DEF r
  <2>2. ~ CanHold(cu, shape)
    BY <1>3, <1>4, <1>5, <1>7
  <2> QED BY <2>1, <2>2
<1>8. ASSUME NEW sgprs \in SGPRs(cu, shape), NEW lds \in NextRegion(cu.ldsMask, LDSUnits, shape.lds),
             NEW simds \in MatchWfWithSIMDs(cu, shape), r = Outcome(cu, wg, shape, sgprs, lds, simds)
      PROVE  r.ok <=> CanHold(cu, shape)
  <2>1. Seats(cu, shape, simds, n) /\ Filled(cu, shape, simds, n)
    BY <1>1, <1>2, SeatsFilled
  <2>2. CASE Len(simds.at) < n
    <3>1. r.ok = FALSE
      BY <1>8, <2>2 DEF Outcome
    <3>2. ~ \E share \in [SIMD -> 0 .. n] : Shares(cu, shape, share)
      BY <1>1, <1>2, <2>1, <2>2, UnplacedIsFull
    <3> HIDE DEF r
    <3> QED BY <1>5, <3>1, <3>2
  <2>3. CASE ~ (Len(simds.at) < n)
    <3>1. r.ok = TRUE
      BY <1>8, <2>3 DEF Outcome
    <3>2. \E share \in [SIMD -> 0 .. n] : Shares(cu, shape, share)
      BY <1>1, <1>2, <2>1, <2>3, PlacedIsShare
    <3>3. SGPRs(cu, shape) # {} /\ NextRegion(cu.ldsMask, LDSUnits, shape.lds) # {}
      OBVIOUS
    <3> HIDE DEF r
    <3> QED BY <1>3, <1>4, <1>5, <3>1, <3>2, <3>3
  <2> QED BY <2>2, <2>3
<1>9. \/ /\ r = [ok |-> FALSE, cu |-> cu]
         /\ SGPRs(cu, shape) = {} \/ NextRegion(cu.ldsMask, LDSUnits, shape.lds) = {}
      \/ \E sgprs \in SGPRs(cu, shape), lds \in NextRegion(cu.ldsMask, LDSUnits, shape.lds),
            simds \in MatchWfWithSIMDs(cu, shape) : r = Outcome(cu, wg, shape, sgprs, lds, simds)
  BY <1>6, OutcomeIs
<1> HIDE DEF r
<1>10. r.ok <=> CanHold(cu, shape)
  BY <1>7, <1>8, <1>9
<1> QED BY <1>10 DEF r

\* A compute unit refuses a work-group only if there is no way to place it: the
\* code takes the first region and the first SIMD, and no other choice could
\* have placed more waves.
THEOREM RefusalMeansFull == Spec => []RefusesOnlyWhenFull
<1>1. BooksInv => RefusesOnlyWhenFull
  <2> SUFFICES ASSUME BooksInv, NEW c \in CU, NEW k \in Kernel
               PROVE  ReserveResourceForWG(cuPool[c], <<k, 0>>, Shape[k]).ok <=> CanHold(cuPool[c], Shape[k])
    BY DEF RefusesOnlyWhenFull
  <2>1. BookType(cuPool[c])
    BY DEF BooksInv, Book
  <2>2. Shape[k] \in [waves : Nat \ {0}, sregs : Nat, lds : Nat, vregs : Nat]
    BY ShapeAssumption
  <2> QED BY <2>1, <2>2, FitIsPossible
<1> QED BY <1>1, BooksHold, PTL
=============================================================================
