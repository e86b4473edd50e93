------------------------- MODULE ComputeUnitProofs -------------------------
(***************************************************************************)
(* Proofs about a compute unit, for every number of waves, groups, SIMD    *)
(* units and every set of programs: each wave is in one place, the         *)
(* instruction it issues is the one at its program counter, the counters   *)
(* of outstanding accesses match the accesses, and barriers and waits hold *)
(* back the waves that reach them.                                         *)
(*                                                                         *)
(* The theorems are about every program, with branches and loops of any    *)
(* kind, and the behaviours in which a vector instruction finds room in    *)
(* the in-flight list (VectorRoom) and a wave finds room in the barrier    *)
(* buffer (BarrierRoom); without the first a wave is lost, and without the *)
(* second a wave passes a barrier and meets it again.                      *)
(***************************************************************************)
EXTENDS ComputeUnit, SequenceTheorems, FiniteSetTheorems, WellFoundedInduction,
        FunctionTheorems, TLAPS

-----------------------------------------------------------------------------
(* The invariant.                                                          *)

In(seq, x) == \E i \in DOMAIN seq : seq[i] = x
Once(seq) == \A i, j \in DOMAIN seq : seq[i] = seq[j] => i = j

WaveRecord == [state : State, pc : Nat \ {0}, next : Nat, inst : Nat, fetching : BOOLEAN,
               start : Nat, buf : Seq(Nat), vm : Int, lgkm : Int,
               turns : Nat, smems : Nat, flats : Nat]

\* The identifier of an access, and the access.
Id == Wave \X Nat \X Nat \X Nat
Access == [wave : Wave, at : Nat, last : BOOLEAN, id : Id]

CUType ==
  /\ setup \in Setups
  /\ wf \in [Wave -> WaveRecord]
  /\ pool \subseteq Wave /\ events \subseteq Wave /\ predicted \subseteq Wave
  /\ internalExecuting \in Seq(Wave) /\ barrierBuffer \in Seq(Wave)
  /\ instPipe \in Seq(Wave)
  /\ stage \in [Staged -> [read : Wave \cup {None}, exec : Wave \cup {None},
                           write : Wave \cup {None}]]
  /\ toDecode \in [Decode -> Wave \cup {None}]
  /\ simd \in [SIMD -> Wave \cup {None}]
  /\ inFlight \in [Channel -> Seq(Access)] /\ shadow \in [Channel -> Seq(Access)]
  /\ readBuf \in Seq(Access) /\ transWaiting \in Seq(Access) /\ transPipe \in Seq(Access)
  /\ mem \in [Channel -> Seq(Id)] /\ rsp \in [Channel -> Seq(Id)]
  /\ ctl \in [paused : BOOLEAN, flushing : BOOLEAN, sending : BOOLEAN, handling : BOOLEAN,
              enabled : BOOLEAN, stopNew : BOOLEAN, allPaused : BOOLEAN]
  /\ cp \in [phase : {"run", "flush", "restart"}, msg : {None, "flush", "restart"},
             answer : {None, "flushed", "restarted"}, era : Nat]

\* The places where an instruction can be, and the barrier buffer.
Slot   == (Staged \X {"read", "exec", "write"}) \cup (Decode \X {"at"}) \cup ({"simd"} \X SIMD)
Buffer == {"int", "pipe", "bar"} \X {"in"}
Spot   == Slot \cup Buffer
Bar    == <<"bar", "in">>

InSlot(p) == IF p[1] = "simd" THEN simd[p[2]]
             ELSE IF p[1] \in Staged THEN stage[p[1]][p[2]] ELSE toDecode[p[1]]
Content(p) == IF p[1] = "int" THEN internalExecuting
              ELSE IF p[1] = "pipe" THEN instPipe ELSE barrierBuffer

Occupies(p, w) ==
  IF p[1] \in {"int", "pipe", "bar"} THEN In(Content(p), w) ELSE InSlot(p) = w

\* The instructions that go to a place.
Fits(p, k) ==
  \/ p[1] = "int" /\ Special(k)
  \/ p[1] = "bar" /\ k = "barrier"
  \/ p[1] \in {"pipe", "vmemD"} /\ k = "flat"
  \/ p[1] \in {"simd", "vectorD"} /\ k = "valu"
  \/ p[1] \in {"lds", "ldsD"} /\ k = "lds"
  \/ p[1] = "branch" /\ k = "branch"
  \/ p[1] \in {"scalar", "scalarD"} /\ k \in {"salu", "smem"} /\ (p[2] = "write" => k = "salu")

Doing(w) == KindAt(w, wf[w].inst)

Alone(w, q) == \A p \in Spot : Occupies(p, w) <=> p = q

\* A running wave is in one place, which fits its instruction; one that waits
\* at a barrier is in the buffer; any other is nowhere.
Placed(w) ==
  \/ /\ wf[w].state = "running" /\ w \in pool
     /\ \E q \in Spot \ {Bar} : Fits(q, Doing(w)) /\ Alone(w, q)
  \/ /\ wf[w].state = "barrier" /\ w \in pool
     /\ Doing(w) = "barrier" /\ Alone(w, Bar)
  \/ /\ wf[w].state \notin {"running", "barrier"}
     /\ \A p \in Spot : ~ Occupies(p, w)

PlaceInv ==
  /\ Once(internalExecuting) /\ Once(barrierBuffer) /\ Once(instPipe)
  /\ \A w \in Wave : Placed(w)

\* A wave whose end is predicted or announced is not at work any more.
SampleInv ==
  /\ \A w \in pool : wf[w].state # "dispatching"
  /\ \A w \in pool : wf[w].state = "sampled" => ctl.stopNew
  /\ \A w \in events \cup predicted :
       wf[w].state \in {"completed", "sampled"} \/ (wf[w].state = "ready" /\ ctl.stopNew)

\* The hypotheses: when an instruction of the vector memory unit is looked at,
\* its accesses fit in the list of accesses in flight (otherwise the unit has
\* taken the wave out of its pipeline and forgets it) ...
VectorRoom ==
  instPipe # <<>> /\ transWaiting = <<>>
    => MaxTransactions + Len(inFlight["vector"]) <= InFlightLimit

\* ... and a wave that has to wait at a barrier finds room in the buffer
\* (otherwise it is evaluated again after the barrier has let it pass).
BarrierRoom ==
  \A n \in 1 .. Len(internalExecuting) :
    LET w == internalExecuting[n] IN
    KindAt(w, Evaluated(n - 1).waves[w].inst) = "barrier" 
      => \/ \A v \in Waves(GroupOf[w]) \ {w} : Evaluated(n - 1).waves[v].state = "barrier"
         \/ Len(Evaluated(n - 1).barrier) < BarrierBufferSize

-----------------------------------------------------------------------------
(* Induction, and sequences of waves.                                      *)

\* What holds of 0 and of the successor of each number it holds of, holds of
\* every number.  (From the least element outside the set.)
LEMMA Induction ==
  ASSUME NEW T, 0 \in T, \A n \in Nat : n \in T => n + 1 \in T
  PROVE  Nat \subseteq T
<1> DEFINE R == StrictSubsetOrdering(Nat)
<1> DEFINE U == {1 .. n : n \in Nat \ T}
<1> SUFFICES ASSUME Nat \ T # {} PROVE FALSE
  OBVIOUS
<1>1. IsWellFoundedOn(R, FiniteSubsetsOf(Nat))
  BY FS_StrictSubsetOrderingWellFounded
<1>2. U \subseteq FiniteSubsetsOf(Nat)
  <2> SUFFICES ASSUME NEW n \in Nat \ T PROVE 1 .. n \in FiniteSubsetsOf(Nat)
    OBVIOUS
  <2>1. IsFiniteSet(1 .. n)
    BY FS_Interval
  <2>2. 1 .. n \in SUBSET Nat
    OBVIOUS
  <2> QED BY <2>1, <2>2 DEF FiniteSubsetsOf
<1>3. U # {}
  OBVIOUS
<1>4. PICK x \in U : \A y \in U : ~ (<<y, x>> \in R)
  <2> HIDE DEF R, U
  <2> QED BY <1>1, <1>2, <1>3, WFMin
<1>5. PICK n \in Nat \ T : x = 1 .. n
  BY <1>4
<1>6. n # 0 /\ n - 1 \in Nat /\ (n - 1) + 1 = n
  BY <1>5
<1>7. n - 1 \in T
  <2> SUFFICES ASSUME n - 1 \notin T PROVE FALSE
    OBVIOUS
  <2>1. 1 .. (n - 1) \in U
    BY <1>6
  <2>2. 1 .. (n - 1) \subseteq 1 .. n /\ 1 .. (n - 1) # 1 .. n
    <3>1. n \in 1 .. n /\ n \notin 1 .. (n - 1)
      BY <1>5, <1>6
    <3> QED BY <3>1, <1>5, <1>6
  <2>3. <<1 .. (n - 1), 1 .. n>> \in R
    BY <2>2, <1>5, <1>6 DEF StrictSubsetOrdering
  <2> QED BY <2>1, <2>3, <1>4, <1>5
<1> QED BY <1>5, <1>6, <1>7

LEMMA AppendIn ==
  ASSUME NEW S, NEW s \in Seq(S), NEW e \in S
  PROVE  /\ Append(s, e) \in Seq(S)
         /\ \A x : In(Append(s, e), x) <=> In(s, x) \/ x = e
         /\ Once(s) /\ ~ In(s, e) => Once(Append(s, e))
<1> DEFINE a == Append(s, e)
<1>1. /\ a \in Seq(S) /\ DOMAIN a = 1 .. Len(s) + 1 /\ DOMAIN s = 1 .. Len(s)
      /\ a[Len(s) + 1] = e /\ \A i \in 1 .. Len(s) : a[i] = s[i]
      /\ Len(s) \in Nat
  OBVIOUS
<1> HIDE DEF a
<1>2. \A x : In(a, x) <=> In(s, x) \/ x = e
  BY <1>1 DEF In
<1>3. Once(s) /\ ~ In(s, e) => Once(a)
  BY <1>1 DEF In, Once
<1> QED BY <1>1, <1>2, <1>3 DEF a

LEMMA TailIn ==
  ASSUME NEW S, NEW s \in Seq(S), s # <<>>
  PROVE  /\ Tail(s) \in Seq(S) /\ Head(s) \in S /\ In(s, Head(s))
         /\ Once(s) => /\ Once(Tail(s))
                       /\ \A x : In(Tail(s), x) <=> In(s, x) /\ x # Head(s)
<1> DEFINE t == Tail(s)
<1>1. /\ t \in Seq(S) /\ DOMAIN t = 1 .. Len(s) - 1 /\ DOMAIN s = 1 .. Len(s)
      /\ Head(s) = s[1] /\ Len(s) \in Nat /\ Len(s) >= 1
      /\ \A i \in 1 .. Len(s) - 1 : t[i] = s[i + 1]
  OBVIOUS
<1>2. 1 \in DOMAIN s /\ s[1] \in S
  BY <1>1
<1> HIDE DEF t
<1>3. In(s, Head(s))
  BY <1>1, <1>2 DEF In
<1>4. ASSUME Once(s) PROVE Once(t)
  <2> SUFFICES ASSUME NEW i \in DOMAIN t, NEW j \in DOMAIN t, t[i] = t[j] PROVE i = j
    BY DEF Once
  <2>1. i + 1 \in DOMAIN s /\ j + 1 \in DOMAIN s /\ s[i + 1] = s[j + 1]
    BY <1>1
  <2>2. i + 1 = j + 1
    BY <2>1, <1>4 DEF Once
  <2> QED BY <2>2, <1>1
<1>5. ASSUME Once(s), NEW x PROVE In(t, x) <=> In(s, x) /\ x # Head(s)
  <2>1. In(t, x) => In(s, x) /\ x # Head(s)
    <3> SUFFICES ASSUME NEW i \in DOMAIN t, t[i] = x PROVE In(s, x) /\ x # Head(s)
      BY DEF In
    <3>1. i + 1 \in DOMAIN s /\ s[i + 1] = x /\ i + 1 # 1
      BY <1>1
    <3> QED BY <3>1, <1>1, <1>2, <1>5 DEF In, Once
  <2>2. In(s, x) /\ x # Head(s) => In(t, x)
    <3> SUFFICES ASSUME NEW i \in DOMAIN s, s[i] = x, x # Head(s) PROVE In(t, x)
      BY DEF In
    <3>1. i - 1 \in DOMAIN t /\ t[i - 1] = s[i]
      BY <1>1
    <3> QED BY <3>1 DEF In
  <2> QED BY <2>1, <2>2
<1> QED BY <1>1, <1>2, <1>3, <1>4, <1>5 DEF t

LEMMA EmptyIn == Once(<<>>) /\ \A x : ~ In(<<>>, x)
  BY DEF Once, In

IsKept(f, seq, ws, n) ==
  f = [i \in 0 .. n |-> IF i = 0 THEN <<>>
                        ELSE IF seq[i] \in ws THEN f[i - 1] ELSE Append(f[i - 1], seq[i])]

\* The recursive function of Without exists.
LEMMA KeptExists ==
  ASSUME NEW seq, NEW ws, NEW n \in Nat
  PROVE  \E f : IsKept(f, seq, ws, n)
<1> DEFINE T == {m \in Nat : \E f : IsKept(f, seq, ws, m)}
<1>1. 0 \in T
  <2> DEFINE f == [i \in 0 .. 0 |-> <<>>]
  <2>1. IsKept(f, seq, ws, 0)
    BY DEF IsKept
  <2> QED BY <2>1
<1>2. ASSUME NEW m \in Nat, m \in T PROVE m + 1 \in T
  <2>1. PICK f : IsKept(f, seq, ws, m)
    BY <1>2
  <2> DEFINE g == [i \in 0 .. (m + 1) |-> IF i <= m THEN f[i]
                     ELSE IF seq[i] \in ws THEN f[i - 1] ELSE Append(f[i - 1], seq[i])]
  <2>2. ASSUME NEW i \in 0 .. (m + 1)
        PROVE  g[i] = IF i = 0 THEN <<>>
                      ELSE IF seq[i] \in ws THEN g[i - 1] ELSE Append(g[i - 1], seq[i])
    <3>1. CASE i = 0
      BY <2>1, <3>1 DEF IsKept
    <3>2. CASE i # 0 /\ i <= m
      <4>1. g[i] = f[i] /\ g[i - 1] = f[i - 1] /\ i \in 0 .. m
        BY <3>2
      <4>2. f[i] = IF seq[i] \in ws THEN f[i - 1] ELSE Append(f[i - 1], seq[i])
        BY <4>1, <3>2, <2>1 DEF IsKept
      <4> HIDE DEF g
      <4> QED BY <4>1, <4>2, <3>2
    <3>3. CASE i = m + 1
      BY <3>3
    <3> QED BY <3>1, <3>2, <3>3
  <2>3. IsKept(g, seq, ws, m + 1)
    BY <2>2 DEF IsKept
  <2> HIDE DEF g
  <2> QED BY <2>3
<1> HIDE DEF T
<1>3. Nat \subseteq T
  BY <1>1, <1>2, Induction
<1> QED BY <1>3 DEF T

LEMMA WithoutIsKept ==
  ASSUME NEW seq, NEW ws, Len(seq) \in Nat
  PROVE  \E f : IsKept(f, seq, ws, Len(seq)) /\ Without(seq, ws) = f[Len(seq)]
<1> DEFINE f == CHOOSE keep : keep = [i \in 0 .. Len(seq) |-> IF i = 0 THEN <<>>
                                       ELSE IF seq[i] \in ws THEN keep[i - 1]
                                       ELSE Append(keep[i - 1], seq[i])]
<1>1. IsKept(f, seq, ws, Len(seq))
  <2>1. \E keep : IsKept(keep, seq, ws, Len(seq))
    BY KeptExists
  <2> QED BY <2>1, Zenon DEF IsKept
<1>2. Without(seq, ws) = f[Len(seq)]
  BY Zenon DEF Without
<1> HIDE DEF f
<1> QED BY <1>1, <1>2

\* What Without keeps.
LEMMA WithoutIn ==
  ASSUME NEW S, NEW s \in Seq(S), NEW ws
  PROVE  /\ Without(s, ws) \in Seq(S)
         /\ \A x : In(Without(s, ws), x) <=> In(s, x) /\ x \notin ws
         /\ Once(s) => Once(Without(s, ws))
<1>1. PICK f : IsKept(f, s, ws, Len(s)) /\ Without(s, ws) = f[Len(s)]
  BY WithoutIsKept
<1> DEFINE Good(n) == /\ f[n] \in Seq(S)
                      /\ \A x : In(f[n], x) <=> x \notin ws /\ \E i \in 1 .. n : s[i] = x
                      /\ Once(s) => Once(f[n])
           T == {n \in Nat : n <= Len(s) => Good(n)}
<1>2. 0 \in T
  BY <1>1, EmptyIn DEF IsKept
<1>3. ASSUME NEW n \in Nat, n \in T PROVE n + 1 \in T
  <2> SUFFICES ASSUME n + 1 <= Len(s) PROVE Good(n + 1)
    OBVIOUS
  <2>1. Good(n) /\ n + 1 \in DOMAIN s /\ s[n + 1] \in S
    BY <1>3
  <2>2. f[n + 1] = IF s[n + 1] \in ws THEN f[n] ELSE Append(f[n], s[n + 1])
    <3>1. n + 1 \in 0 .. Len(s) /\ n + 1 # 0 /\ (n + 1) - 1 = n
      BY <2>1
    <3>2. f[n + 1] = IF s[n + 1] \in ws THEN f[(n + 1) - 1] ELSE Append(f[(n + 1) - 1], s[n + 1])
      BY <1>1, <3>1 DEF IsKept
    <3> QED BY <3>1, <3>2
  <2>3. \A x : (\E i \in 1 .. n + 1 : s[i] = x) <=> (\E i \in 1 .. n : s[i] = x) \/ s[n + 1] = x
    OBVIOUS
  <2>4. CASE s[n + 1] \in ws
    <3> QED BY <2>1, <2>2, <2>3, <2>4
  <2>5. CASE s[n + 1] \notin ws
    <3>1. f[n + 1] = Append(f[n], s[n + 1])
      BY <2>2, <2>5
    <3>2. Once(s) => ~ In(f[n], s[n + 1])
      BY <2>1 DEF Once
    <3> QED BY <3>1, <3>2, <2>1, <2>3, <2>5, AppendIn
  <2> QED BY <2>4, <2>5
<1>4. Len(s) \in T
  <2> HIDE DEF T
  <2> QED BY <1>2, <1>3, Induction
<1>5. \A x : (\E i \in 1 .. Len(s) : s[i] = x) <=> In(s, x)
  BY DEF In
<1> QED BY <1>1, <1>4, <1>5

-----------------------------------------------------------------------------
(* Places.                                                                 *)

Stages == {"read", "exec", "write"}

LEMMA SpotKinds ==
  ASSUME NEW p \in Spot
  PROVE  \/ \E u \in Staged, s \in Stages : p = <<u, s>>
         \/ \E d \in Decode : p = <<d, "at">>
         \/ \E s \in SIMD : p = <<"simd", s>>
         \/ p \in {<<"int", "in">>, <<"pipe", "in">>, <<"bar", "in">>}
  BY DEF Spot, Slot, Buffer, Stages

LEMMA SpotsAre ==
  /\ \A u \in Staged, s \in Stages : <<u, s>> \in Spot \ {Bar}
  /\ \A d \in Decode : <<d, "at">> \in Spot \ {Bar}
  /\ \A s \in SIMD : <<"simd", s>> \in Spot \ {Bar}
  /\ <<"int", "in">> \in Spot \ {Bar} /\ <<"pipe", "in">> \in Spot \ {Bar}
  /\ Bar \in Spot
  BY DEF Spot, Slot, Buffer, Stages, Bar, Staged, Decode

LEMMA OccupiesStage ==
  ASSUME NEW u \in Staged, NEW s \in Stages, NEW w
  PROVE  Occupies(<<u, s>>, w) <=> stage[u][s] = w
  BY DEF Occupies, InSlot, Staged

LEMMA OccupiesDecode ==
  ASSUME NEW d \in Decode, NEW w
  PROVE  Occupies(<<d, "at">>, w) <=> toDecode[d] = w
  BY DEF Occupies, InSlot, Staged, Decode

LEMMA OccupiesSIMD ==
  ASSUME NEW s \in SIMD, NEW w
  PROVE  Occupies(<<"simd", s>>, w) <=> simd[s] = w
  BY DEF Occupies, InSlot, Staged, Decode

LEMMA OccupiesBuffer ==
  ASSUME NEW w
  PROVE  /\ Occupies(<<"int", "in">>, w) <=> In(internalExecuting, w)
         /\ Occupies(<<"pipe", "in">>, w) <=> In(instPipe, w)
         /\ Occupies(Bar, w) <=> In(barrierBuffer, w)
  BY DEF Occupies, Content, Bar

placeVars == <<internalExecuting, barrierBuffer, instPipe, stage, toDecode, simd>>

LEMMA SamePlaces ==
  ASSUME UNCHANGED placeVars
  PROVE  \A p, w : Occupies(p, w)' <=> Occupies(p, w)
  BY DEF placeVars, Occupies, InSlot, Content

Lists == Once(internalExecuting) /\ Once(barrierBuffer) /\ Once(instPipe)

\* A wave that is in a place is running, or waits at the barrier; it is only there.
LEMMA AtPlace ==
  ASSUME PlaceInv, NEW w \in Wave, NEW p \in Spot, Occupies(p, w)
  PROVE  /\ Alone(w, p) /\ w \in pool
         /\ p # Bar => wf[w].state = "running" /\ Fits(p, Doing(w))
         /\ p = Bar => wf[w].state = "barrier" /\ Doing(w) = "barrier"
<1>1. Placed(w)
  BY DEF PlaceInv
<1>2. CASE wf[w].state = "running" /\ w \in pool /\ \E q \in Spot \ {Bar} : Fits(q, Doing(w)) /\ Alone(w, q)
  BY <1>2 DEF Alone
<1>3. CASE wf[w].state = "barrier" /\ w \in pool /\ Doing(w) = "barrier" /\ Alone(w, Bar)
  BY <1>3 DEF Alone
<1> QED BY <1>1, <1>2, <1>3 DEF Placed

\* A step that moves one wave only.
LEMMA OneMoves ==
  ASSUME PlaceInv, NEW v \in Wave, UNCHANGED setup, pool \subseteq pool', Lists', Placed(v)',
         \A w \in Wave \ {v} : /\ wf'[w] = wf[w]
                               /\ \A p \in Spot : Occupies(p, w)' <=> Occupies(p, w)
  PROVE  PlaceInv'
<1> SUFFICES ASSUME NEW w \in Wave PROVE Placed(w)'
  BY DEF PlaceInv, Lists
<1>1. CASE w # v
  <2>1. Placed(w) /\ wf'[w] = wf[w] /\ Doing(w)' = Doing(w)
    BY <1>1 DEF PlaceInv, Doing, KindAt, InstAt
  <2>2. \A q : Alone(w, q)' <=> Alone(w, q)
    BY <1>1 DEF Alone
  <2>3. (\A p \in Spot : ~ Occupies(p, w))' <=> \A p \in Spot : ~ Occupies(p, w)
    BY <1>1
  <2> QED BY <2>1, <2>2, <2>3 DEF Placed
<1> QED BY <1>1

\* The wave goes from one place to another.
LEMMA WaveMoves ==
  ASSUME CUType, PlaceInv, NEW v \in Wave, NEW p \in Spot \ {Bar}, NEW q \in Spot \ {Bar}, 
         Occupies(p, v), Fits(q, Doing(v)), UNCHANGED <<setup, wf, pool>>, Lists',
         \A r \in Spot, w \in Wave :
           Occupies(r, w)' <=> (r = q /\ w = v) \/ (Occupies(r, w) /\ w # v)
  PROVE  PlaceInv'
<1>1. wf[v].state = "running" /\ v \in pool
  BY AtPlace
<1>2. Alone(v, q)'
  BY DEF Alone
<1>3. Doing(v)' = Doing(v)
  BY DEF Doing, KindAt, InstAt
<1>4. Placed(v)'
  BY <1>1, <1>2, <1>3 DEF Placed
<1> QED BY <1>4, OneMoves

\* The wave leaves its place.
LEMMA WaveLeaves ==
  ASSUME CUType, PlaceInv, NEW v \in Wave, NEW p \in Spot, Occupies(p, v), 
         UNCHANGED setup, pool \subseteq pool', Lists',
         \A w \in Wave \ {v} : wf'[w] = wf[w],
         wf'[v].state \notin {"running", "barrier"},
         \A r \in Spot, w \in Wave : Occupies(r, w)' <=> (Occupies(r, w) /\ w # v)
  PROVE  PlaceInv'
<1>1. Placed(v)'
  BY DEF Placed
<1> QED BY <1>1, OneMoves

\* The wave comes to a place.
LEMMA WaveEnters ==
  ASSUME CUType, PlaceInv, NEW v \in pool, wf[v].state = "ready", NEW q \in Spot \ {Bar},
         UNCHANGED <<setup, pool>>, Lists',
         \A w \in Wave \ {v} : wf'[w] = wf[w],
         wf'[v].state = "running", Fits(q, Doing(v)'),
         \A r \in Spot, w \in Wave : Occupies(r, w)' <=> Occupies(r, w) \/ (r = q /\ w = v)
  PROVE  PlaceInv'
<1>0. v \in Wave
  BY DEF CUType
<1>1. \A r \in Spot : ~ Occupies(r, v)
  BY <1>0 DEF PlaceInv, Placed
<1>2. Placed(v)'
  BY <1>1, <1>0 DEF Placed, Alone
<1> QED BY <1>2, <1>0, OneMoves

\* A step that moves no wave.
LEMMA NoneMoves ==
  ASSUME PlaceInv, UNCHANGED <<setup, placeVars>>,
         \A w \in pool : w \in pool' \/ wf'[w].state \notin {"running", "barrier"},
         \A w \in Wave : \/ wf'[w].state = wf[w].state /\ wf'[w].inst = wf[w].inst
                         \/ /\ wf[w].state \notin {"running", "barrier"}
                            /\ wf'[w].state \notin {"running", "barrier"}
  PROVE  PlaceInv'
<1>1. Lists'
  BY DEF PlaceInv, Lists, placeVars
<1>2. ASSUME NEW w \in Wave PROVE Placed(w)'
  <2>1. \A p : Occupies(p, w)' <=> Occupies(p, w)
    BY SamePlaces
  <2>2. \A q : Alone(w, q)' <=> Alone(w, q)
    BY <2>1 DEF Alone
  <2>3. Placed(w)
    BY DEF PlaceInv
  <2>4. CASE wf'[w].state = wf[w].state /\ wf'[w].inst = wf[w].inst
    <3>1. Doing(w)' = Doing(w)
      BY <2>4 DEF Doing, KindAt, InstAt
    <3> QED BY <2>1, <2>2, <2>3, <2>4, <3>1 DEF Placed
  <2>5. CASE wf[w].state \notin {"running", "barrier"} /\ wf'[w].state \notin {"running", "barrier"}
    BY <2>1, <2>3, <2>5 DEF Placed
  <2> QED BY <1>2, <2>4, <2>5
<1> QED BY <1>1, <1>2 DEF PlaceInv, Lists

-----------------------------------------------------------------------------
(* The places after each action.                                           *)

LEMMA DecodeScalarMoves ==
  ASSUME CUType, PlaceInv, DecodeScalar
  PROVE  PlaceInv'
<1> DEFINE v == toDecode["scalarD"]
           p == <<"scalarD", "at">>
           q == <<"scalar", "read">>
<1>1. v \in Wave /\ p \in Spot \ {Bar} /\ q \in Spot \ {Bar}
  BY SpotsAre, PlaceAssumption DEF DecodeScalar, CUType, Decode, Staged, Stages
<1>2. Occupies(p, v) /\ ~ \E w \in Wave : Occupies(q, w)
  BY <1>1, NoneAssumption DEF DecodeScalar, Occupies, InSlot, Staged, Decode
<1>3. Fits(q, Doing(v))
  BY <1>1, <1>2, AtPlace DEF Fits
<1>4. Lists'
  BY DEF PlaceInv, Lists, schedVars, DecodeScalar, vmemVars
<1>5. ASSUME NEW r \in Spot, NEW w \in Wave
      PROVE  Occupies(r, w)' <=> (r = q /\ w = v) \/ (Occupies(r, w) /\ w # v)
  <2>1. Occupies(r, v) => r = p
    BY <1>1, <1>2, AtPlace DEF Alone
  <2>2. Occupies(r, w)' <=> IF r = p THEN FALSE ELSE IF r = q THEN w = v ELSE Occupies(r, w)
    BY <1>1, SpotKinds, NoneAssumption
       DEF DecodeScalar, CUType, Occupies, InSlot, Content, Decode, Staged, Stages, schedVars, vmemVars
  <2>3. Occupies(p, w) => w = v
    BY <1>1, <1>2 DEF DecodeScalar, Occupies, InSlot, Staged, Decode
  <2> QED BY <1>2, <2>1, <2>2, <2>3
<1> QED BY <1>1, <1>2, <1>3, <1>4, <1>5, WaveMoves DEF waveVars, DecodeScalar

LEMMA DecodeLDSMoves ==
  ASSUME CUType, PlaceInv, DecodeLDS
  PROVE  PlaceInv'
<1> DEFINE v == toDecode["ldsD"]
           p == <<"ldsD", "at">>
           q == <<"lds", "read">>
<1>1. v \in Wave /\ p \in Spot \ {Bar} /\ q \in Spot \ {Bar}
  BY SpotsAre, PlaceAssumption DEF DecodeLDS, CUType, Decode, Staged, Stages
<1>2. Occupies(p, v) /\ ~ \E w \in Wave : Occupies(q, w)
  BY <1>1, NoneAssumption DEF DecodeLDS, Occupies, InSlot, Staged, Decode
<1>3. Fits(q, Doing(v))
  BY <1>1, <1>2, AtPlace DEF Fits
<1>4. Lists'
  BY DEF PlaceInv, Lists, schedVars, DecodeLDS, vmemVars
<1>5. ASSUME NEW r \in Spot, NEW w \in Wave
      PROVE  Occupies(r, w)' <=> (r = q /\ w = v) \/ (Occupies(r, w) /\ w # v)
  <2>1. Occupies(r, v) => r = p
    BY <1>1, <1>2, AtPlace DEF Alone
  <2>2. Occupies(r, w)' <=> IF r = p THEN FALSE ELSE IF r = q THEN w = v ELSE Occupies(r, w)
    BY <1>1, SpotKinds, NoneAssumption
       DEF DecodeLDS, CUType, Occupies, InSlot, Content, Decode, Staged, Stages, schedVars, vmemVars
  <2>3. Occupies(p, w) => w = v
    BY <1>1, <1>2 DEF DecodeLDS, Occupies, InSlot, Staged, Decode
  <2> QED BY <1>2, <2>1, <2>2, <2>3
<1> QED BY <1>1, <1>2, <1>3, <1>4, <1>5, WaveMoves DEF waveVars, DecodeLDS

LEMMA DecodeVectorMoves ==
  ASSUME CUType, PlaceInv, DecodeVector
  PROVE  PlaceInv'
<1> DEFINE v == toDecode["vectorD"]
           p == <<"vectorD", "at">>
           q == <<"simd", SimdOf[v]>>
<1>1. v \in Wave /\ p \in Spot \ {Bar} /\ q \in Spot \ {Bar}
      /\ "vectorD" \in Decode /\ SimdOf[v] \in SIMD
  BY SpotsAre, PlaceAssumption DEF DecodeVector, CUType, Decode, Staged, Stages
<1>2. Occupies(p, v) /\ ~ \E w \in Wave : Occupies(q, w)
  BY <1>1, NoneAssumption DEF DecodeVector, Occupies, InSlot, Staged, Decode
<1>3. Fits(q, Doing(v))
  BY <1>1, <1>2, AtPlace DEF Fits
<1>4. Lists'
  BY DEF PlaceInv, Lists, schedVars, DecodeVector, vmemVars
<1>5. ASSUME NEW r \in Spot, NEW w \in Wave
      PROVE  Occupies(r, w)' <=> (r = q /\ w = v) \/ (Occupies(r, w) /\ w # v)
  <2>1. Occupies(r, v) => r = p
    BY <1>1, <1>2, AtPlace DEF Alone
  <2>2. Occupies(r, w)' <=> IF r = p THEN FALSE ELSE IF r = q THEN w = v ELSE Occupies(r, w)
    BY <1>1, SpotKinds, NoneAssumption
       DEF DecodeVector, CUType, Occupies, InSlot, Content, Decode, Staged, Stages, schedVars, vmemVars
  <2>3. Occupies(p, w) => w = v
    BY <1>1, <1>2 DEF DecodeVector, Occupies, InSlot, Staged, Decode
  <2> QED BY <1>2, <2>1, <2>2, <2>3
<1> QED BY <1>1, <1>2, <1>3, <1>4, <1>5, WaveMoves DEF waveVars, DecodeVector

LEMMA RunReadStageMoves ==
  ASSUME CUType, PlaceInv, NEW u \in Staged, RunReadStage(u)
  PROVE  PlaceInv'
<1> DEFINE v == stage[u].read
           p == <<u, "read">>
           q == <<u, "exec">>
<1>1. v \in Wave /\ p \in Spot \ {Bar} /\ q \in Spot \ {Bar}
  BY SpotsAre, PlaceAssumption DEF RunReadStage, CUType, Decode, Staged, Stages
<1>2. Occupies(p, v) /\ ~ \E w \in Wave : Occupies(q, w)
  BY <1>1, NoneAssumption DEF RunReadStage, Occupies, InSlot, Staged, Decode
<1>3. Fits(q, Doing(v))
  BY <1>1, <1>2, AtPlace DEF Fits
<1>4. Lists'
  BY DEF PlaceInv, Lists, schedVars, RunReadStage, vmemVars
<1>5. ASSUME NEW r \in Spot, NEW w \in Wave
      PROVE  Occupies(r, w)' <=> (r = q /\ w = v) \/ (Occupies(r, w) /\ w # v)
  <2>1. Occupies(r, v) => r = p
    BY <1>1, <1>2, AtPlace DEF Alone
  <2>2. Occupies(r, w)' <=> IF r = p THEN FALSE ELSE IF r = q THEN w = v ELSE Occupies(r, w)
    BY <1>1, SpotKinds, NoneAssumption
       DEF RunReadStage, CUType, Occupies, InSlot, Content, Decode, Staged, Stages, schedVars, vmemVars
  <2>3. Occupies(p, w) => w = v
    BY <1>1, <1>2 DEF RunReadStage, Occupies, InSlot, Staged, Decode
  <2> QED BY <1>2, <2>1, <2>2, <2>3
<1> QED BY <1>1, <1>2, <1>3, <1>4, <1>5, WaveMoves DEF waveVars, RunReadStage

LEMMA RunExecStageMoves ==
  ASSUME CUType, PlaceInv, NEW u \in Staged, RunExecStage(u)
  PROVE  PlaceInv'
<1> DEFINE v == stage[u].exec
           p == <<u, "exec">>
           q == <<u, "write">>
<1>1. v \in Wave /\ p \in Spot \ {Bar} /\ q \in Spot \ {Bar}
  BY SpotsAre, PlaceAssumption DEF RunExecStage, CUType, Decode, Staged, Stages
<1>2. Occupies(p, v) /\ ~ \E w \in Wave : Occupies(q, w)
  BY <1>1, NoneAssumption DEF RunExecStage, Occupies, InSlot, Staged, Decode
<1>3. Fits(q, Doing(v))
  BY <1>1, <1>2, AtPlace DEF Fits, RunExecStage, Doing, Staged
<1>4. Lists'
  BY DEF PlaceInv, Lists, schedVars, RunExecStage, vmemVars
<1>5. ASSUME NEW r \in Spot, NEW w \in Wave
      PROVE  Occupies(r, w)' <=> (r = q /\ w = v) \/ (Occupies(r, w) /\ w # v)
  <2>1. Occupies(r, v) => r = p
    BY <1>1, <1>2, AtPlace DEF Alone
  <2>2. Occupies(r, w)' <=> IF r = p THEN FALSE ELSE IF r = q THEN w = v ELSE Occupies(r, w)
    BY <1>1, SpotKinds, NoneAssumption
       DEF RunExecStage, CUType, Occupies, InSlot, Content, Decode, Staged, Stages, schedVars, vmemVars
  <2>3. Occupies(p, w) => w = v
    BY <1>1, <1>2 DEF RunExecStage, Occupies, InSlot, Staged, Decode
  <2> QED BY <1>2, <2>1, <2>2, <2>3
<1> QED BY <1>1, <1>2, <1>3, <1>4, <1>5, WaveMoves DEF waveVars, RunExecStage

LEMMA RunWriteStageMoves ==
  ASSUME CUType, PlaceInv, NEW u \in Staged, RunWriteStage(u)
  PROVE  PlaceInv'
<1> DEFINE v == stage[u].write
           p == <<u, "write">>
<1>1. v \in Wave /\ p \in Spot \ {Bar}
  BY SpotsAre DEF RunWriteStage, CUType, Staged, Stages
<1>2. Occupies(p, v)
  BY <1>1 DEF RunWriteStage, Occupies, InSlot, Staged, Decode
<1>3. Lists'
  BY DEF PlaceInv, Lists, schedVars, RunWriteStage, vmemVars
<1>4. ASSUME NEW r \in Spot, NEW w \in Wave
      PROVE  Occupies(r, w)' <=> (Occupies(r, w) /\ w # v)
  <2>1. Occupies(r, v) => r = p
    BY <1>1, <1>2, AtPlace DEF Alone
  <2>2. Occupies(r, w)' <=> (r # p /\ Occupies(r, w))
    BY <1>1, SpotKinds, NoneAssumption
       DEF RunWriteStage, CUType, Occupies, InSlot, Content, Decode, Staged, Stages, schedVars, vmemVars
  <2>3. Occupies(p, w) => w = v
    BY <1>1, <1>2 DEF RunWriteStage, Occupies, InSlot, Staged, Decode
  <2> QED BY <2>1, <2>2, <2>3
<1>5. wf'[v].state = "ready" /\ \A w \in Wave \ {v} : wf'[w] = wf[w]
  BY <1>1 DEF RunWriteStage, CUType, SetReady, WaveRecord
<1> QED BY <1>1, <1>2, <1>3, <1>4, <1>5, WaveLeaves DEF RunWriteStage

LEMMA BranchWriteStageMoves ==
  ASSUME CUType, PlaceInv, BranchWriteStage
  PROVE  PlaceInv'
<1> DEFINE v == stage["branch"].write
           p == <<"branch", "write">>
<1>1. v \in Wave /\ p \in Spot \ {Bar}
  BY SpotsAre DEF BranchWriteStage, CUType, Staged, Stages
<1>2. Occupies(p, v)
  BY <1>1 DEF BranchWriteStage, Occupies, InSlot, Staged, Decode
<1>3. Lists'
  BY DEF PlaceInv, Lists, schedVars, BranchWriteStage, vmemVars
<1>4. ASSUME NEW r \in Spot, NEW w \in Wave
      PROVE  Occupies(r, w)' <=> (Occupies(r, w) /\ w # v)
  <2>1. Occupies(r, v) => r = p
    BY <1>1, <1>2, AtPlace DEF Alone
  <2>2. Occupies(r, w)' <=> (r # p /\ Occupies(r, w))
    BY <1>1, SpotKinds, NoneAssumption
       DEF BranchWriteStage, CUType, Occupies, InSlot, Content, Decode, Staged, Stages, schedVars, vmemVars
  <2>3. Occupies(p, w) => w = v
    BY <1>1, <1>2 DEF BranchWriteStage, Occupies, InSlot, Staged, Decode
  <2> QED BY <2>1, <2>2, <2>3
<1>5. wf'[v].state = "ready" /\ \A w \in Wave \ {v} : wf'[w] = wf[w]
  <2> DEFINE r == wf[v]
             to == setup.jumps[v][r.turns + 1]
  <2>1. wf' = [wf EXCEPT ![v] = Branch(r, to)] /\ wf \in [Wave -> WaveRecord] /\ r \in WaveRecord
    BY <1>1 DEF BranchWriteStage, CUType
  <2>2. Branch(r, to).state = "ready"
    <3> HIDE DEF r, to
    <3> QED BY <2>1 DEF Branch, SetReady, WaveRecord
  <2> HIDE DEF r, to, v
  <2> QED BY <1>1, <2>1, <2>2
<1> QED BY <1>1, <1>2, <1>3, <1>4, <1>5, WaveLeaves DEF BranchWriteStage

LEMMA SIMDExecMoves ==
  ASSUME CUType, PlaceInv, NEW s \in SIMD, SIMDExec(s)
  PROVE  PlaceInv'
<1> DEFINE v == simd[s]
           p == <<"simd", s>>
<1>1. v \in Wave /\ p \in Spot \ {Bar}
  BY SpotsAre DEF SIMDExec, CUType, Staged, Stages
<1>2. Occupies(p, v)
  BY <1>1 DEF SIMDExec, Occupies, InSlot, Staged, Decode
<1>3. Lists'
  BY DEF PlaceInv, Lists, schedVars, SIMDExec, vmemVars
<1>4. ASSUME NEW r \in Spot, NEW w \in Wave
      PROVE  Occupies(r, w)' <=> (Occupies(r, w) /\ w # v)
  <2>1. Occupies(r, v) => r = p
    BY <1>1, <1>2, AtPlace DEF Alone
  <2>2. Occupies(r, w)' <=> (r # p /\ Occupies(r, w))
    BY <1>1, SpotKinds, NoneAssumption
       DEF SIMDExec, CUType, Occupies, InSlot, Content, Decode, Staged, Stages, schedVars, vmemVars
  <2>3. Occupies(p, w) => w = v
    BY <1>1, <1>2 DEF SIMDExec, Occupies, InSlot, Staged, Decode
  <2> QED BY <2>1, <2>2, <2>3
<1>5. wf'[v].state = "ready" /\ \A w \in Wave \ {v} : wf'[w] = wf[w]
  BY <1>1 DEF SIMDExec, CUType, SetReady, WaveRecord
<1> QED BY <1>1, <1>2, <1>3, <1>4, <1>5, WaveLeaves DEF SIMDExec

LEMMA ExecuteSMEMLoadMoves ==
  ASSUME CUType, PlaceInv, NEW n \in Nat, ExecuteSMEMLoad(n)
  PROVE  PlaceInv'
<1> DEFINE v == stage["scalar"].exec
           p == <<"scalar", "exec">>
<1>1. v \in Wave /\ p \in Spot \ {Bar}
  BY SpotsAre DEF ExecuteSMEMLoad, CUType, Staged, Stages
<1>2. Occupies(p, v)
  BY <1>1 DEF ExecuteSMEMLoad, Occupies, InSlot, Staged, Decode
<1>3. Lists'
  BY DEF PlaceInv, Lists, schedVars, ExecuteSMEMLoad, vmemVars
<1>4. ASSUME NEW r \in Spot, NEW w \in Wave
      PROVE  Occupies(r, w)' <=> (Occupies(r, w) /\ w # v)
  <2>1. Occupies(r, v) => r = p
    BY <1>1, <1>2, AtPlace DEF Alone
  <2>2. Occupies(r, w)' <=> (r # p /\ Occupies(r, w))
    BY <1>1, SpotKinds, NoneAssumption
       DEF ExecuteSMEMLoad, CUType, Occupies, InSlot, Content, Decode, Staged, Stages, schedVars, vmemVars
  <2>3. Occupies(p, w) => w = v
    BY <1>1, <1>2 DEF ExecuteSMEMLoad, Occupies, InSlot, Staged, Decode
  <2> QED BY <2>1, <2>2, <2>3
<1>5. wf'[v].state = "ready" /\ \A w \in Wave \ {v} : wf'[w] = wf[w]
  <2>1. /\ wf'[v] = WithAccess(SetReady(wf[v], wf[v].pc + 1), 0)
        /\ \A w \in Wave \ {v} : wf'[w] = wf[w]
    BY <1>1 DEF ExecuteSMEMLoad, CUType
  <2>2. wf[v] \in WaveRecord
    BY <1>1 DEF CUType
  <2>3. PICK r : r = SetReady(wf[v], wf[v].pc + 1)
    OBVIOUS
  <2>4. r.state = "ready" /\ "state" \in DOMAIN r
    BY <2>2, <2>3 DEF SetReady, WaveRecord
  <2>5. WithAccess(r, 0).state = "ready"
    BY <2>4 DEF WithAccess
  <2> QED BY <2>1, <2>3, <2>5
<1> QED BY <1>1, <1>2, <1>3, <1>4, <1>5, WaveLeaves DEF ExecuteSMEMLoad

LEMMA DecodeVMemMoves ==
  ASSUME CUType, PlaceInv, DecodeVMem
  PROVE  PlaceInv'
<1> DEFINE v == toDecode["vmemD"]
           p == <<"vmemD", "at">>
           q == <<"pipe", "in">>
<1>1. v \in Wave /\ p \in Spot \ {Bar} /\ q \in Spot \ {Bar}
  BY SpotsAre DEF DecodeVMem, CUType, Decode
<1>2. Occupies(p, v)
  BY <1>1 DEF DecodeVMem, Occupies, InSlot, Staged, Decode
<1>3. Fits(q, Doing(v))
  BY <1>1, <1>2, AtPlace DEF Fits
<1>4. ~ In(instPipe, v)
  BY <1>1, <1>2, AtPlace, OccupiesBuffer DEF Alone
<1>5. Once(instPipe') /\ \A x : In(instPipe', x) <=> In(instPipe, x) \/ x = v
  BY <1>1, <1>4, AppendIn DEF DecodeVMem, CUType, PlaceInv
<1>6. Lists'
  BY <1>5 DEF PlaceInv, Lists, schedVars, DecodeVMem
<1>7. ASSUME NEW r \in Spot, NEW w \in Wave
      PROVE  Occupies(r, w)' <=> (r = q /\ w = v) \/ (Occupies(r, w) /\ w # v)
  <2>1. Occupies(r, v) => r = p
    BY <1>1, <1>2, AtPlace DEF Alone
  <2>2. Occupies(q, w)' <=> w = v \/ Occupies(q, w)
    BY <1>5 DEF Occupies, Content
  <2>3. r # q => (Occupies(r, w)' <=> (r # p /\ Occupies(r, w)))
    BY <1>1, SpotKinds, NoneAssumption
       DEF DecodeVMem, CUType, Occupies, InSlot, Content, Decode, Staged, Stages, schedVars, vmemVars
  <2>4. Occupies(p, w) => w = v
    BY <1>1, <1>2 DEF DecodeVMem, Occupies, InSlot, Staged, Decode
  <2>5. q # p
    OBVIOUS
  <2> QED BY <2>1, <2>2, <2>3, <2>4, <2>5
<1> QED BY <1>1, <1>2, <1>3, <1>6, <1>7, WaveMoves DEF waveVars, DecodeVMem

LEMMA ExecuteFlatMoves ==
  ASSUME CUType, PlaceInv, VectorRoom, NEW n \in 0 .. MaxTransactions, ExecuteFlat(n)
  PROVE  PlaceInv'
<1> DEFINE v == Head(instPipe)
           p == <<"pipe", "in">>
<1>1. /\ instPipe # <<>> /\ instPipe \in Seq(Wave)
      /\ instPipe' = Tail(instPipe)
  BY DEF ExecuteFlat, CUType
<1>2. /\ v \in Wave /\ In(instPipe, v) /\ Once(instPipe')
      /\ \A x : In(instPipe', x) <=> In(instPipe, x) /\ x # v
  BY <1>1, TailIn DEF PlaceInv
<1>3. Occupies(p, v) /\ p \in Spot \ {Bar}
  BY <1>2, OccupiesBuffer, SpotsAre
<1>4. Lists'
  BY <1>2 DEF PlaceInv, Lists, ExecuteFlat, schedVars
<1>5. ASSUME NEW r \in Spot, NEW w \in Wave
      PROVE  Occupies(r, w)' <=> (Occupies(r, w) /\ w # v)
  <2>1. Occupies(r, v) => r = p
    BY <1>2, <1>3, AtPlace DEF Alone
  <2>2. Occupies(p, w)' <=> w # v /\ Occupies(p, w)
    BY <1>2 DEF Occupies, Content
  <2>3. r # p => (Occupies(r, w)' <=> Occupies(r, w))
    <3>1. UNCHANGED <<schedVars, unitVars>>
      BY DEF ExecuteFlat
    <3> QED BY <3>1, SpotKinds DEF Occupies, InSlot, Content, schedVars, unitVars, Decode, Staged
  <2> QED BY <2>1, <2>2, <2>3
<1>6. ~ (n > 0 /\ n + Len(inFlight["vector"]) > InFlightLimit)
  <2>1. Len(inFlight["vector"]) \in Nat
    BY DEF CUType, Channel
  <2>2. MaxTransactions + Len(inFlight["vector"]) <= InFlightLimit
    BY <1>1 DEF VectorRoom, ExecuteFlat
  <2> QED BY <2>1, <2>2, LimitAssumption
<1>7. wf'[v].state = "ready" /\ \A w \in Wave \ {v} : wf'[w] = wf[w]
  <2>1. wf' = [wf EXCEPT ![v] = IF n = 0 THEN SetReady(@, @.pc + 1)
                                      ELSE WithAccess(SetReady(@, @.pc + 1), 1)]
    BY <1>6 DEF ExecuteFlat
  <2>2. wf[v] \in WaveRecord /\ wf \in [Wave -> WaveRecord]
    BY <1>2 DEF CUType
  <2> QED BY <1>2, <2>1, <2>2 DEF SetReady, WithAccess, WaveRecord
<1> QED BY <1>2, <1>3, <1>4, <1>5, <1>7, WaveLeaves DEF ExecuteFlat

LEMMA IssueMoves ==
  ASSUME CUType, PlaceInv, NEW w \in Wave, Issue(w), KindAt(w, wf[w].next) \in Kind
  PROVE  PlaceInv'
<1> DEFINE k == KindAt(w, wf[w].next)
<1>1. /\ w \in pool /\ wf[w].state = "ready" /\ UNCHANGED <<setup, pool>>
      /\ \A v \in Wave \ {w} : wf'[v] = wf[v]
      /\ wf'[w].state = "running" /\ Doing(w)' = k
  BY DEF Issue, CUType, WaveRecord, Doing, KindAt, InstAt
<1>2. \A r \in Spot : ~ Occupies(r, w)
  BY <1>1 DEF PlaceInv, Placed
<1>3. ASSUME Special(k), internalExecuting' = Append(internalExecuting, w), UNCHANGED <<stage, toDecode>>
      PROVE  PlaceInv'
  <2> DEFINE q == <<"int", "in">>
  <2>1. ~ In(internalExecuting, w)
    BY <1>2, SpotsAre, OccupiesBuffer
  <2>2. Once(internalExecuting') /\ \A x : In(internalExecuting', x) <=> In(internalExecuting, x) \/ x = w
    BY <1>3, <2>1, AppendIn DEF CUType, PlaceInv
  <2>3. UNCHANGED <<barrierBuffer, simd, instPipe>>
    BY DEF Issue, vmemVars
  <2>4. Lists'
    BY <2>2, <2>3 DEF PlaceInv, Lists
  <2>5. q \in Spot \ {Bar} /\ Fits(q, k)
    BY <1>3, SpotsAre DEF Fits
  <2>6. ASSUME NEW r \in Spot, NEW v \in Wave
        PROVE  Occupies(r, v)' <=> Occupies(r, v) \/ (r = q /\ v = w)
    <3>1. Occupies(q, v)' <=> Occupies(q, v) \/ v = w
      BY <2>2 DEF Occupies, Content
    <3>2. r # q => (Occupies(r, v)' <=> Occupies(r, v))
      BY <1>3, <2>3, SpotKinds DEF Occupies, InSlot, Content, Decode, Staged
    <3> QED BY <3>1, <3>2
  <2> QED BY <1>1, <2>4, <2>5, <2>6, WaveEnters
<1>4. ASSUME k = "branch", stage["branch"].read = None, stage' = [stage EXCEPT !["branch"].read = w],
             UNCHANGED <<internalExecuting, toDecode>>
      PROVE  PlaceInv'
  <2> DEFINE q == <<"branch", "read">>
  <2>1. UNCHANGED <<barrierBuffer, simd, instPipe>>
    BY DEF Issue, vmemVars
  <2>2. Lists'
    BY <1>4, <2>1 DEF PlaceInv, Lists
  <2>3. q \in Spot \ {Bar} /\ Fits(q, k)
    BY <1>4, SpotsAre DEF Fits, Staged, Stages
  <2>4. ASSUME NEW r \in Spot, NEW v \in Wave
        PROVE  Occupies(r, v)' <=> Occupies(r, v) \/ (r = q /\ v = w)
    <3>1. Occupies(r, v)' <=> IF r = q THEN v = w ELSE Occupies(r, v)
      BY <1>4, <2>1, SpotKinds
         DEF CUType, Occupies, InSlot, Content, Decode, Staged, Stages
    <3>2. ~ Occupies(q, v)
      BY <1>4, NoneAssumption DEF Occupies, InSlot, Staged
    <3> QED BY <3>1, <3>2
  <2> QED BY <1>1, <2>2, <2>3, <2>4, WaveEnters
<1>5. ASSUME ~ Special(k), k # "branch", toDecode[DecoderOf(k)] = None,
             toDecode' = [toDecode EXCEPT ![DecoderOf(k)] = w], UNCHANGED <<internalExecuting, stage>>
      PROVE  PlaceInv'
  <2> DEFINE d == DecoderOf(k)
             q == <<d, "at">>
  <2>1. UNCHANGED <<barrierBuffer, simd, instPipe>>
    BY DEF Issue, vmemVars
  <2>2. Lists'
    BY <1>5, <2>1 DEF PlaceInv, Lists
  <2>3. d \in Decode /\ Fits(q, k)
    BY <1>5 DEF Fits, DecoderOf, Decode, Kind, Special
  <2>4. q \in Spot \ {Bar}
    BY <2>3, SpotsAre
  <2> HIDE DEF d
  <2>5. ASSUME NEW r \in Spot, NEW v \in Wave
        PROVE  Occupies(r, v)' <=> Occupies(r, v) \/ (r = q /\ v = w)
    <3>1. Occupies(r, v)' <=> IF r = q THEN v = w ELSE Occupies(r, v)
      BY <1>5, <2>1, <2>3, SpotKinds
         DEF CUType, Occupies, InSlot, Content, Decode, Staged, Stages, d
    <3>2. ~ Occupies(q, v)
      BY <1>5, <2>3, OccupiesDecode, NoneAssumption DEF d
    <3> QED BY <3>1, <3>2
  <2> QED BY <1>1, <2>2, <2>3, <2>4, <2>5, WaveEnters
<1> QED BY <1>3, <1>4, <1>5 DEF Issue

-----------------------------------------------------------------------------
(* The evaluation of the scheduler's own instructions.                     *)

StartRun == [waves |-> wf, barrier |-> barrierBuffer, kept |-> <<>>, ended |-> {}]

IsRun(f, n) ==
  f = [i \in 0 .. n |-> IF i = 0 THEN [waves |-> wf, barrier |-> barrierBuffer, kept |-> <<>>, ended |-> {}]
                        ELSE EvalInst(f[i - 1], internalExecuting[i])]

LEMMA RunExists ==
  ASSUME NEW n \in Nat
  PROVE  \E f : IsRun(f, n)
<1> DEFINE T == {m \in Nat : \E f : IsRun(f, m)}
<1>1. 0 \in T
  <2> DEFINE f == [i \in 0 .. 0 |-> StartRun]
  <2>1. IsRun(f, 0)
    BY DEF IsRun, StartRun
  <2> QED BY <2>1
<1>2. ASSUME NEW m \in Nat, m \in T PROVE m + 1 \in T
  <2>1. PICK f : IsRun(f, m)
    BY <1>2
  <2> DEFINE g == [i \in 0 .. (m + 1) |-> IF i <= m THEN f[i]
                                         ELSE EvalInst(f[i - 1], internalExecuting[i])]
  <2>2. ASSUME NEW i \in 0 .. (m + 1)
        PROVE  g[i] = IF i = 0 THEN StartRun ELSE EvalInst(g[i - 1], internalExecuting[i])
    <3>1. CASE i = 0
      BY <2>1, <3>1 DEF IsRun, StartRun
    <3>2. CASE i # 0 /\ i <= m
      <4>1. g[i] = f[i] /\ g[i - 1] = f[i - 1] /\ i \in 0 .. m
        BY <3>2
      <4>2. f[i] = EvalInst(f[i - 1], internalExecuting[i])
        BY <4>1, <3>2, <2>1 DEF IsRun
      <4> HIDE DEF g
      <4> QED BY <4>1, <4>2, <3>2
    <3>3. CASE i = m + 1
      BY <3>3
    <3> QED BY <3>1, <3>2, <3>3
  <2>3. IsRun(g, m + 1)
    BY <2>2 DEF IsRun, StartRun
  <2> HIDE DEF g
  <2> QED BY <2>3
<1> HIDE DEF T
<1>3. Nat \subseteq T
  BY <1>1, <1>2, Induction
<1> QED BY <1>3 DEF T

LEMMA EvaluatedIsRun ==
  ASSUME NEW n \in Nat
  PROVE  \E f : IsRun(f, n) /\ Evaluated(n) = f[n]
<1> DEFINE f == CHOOSE run : run = [i \in 0 .. n |->
                  IF i = 0 THEN [waves |-> wf, barrier |-> barrierBuffer, kept |-> <<>>, ended |-> {}]
                  ELSE EvalInst(run[i - 1], internalExecuting[i])]
<1>1. IsRun(f, n)
  <2>1. \E run : IsRun(run, n)
    BY RunExists
  <2> QED BY <2>1, Zenon DEF IsRun
<1>2. Evaluated(n) = f[n]
  BY Zenon DEF Evaluated
<1> HIDE DEF f
<1> QED BY <1>1, <1>2

\* Evaluated takes one entry after the other.
LEMMA EvaluatedStep ==
  /\ Evaluated(0) = StartRun
  /\ \A n \in Nat : Evaluated(n + 1) = EvalInst(Evaluated(n), internalExecuting[n + 1])
<1>1. Evaluated(0) = StartRun
  BY EvaluatedIsRun DEF IsRun, StartRun
<1>2. ASSUME NEW n \in Nat PROVE Evaluated(n + 1) = EvalInst(Evaluated(n), internalExecuting[n + 1])
  <2>1. PICK f : IsRun(f, n) /\ Evaluated(n) = f[n]
    BY EvaluatedIsRun
  <2>2. PICK g : IsRun(g, n + 1) /\ Evaluated(n + 1) = g[n + 1]
    BY EvaluatedIsRun
  <2> DEFINE T == {k \in Nat : k <= n => f[k] = g[k]}
  <2>3. 0 \in T
    BY <2>1, <2>2 DEF IsRun
  <2>4. ASSUME NEW k \in Nat, k \in T PROVE k + 1 \in T
    <3> SUFFICES ASSUME k + 1 <= n PROVE f[k + 1] = g[k + 1]
      OBVIOUS
    <3>1. k + 1 \in 0 .. n /\ k + 1 \in 0 .. (n + 1) /\ k + 1 # 0 /\ (k + 1) - 1 = k /\ f[k] = g[k]
      BY <2>4
    <3>2. f[k + 1] = EvalInst(f[(k + 1) - 1], internalExecuting[k + 1])
      BY <2>1, <3>1 DEF IsRun
    <3>3. g[k + 1] = EvalInst(g[(k + 1) - 1], internalExecuting[k + 1])
      BY <2>2, <3>1 DEF IsRun
    <3> QED BY <3>1, <3>2, <3>3
  <2>5. n \in T
    <3> HIDE DEF T
    <3> QED BY <2>3, <2>4, Induction
  <2>6. n + 1 \in 0 .. (n + 1) /\ n + 1 # 0 /\ (n + 1) - 1 = n
    OBVIOUS
  <2>7. g[n + 1] = EvalInst(g[(n + 1) - 1], internalExecuting[n + 1])
    BY <2>2, <2>6 DEF IsRun
  <2> QED BY <2>1, <2>2, <2>5, <2>6, <2>7
<1> QED BY <1>1, <1>2

LEMMA LineType ==
  ASSUME NEW pc \in Nat \ {0}
  PROVE  Line(pc) \in Nat
  BY LimitAssumption DEF Line

LEMMA SetReadyIs ==
  ASSUME NEW r \in WaveRecord, NEW pc \in Nat \ {0}
  PROVE  /\ SetReady(r, pc) \in WaveRecord
         /\ SetReady(r, pc).state = "ready" /\ SetReady(r, pc).inst = r.inst
         /\ SetReady(r, pc).pc = pc
<1> DEFINE stale == IF r.buf = <<>> \/ Line(pc) < r.start THEN 0 ELSE Line(pc) - r.start
           new == SubSeq(r.buf, stale + 1, Len(r.buf))
<1>1. stale \in Nat /\ r.start + stale \in Nat
  BY LineType DEF WaveRecord
<1>2. new \in Seq(Nat)
  BY <1>1 DEF WaveRecord
<1>3. SetReady(r, pc) = [r EXCEPT !.state = "ready", !.pc = pc, !.buf = new, !.start = r.start + stale]
  BY DEF SetReady
<1>4. SetReady(r, pc) \in WaveRecord
  <2> HIDE DEF new, stale
  <2> QED BY <1>1, <1>2, <1>3 DEF WaveRecord, State
<1>5. SetReady(r, pc).state = "ready" /\ SetReady(r, pc).inst = r.inst /\ SetReady(r, pc).pc = pc
  BY <1>3 DEF WaveRecord
<1> QED BY <1>4, <1>5

\* SetReady forgets the state.
LEMMA SetReadyForgets ==
  ASSUME NEW r \in WaveRecord, NEW pc \in Nat \ {0}, NEW s \in State
  PROVE  SetReady([r EXCEPT !.state = s], pc) = SetReady(r, pc)
  BY DEF SetReady, WaveRecord

ToDo(w, n) == \E j \in n + 1 .. Len(internalExecuting) : internalExecuting[j] = w

\* The whole group has reached the barrier and goes on.
Released(e, w) ==
  \A v \in Waves(GroupOf[w]) :
    /\ wf[v].state \in {"running", "barrier"} /\ Doing(v) = "barrier"
    /\ e.waves[v] = SetReady(wf[v], wf[v].pc + 1)

Idle(w) == ~ wf[w].vm > 0 /\ ~ wf[w].lgkm > 0
Waited(w) == ~ Outstanding(wf[w], InstAt(w, wf[w].inst))

\* What can have become of a wave.
Outcome(e, w) ==
  \/ e.waves[w] = wf[w]
  \/ /\ In(internalExecuting, w)
     /\ \/ Doing(w) = "endpgm" /\ Idle(w) /\ e.waves[w] = [wf[w] EXCEPT !.state = "completed"]
        \/ Doing(w) = "barrier" /\ e.waves[w] = [wf[w] EXCEPT !.state = "barrier"]
        \/ Doing(w) = "waitcnt" /\ Waited(w) /\ e.waves[w] = SetReady(wf[w], wf[w].pc + 1)
        \/ Doing(w) = "nop" /\ e.waves[w] = [wf[w] EXCEPT !.state = "ready"]
  \/ Released(e, w)

Run == [waves : [Wave -> WaveRecord], barrier : Seq(Wave), kept : Seq(Wave), ended : SUBSET Wave]

\* The state of the evaluation after n entries.
EvalInv(e, n) ==
  /\ e \in Run
  /\ Once(e.barrier) /\ Once(e.kept)
  /\ \A w \in Wave :
       /\ ToDo(w, n) => e.waves[w] = wf[w] /\ ~ In(e.kept, w)
       /\ In(e.kept, w) => In(internalExecuting, w) /\ e.waves[w] = wf[w]
       /\ In(internalExecuting, w) /\ e.waves[w].state = "running" => ToDo(w, n) \/ In(e.kept, w)
       /\ In(e.barrier, w) <=> e.waves[w].state = "barrier"
       /\ w \in e.ended => In(internalExecuting, w) /\ e.waves[w].state = "completed"
       /\ Outcome(e, w)

\* The waves of the list.
LEMMA ListIs ==
  ASSUME CUType, PlaceInv, NEW w \in Wave, In(internalExecuting, w)
  PROVE  /\ wf[w].state = "running" /\ w \in pool /\ Special(Doing(w))
         /\ Alone(w, <<"int", "in">>) /\ ~ In(barrierBuffer, w)
<1>1. Occupies(<<"int", "in">>, w) /\ <<"int", "in">> \in Spot \ {Bar}
  BY SpotsAre, OccupiesBuffer
<1>2. wf[w].state = "running" /\ Fits(<<"int", "in">>, Doing(w)) /\ Alone(w, <<"int", "in">>) /\ w \in pool
  BY <1>1, AtPlace
<1>3. Special(Doing(w))
  BY <1>2 DEF Fits
<1>4. ~ Occupies(Bar, w)
  BY <1>1, <1>2, SpotsAre DEF Alone
<1> QED BY <1>2, <1>3, <1>4, OccupiesBuffer

LEMMA BarrierIs ==
  ASSUME CUType, PlaceInv, NEW w \in Wave
  PROVE  /\ In(barrierBuffer, w) <=> wf[w].state = "barrier"
         /\ wf[w].state = "barrier" => Doing(w) = "barrier"
<1>1. Placed(w)
  BY DEF PlaceInv
<1> QED BY <1>1, SpotsAre, OccupiesBuffer, AtPlace DEF Placed, Alone

LEMMA EvalStarts ==
  ASSUME CUType, PlaceInv
  PROVE  EvalInv(Evaluated(0), 0)
<1>1. StartRun \in Run
  BY DEF StartRun, Run, CUType
<1>2. ASSUME NEW w \in Wave PROVE In(internalExecuting, w) <=> ToDo(w, 0)
  BY DEF In, ToDo, CUType
<1>3. Evaluated(0) = StartRun
  BY EvaluatedStep
<1>4. EvalInv(StartRun, 0)
  BY <1>1, <1>2, EmptyIn, BarrierIs DEF EvalInv, StartRun, PlaceInv, Outcome
<1> QED BY <1>3, <1>4

\* The next entry.
LEMMA EntryIs ==
  ASSUME CUType, PlaceInv, NEW n \in Nat, n < Len(internalExecuting), NEW e, EvalInv(e, n)
  PROVE  LET w == internalExecuting[n + 1] IN
         /\ w \in Wave /\ In(internalExecuting, w) /\ e.waves[w] = wf[w] /\ ~ In(e.kept, w)
         /\ wf[w].state = "running" /\ w \in pool /\ Special(Doing(w)) /\ ~ In(barrierBuffer, w)
         /\ KindAt(w, e.waves[w].inst) = Doing(w) /\ w \notin e.ended /\ ~ In(e.barrier, w)
         /\ \A v \in Wave : ToDo(v, n + 1) <=> ToDo(v, n) /\ v # w
         /\ \A v \in Wave : Released(e, v) => GroupOf[v] # GroupOf[w]
<1> DEFINE w == internalExecuting[n + 1]
<1>1. /\ internalExecuting \in Seq(Wave) /\ n + 1 \in DOMAIN internalExecuting
      /\ n + 1 \in n + 1 .. Len(internalExecuting)
  BY DEF CUType
<1>2. w \in Wave /\ In(internalExecuting, w) /\ ToDo(w, n)
  BY <1>1 DEF In, ToDo
<1>3. e.waves[w] = wf[w] /\ ~ In(e.kept, w)
  BY <1>2 DEF EvalInv
<1>4. wf[w].state = "running" /\ w \in pool /\ Special(Doing(w)) /\ ~ In(barrierBuffer, w)
  BY <1>2, ListIs
<1>5. w \notin e.ended /\ ~ In(e.barrier, w)
  BY <1>2, <1>3, <1>4 DEF EvalInv
<1>6. ASSUME NEW v \in Wave PROVE ToDo(v, n + 1) <=> ToDo(v, n) /\ v # w
  <2>1. ASSUME ToDo(v, n + 1) PROVE ToDo(v, n) /\ v # w
    <3>1. PICK j \in n + 2 .. Len(internalExecuting) : internalExecuting[j] = v
      BY <2>1 DEF ToDo
    <3>2. j \in n + 1 .. Len(internalExecuting) /\ j \in DOMAIN internalExecuting /\ j # n + 1
      BY <1>1
    <3>3. v # w
      BY <1>1, <3>1, <3>2 DEF PlaceInv, Once
    <3> QED BY <3>1, <3>2, <3>3 DEF ToDo
  <2>2. ASSUME ToDo(v, n), v # w PROVE ToDo(v, n + 1)
    <3>1. PICK j \in n + 1 .. Len(internalExecuting) : internalExecuting[j] = v
      BY <2>2 DEF ToDo
    <3>2. j # n + 1
      BY <2>2, <3>1
    <3>3. j \in (n + 1) + 1 .. Len(internalExecuting)
      BY <1>1, <3>2
    <3> QED BY <3>1, <3>3 DEF ToDo
  <2> QED BY <2>1, <2>2
<1>7. ASSUME NEW v \in Wave, Released(e, v) PROVE GroupOf[v] # GroupOf[w]
  <2> SUFFICES ASSUME w \in Waves(GroupOf[v]) PROVE FALSE
    BY <1>2 DEF Waves
  <2>1. e.waves[w] = SetReady(wf[w], wf[w].pc + 1)
    BY <1>7 DEF Released
  <2>2. wf[w] \in WaveRecord
    BY <1>2 DEF CUType
  <2>3. wf[w].pc + 1 \in Nat \ {0}
    BY <2>2 DEF WaveRecord
  <2> HIDE DEF w
  <2> QED BY <1>3, <1>4, <2>1, <2>2, <2>3, SetReadyIs
<1>8. KindAt(w, e.waves[w].inst) = Doing(w)
  BY <1>3 DEF Doing
<1> QED BY <1>2, <1>3, <1>4, <1>5, <1>6, <1>7, <1>8

\* An outcome stays when another group's wave, or another wave, changes.
LEMMA OutcomeStays ==
  ASSUME NEW e, NEW f, NEW v \in Wave, Outcome(e, v), e.waves[v] = f.waves[v],
         Released(e, v) => \A u \in Waves(GroupOf[v]) : f.waves[u] = e.waves[u]
  PROVE  Outcome(f, v)
<1>1. Released(e, v) => Released(f, v)
  BY DEF Released
<1> QED BY <1>1 DEF Outcome

\* The entry stays in the list.
LEMMA EntryKept ==
  ASSUME CUType, PlaceInv, NEW n \in Nat, n < Len(internalExecuting), NEW e, EvalInv(e, n)
  PROVE  EvalInv([e EXCEPT !.kept = Append(@, internalExecuting[n + 1])], n + 1)
<1> DEFINE w == internalExecuting[n + 1]
           k == Append(e.kept, w)
           f == [e EXCEPT !.kept = k]
<1>1. /\ w \in Wave /\ In(internalExecuting, w) /\ e.waves[w] = wf[w] /\ ~ In(e.kept, w)
      /\ \A v \in Wave : ToDo(v, n + 1) <=> ToDo(v, n) /\ v # w
  BY EntryIs
<1> HIDE DEF w
<1>2. e \in Run /\ Once(e.barrier) /\ Once(e.kept)
  BY DEF EvalInv
<1>3. /\ f.waves = e.waves /\ f.barrier = e.barrier /\ f.ended = e.ended
      /\ f.kept = k /\ f \in Run
  <2>1. k \in Seq(Wave)
    BY <1>1, <1>2 DEF Run
  <2> HIDE DEF k
  <2> QED BY <1>2, <2>1 DEF Run
<1>4. Once(f.kept) /\ \A x : In(f.kept, x) <=> In(e.kept, x) \/ x = w
  BY <1>1, <1>2, <1>3, AppendIn DEF Run
<1>5. f = [e EXCEPT !.kept = Append(@, internalExecuting[n + 1])]
  BY DEF w
<1> HIDE DEF f, k
<1>6. \A v \in Wave : Outcome(f, v)
  BY <1>3, OutcomeStays DEF EvalInv
<1>7. EvalInv(f, n + 1)
  BY <1>1, <1>2, <1>3, <1>4, <1>6 DEF EvalInv
<1> QED BY <1>5, <1>7

\* The wave's record changes, and it leaves the list.
LEMMA EntryChanges ==
  ASSUME CUType, PlaceInv, NEW n \in Nat, n < Len(internalExecuting), NEW e, EvalInv(e, n),
         NEW r \in WaveRecord, NEW f, f \in Run, Once(f.barrier), f.kept = e.kept,
         f.waves = [e.waves EXCEPT ![internalExecuting[n + 1]] = r],
         r.state # "running",
         Outcome(f, internalExecuting[n + 1]),
         f.ended = e.ended \/ (f.ended = e.ended \cup {internalExecuting[n + 1]} /\ r.state = "completed"),
         \A x : In(f.barrier, x) <=> In(e.barrier, x) \/ (x = internalExecuting[n + 1] /\ r.state = "barrier")
  PROVE  EvalInv(f, n + 1)
<1> DEFINE w == internalExecuting[n + 1]
<1>1. /\ w \in Wave /\ In(internalExecuting, w) /\ ~ In(e.kept, w) /\ ~ In(e.barrier, w)
      /\ e.waves[w] = wf[w] /\ w \notin e.ended
      /\ \A v \in Wave : ToDo(v, n + 1) <=> ToDo(v, n) /\ v # w
      /\ \A v \in Wave : Released(e, v) => GroupOf[v] # GroupOf[w]
  BY EntryIs
<1>2. e \in Run
  BY DEF EvalInv
<1>3. f.waves[w] = r /\ \A v \in Wave \ {w} : f.waves[v] = e.waves[v]
  BY <1>1, <1>2 DEF Run
<1> HIDE DEF w
<1>4. ASSUME NEW v \in Wave PROVE Outcome(f, v)
  <2>1. CASE v = w
    BY <2>1 DEF w
  <2>2. CASE v # w
    <3>1. Released(e, v) => \A u \in Waves(GroupOf[v]) : f.waves[u] = e.waves[u]
      BY <1>1, <1>3 DEF Waves
    <3>2. Outcome(e, v)
      BY DEF EvalInv
    <3> QED BY <1>3, <2>2, <3>1, <3>2, OutcomeStays
  <2> QED BY <2>1, <2>2
<1>5. ASSUME NEW v \in Wave
      PROVE  /\ ToDo(v, n + 1) => f.waves[v] = wf[v] /\ ~ In(f.kept, v)
             /\ In(f.kept, v) => In(internalExecuting, v) /\ f.waves[v] = wf[v]
             /\ In(internalExecuting, v) /\ f.waves[v].state = "running" => ToDo(v, n + 1) \/ In(f.kept, v)
             /\ In(f.barrier, v) <=> f.waves[v].state = "barrier"
             /\ v \in f.ended => In(internalExecuting, v) /\ f.waves[v].state = "completed"
  <2>1. CASE v = w
    BY <1>1, <1>3, <2>1 DEF EvalInv, w
  <2>2. CASE v # w
    BY <1>1, <1>3, <2>2 DEF EvalInv, w
  <2> QED BY <2>1, <2>2
<1>6. Once(f.kept)
  BY DEF EvalInv
<1> QED BY <1>4, <1>5, <1>6 DEF EvalInv

LEMMA EvalSEndPgmStep ==
  ASSUME CUType, PlaceInv, NEW n \in Nat, n < Len(internalExecuting), NEW e, EvalInv(e, n),
         Doing(internalExecuting[n + 1]) = "endpgm"
  PROVE  EvalInv(EvalSEndPgm(e, internalExecuting[n + 1]), n + 1)
<1> DEFINE w == internalExecuting[n + 1]
           r == [wf[w] EXCEPT !.state = "completed"]
           m == [e.waves EXCEPT ![w] = r]
           d == e.ended \cup {w}
           f == [e EXCEPT !.waves = m, !.ended = d]
<1>1. w \in Wave /\ In(internalExecuting, w) /\ e.waves[w] = wf[w] /\ ~ In(e.barrier, w)
  BY EntryIs
<1>2. CASE e.waves[w].vm > 0 \/ e.waves[w].lgkm > 0
  BY <1>2, EntryKept DEF EvalSEndPgm
<1>3. CASE ~ (e.waves[w].vm > 0 \/ e.waves[w].lgkm > 0)
  <2> HIDE DEF w
  <2>1. e \in Run /\ Once(e.barrier)
    BY DEF EvalInv
  <2>2. wf[w] \in WaveRecord
    BY <1>1 DEF CUType
  <2>3. r \in WaveRecord /\ r.state = "completed"
    BY <2>2 DEF WaveRecord, State
  <2>4. m \in [Wave -> WaveRecord] /\ d \in SUBSET Wave /\ m[w] = r
    BY <1>1, <2>1, <2>3 DEF Run
  <2>5. f = EvalSEndPgm(e, w)
    <3>1. m = [e.waves EXCEPT ![w].state = "completed"]
      BY <1>1, <2>1 DEF Run
    <3> QED BY <1>3, <3>1, <2>1 DEF EvalSEndPgm, Run
  <2> HIDE DEF m, d, r
  <2>6. /\ f \in Run /\ f.waves = m /\ f.ended = d /\ f.barrier = e.barrier /\ f.kept = e.kept
    BY <2>1, <2>4 DEF Run
  <2> HIDE DEF f
  <2>7. Outcome(f, w)
    <3>1. Doing(w) = "endpgm" /\ Idle(w)
      BY <1>1, <1>3 DEF w, Idle
    <3>2. f.waves[w] = [wf[w] EXCEPT !.state = "completed"]
      BY <2>4, <2>6 DEF r
    <3> QED BY <1>1, <3>1, <3>2 DEF Outcome
  <2>8. f.waves = [e.waves EXCEPT ![internalExecuting[n + 1]] = r]
    BY <2>6 DEF m, w
  <2>9. EvalInv(f, n + 1)
    <3>1. /\ r.state # "running" /\ r.state # "barrier"
          /\ f.ended = e.ended \cup {w}
      BY <2>3, <2>6 DEF d
    <3> QED BY <2>1, <2>3, <2>6, <2>7, <2>8, <3>1, EntryChanges DEF w
  <2> QED BY <2>5, <2>9 DEF w
<1> QED BY <1>2, <1>3

\* The wave is ready again, after the instruction or still before it.
LEMMA ReadyStep ==
  ASSUME CUType, PlaceInv, NEW n \in Nat, n < Len(internalExecuting), NEW e, EvalInv(e, n),
         NEW r \in WaveRecord, r.state = "ready",
         \/ /\ Doing(internalExecuting[n + 1]) = "waitcnt" /\ Waited(internalExecuting[n + 1])
            /\ r = SetReady(wf[internalExecuting[n + 1]], wf[internalExecuting[n + 1]].pc + 1)
         \/ /\ Doing(internalExecuting[n + 1]) = "nop"
            /\ r = [wf[internalExecuting[n + 1]] EXCEPT !.state = "ready"]
  PROVE  EvalInv([e EXCEPT !.waves = [e.waves EXCEPT ![internalExecuting[n + 1]] = r]], n + 1)
<1> DEFINE w == internalExecuting[n + 1]
           m == [e.waves EXCEPT ![w] = r]
           f == [e EXCEPT !.waves = m]
<1>1. w \in Wave /\ In(internalExecuting, w)
  BY EntryIs
<1>2. e \in Run /\ Once(e.barrier)
  BY DEF EvalInv
<1> HIDE DEF w
<1>3. m \in [Wave -> WaveRecord] /\ m[w] = r
  BY <1>1, <1>2 DEF Run
<1> HIDE DEF m
<1>4. f \in Run /\ f.waves = m /\ f.ended = e.ended /\ f.barrier = e.barrier /\ f.kept = e.kept
  BY <1>2, <1>3 DEF Run
<1> HIDE DEF f
<1>5. Outcome(f, w)
  BY <1>1, <1>3, <1>4 DEF Outcome, w
<1>6. EvalInv(f, n + 1)
  <2>1. f.waves = [e.waves EXCEPT ![internalExecuting[n + 1]] = r]
    BY <1>4 DEF m, w
  <2> QED BY <1>2, <1>4, <1>5, <2>1, EntryChanges DEF w
<1> QED BY <1>6 DEF f, m, w

LEMMA EvalSWaitCntStep ==
  ASSUME CUType, PlaceInv, NEW n \in Nat, n < Len(internalExecuting), NEW e, EvalInv(e, n),
         Doing(internalExecuting[n + 1]) = "waitcnt"
  PROVE  EvalInv(EvalSWaitCnt(e, internalExecuting[n + 1]), n + 1)
<1> DEFINE w == internalExecuting[n + 1]
           r == SetReady(wf[w], wf[w].pc + 1)
<1>1. w \in Wave /\ In(internalExecuting, w) /\ e.waves[w] = wf[w]
  BY EntryIs
<1>2. CASE Outstanding(e.waves[w], InstAt(w, e.waves[w].inst))
  BY <1>2, EntryKept DEF EvalSWaitCnt
<1>3. CASE ~ Outstanding(e.waves[w], InstAt(w, e.waves[w].inst))
  <2>1. wf[w] \in WaveRecord /\ e \in Run
    BY <1>1 DEF CUType, EvalInv
  <2>2. wf[w].pc + 1 \in Nat \ {0}
    BY SMTT(60), <2>1 DEF WaveRecord
  <2>3. r \in WaveRecord /\ r.state = "ready" /\ Waited(w)
    BY <1>1, <1>3, <2>1, <2>2, SetReadyIs DEF Waited
  <2>4. EvalSWaitCnt(e, w) = [e EXCEPT !.waves = [e.waves EXCEPT ![w] = r]]
    <3>1. EvalSWaitCnt(e, w) = [e EXCEPT !.waves[w] = SetReady(@, @.pc + 1)]
      BY <1>3 DEF EvalSWaitCnt
    <3>2. [e.waves EXCEPT ![w] = SetReady(@, @.pc + 1)] = [e.waves EXCEPT ![w] = r]
      BY <1>1
    <3> QED BY <3>1, <3>2
  <2> QED BY <2>3, <2>4, ReadyStep
<1> QED BY <1>2, <1>3

LEMMA NopStep ==
  ASSUME CUType, PlaceInv, NEW n \in Nat, n < Len(internalExecuting), NEW e, EvalInv(e, n),
         Doing(internalExecuting[n + 1]) = "nop"
  PROVE  EvalInv([e EXCEPT !.waves[internalExecuting[n + 1]].state = "ready"], n + 1)
<1> DEFINE w == internalExecuting[n + 1]
           r == [wf[w] EXCEPT !.state = "ready"]
<1>1. w \in Wave /\ In(internalExecuting, w) /\ e.waves[w] = wf[w]
  BY EntryIs
<1>2. wf[w] \in WaveRecord /\ e \in Run
  BY <1>1 DEF CUType, EvalInv
<1>3. r \in WaveRecord /\ r.state = "ready"
  BY <1>2 DEF WaveRecord, State
<1>4. [e EXCEPT !.waves[w].state = "ready"] = [e EXCEPT !.waves = [e.waves EXCEPT ![w] = r]]
  BY <1>1
<1> QED BY <1>3, <1>4, ReadyStep

LEMMA BarrierWaitStep ==
  ASSUME CUType, PlaceInv, NEW n \in Nat, n < Len(internalExecuting), NEW e, EvalInv(e, n),
         Doing(internalExecuting[n + 1]) = "barrier", NEW at,
         at = [e EXCEPT !.waves = [e.waves EXCEPT ![internalExecuting[n + 1]] =
                                     [wf[internalExecuting[n + 1]] EXCEPT !.state = "barrier"]]]
  PROVE  EvalInv([at EXCEPT !.barrier = Append(e.barrier, internalExecuting[n + 1])], n + 1)
<1> DEFINE w == internalExecuting[n + 1]
           r == [wf[w] EXCEPT !.state = "barrier"]
           m == [e.waves EXCEPT ![w] = r]
           b == Append(e.barrier, w)
           f == [at EXCEPT !.barrier = b]
<1>1. w \in Wave /\ In(internalExecuting, w) /\ e.waves[w] = wf[w] /\ ~ In(e.barrier, w)
  BY EntryIs
<1>2. e \in Run /\ Once(e.barrier)
  BY DEF EvalInv
<1> HIDE DEF w
<1>3. wf[w] \in WaveRecord
  BY <1>1 DEF CUType
<1>4. r \in WaveRecord /\ r.state = "barrier"
  BY <1>3 DEF WaveRecord, State
<1>5. m \in [Wave -> WaveRecord] /\ m[w] = r
  BY <1>1, <1>2, <1>4 DEF Run
<1>6. at = [e EXCEPT !.waves = m]
  BY DEF w
<1>7. b \in Seq(Wave) /\ Once(b) /\ \A x : In(b, x) <=> In(e.barrier, x) \/ x = w
  <2>1. e.barrier \in Seq(Wave)
    BY <1>2 DEF Run
  <2> QED BY <1>1, <1>2, <2>1, AppendIn
<1> HIDE DEF m, b, r
<1>8. f \in Run /\ f.waves = m /\ f.ended = e.ended /\ f.barrier = b /\ f.kept = e.kept
  BY <1>2, <1>5, <1>6, <1>7 DEF Run
<1> HIDE DEF f
<1>9. Outcome(f, w)
  <2>1. f.waves[w] = [wf[w] EXCEPT !.state = "barrier"]
    BY <1>5, <1>8 DEF r
  <2>2. Doing(w) = "barrier"
    BY DEF w
  <2> QED BY <1>1, <2>1, <2>2 DEF Outcome
<1>10. EvalInv(f, n + 1)
  <2>1. f.waves = [e.waves EXCEPT ![internalExecuting[n + 1]] = r]
    BY <1>8 DEF m, w
  <2>2. r.state # "running" /\ \A x : In(f.barrier, x) <=> In(e.barrier, x) \/ (x = w /\ r.state = "barrier")
    BY <1>4, <1>7, <1>8
  <2> QED BY <1>2, <1>4, <1>7, <1>8, <1>9, <2>1, <2>2, EntryChanges DEF w
<1> QED BY <1>10 DEF f, b, w

\* The last wave of a group reaches the barrier.
LEMMA BarrierPassStep ==
  ASSUME CUType, PlaceInv, NEW n \in Nat, n < Len(internalExecuting), NEW e, EvalInv(e, n),
         Doing(internalExecuting[n + 1]) = "barrier", NEW at,
         at = [e EXCEPT !.waves = [e.waves EXCEPT ![internalExecuting[n + 1]] =
                                     [wf[internalExecuting[n + 1]] EXCEPT !.state = "barrier"]]],
         \A v \in Waves(GroupOf[internalExecuting[n + 1]]) : at.waves[v].state = "barrier"
  PROVE  EvalInv(PassBarrier(at, GroupOf[internalExecuting[n + 1]]), n + 1)
<1> DEFINE w == internalExecuting[n + 1]
           g == GroupOf[w]
           r == [wf[w] EXCEPT !.state = "barrier"]
           m == [e.waves EXCEPT ![w] = r]
           b == Without(e.barrier, Waves(g))
           p == [v \in Wave |-> IF GroupOf[v] = g THEN SetReady(at.waves[v], at.waves[v].pc + 1)
                                ELSE at.waves[v]]
           f == PassBarrier(at, g)
<1>1. /\ w \in Wave /\ In(internalExecuting, w) /\ e.waves[w] = wf[w] /\ wf[w].state = "running"
      /\ \A v \in Wave : ToDo(v, n + 1) <=> ToDo(v, n) /\ v # w
      /\ \A v \in Wave : Released(e, v) => GroupOf[v] # g
      /\ w \notin e.ended /\ ~ In(e.kept, w)
  BY EntryIs
<1>2. e \in Run /\ Once(e.barrier) /\ Once(e.kept)
  BY DEF EvalInv
<1> HIDE DEF w
<1>3. \A v \in Wave : wf[v] \in WaveRecord
  BY DEF CUType
<1>4. r \in WaveRecord /\ r.state = "barrier"
  <2>1. wf[w] \in WaveRecord
    BY <1>1, <1>3
  <2> QED BY <2>1 DEF WaveRecord, State
<1>5. m \in [Wave -> WaveRecord] /\ m[w] = r /\ \A v \in Wave \ {w} : m[v] = e.waves[v]
  BY <1>1, <1>2, <1>4 DEF Run
<1>6. at = [e EXCEPT !.waves = m]
  BY DEF w
<1>7. b \in Seq(Wave) /\ Once(b) /\ \A x : In(b, x) <=> In(e.barrier, x) /\ x \notin Waves(g)
  <2>1. e.barrier \in Seq(Wave)
    BY <1>2 DEF Run
  <2> QED BY <1>2, <2>1, WithoutIn
<1> HIDE DEF m
<1>8. /\ at \in Run /\ at.waves = m /\ at.ended = e.ended /\ at.barrier = e.barrier
      /\ at.kept = e.kept
  BY <1>2, <1>5, <1>6 DEF Run
<1>9. ASSUME NEW v \in Wave, GroupOf[v] = g
      PROVE  /\ at.waves[v].state = "barrier"
             /\ wf[v].state \in {"running", "barrier"} /\ Doing(v) = "barrier"
             /\ ~ ToDo(v, n + 1) /\ ~ In(e.kept, v) /\ v \notin e.ended
             /\ at.waves[v] = [wf[v] EXCEPT !.state = "barrier"]
  <2>1. at.waves[v].state = "barrier"
    BY <1>9 DEF Waves, w
  <2>2. CASE v = w
    <3>1. at.waves[v] = [wf[v] EXCEPT !.state = "barrier"] /\ Doing(v) = "barrier"
      BY <1>5, <1>8, <2>2 DEF w
    <3> QED BY <1>1, <2>1, <2>2, <3>1
  <2>3. CASE v # w
    <3>1. at.waves[v] = e.waves[v] /\ e.waves[v].state = "barrier"
      BY <1>5, <1>8, <2>1, <2>3
    <3>2. /\ ToDo(v, n) => e.waves[v] = wf[v]
          /\ In(e.kept, v) => In(internalExecuting, v) /\ e.waves[v] = wf[v]
          /\ v \in e.ended => e.waves[v].state = "completed"
          /\ Outcome(e, v)
      BY DEF EvalInv
    <3>3. ToDo(v, n) => In(internalExecuting, v)
      <4>1. \A j \in n + 1 .. Len(internalExecuting) : j \in DOMAIN internalExecuting
        BY DEF CUType
      <4> QED BY <4>1 DEF ToDo, In
    <3>4. In(internalExecuting, v) => wf[v].state = "running"
      BY ListIs
    <3>5. ~ Released(e, v)
      BY <1>1, <1>9
    <3>6. wf[v] \in WaveRecord
      BY <1>3
    <3>7. e.waves[v] = wf[v] => /\ Doing(v) = "barrier" /\ wf[v].state = "barrier"
                                /\ e.waves[v] = [wf[v] EXCEPT !.state = "barrier"]
      <4>1. e.waves[v] = wf[v] => wf[v].state = "barrier" /\ Doing(v) = "barrier"
        BY <3>1, BarrierIs
      <4> QED BY <4>1, <3>1, <3>6 DEF WaveRecord
    <3>8. SetReady(wf[v], wf[v].pc + 1).state = "ready"
      <4>1. wf[v].pc + 1 \in Nat \ {0}
        BY SMTT(60), <3>6 DEF WaveRecord
      <4> QED BY <3>6, <4>1, SetReadyIs
    <3>9. /\ [wf[v] EXCEPT !.state = "completed"].state = "completed"
          /\ [wf[v] EXCEPT !.state = "ready"].state = "ready"
      BY <3>6 DEF WaveRecord
    <3>10. /\ Doing(v) = "barrier" /\ wf[v].state \in {"running", "barrier"}
           /\ e.waves[v] = [wf[v] EXCEPT !.state = "barrier"]
      BY <3>1, <3>2, <3>4, <3>5, <3>7, <3>8, <3>9 DEF Outcome
    <3>11. ~ ToDo(v, n) /\ ~ In(e.kept, v)
      BY <3>1, <3>2, <3>3, <3>4
    <3> QED BY <1>1, <2>1, <3>1, <3>2, <3>10, <3>11
  <2> QED BY <2>2, <2>3
<1>10. ASSUME NEW v \in Wave, GroupOf[v] = g
       PROVE  /\ p[v] = SetReady(wf[v], wf[v].pc + 1)
              /\ p[v] \in WaveRecord /\ p[v].state = "ready"
  <2>1. at.waves[v] = [wf[v] EXCEPT !.state = "barrier"] /\ wf[v] \in WaveRecord
    BY <1>3, <1>9, <1>10
  <2>2. at.waves[v].pc = wf[v].pc /\ wf[v].pc + 1 \in Nat \ {0} /\ "barrier" \in State
    BY SMTT(60), <2>1 DEF WaveRecord, State
  <2>3. SetReady(at.waves[v], wf[v].pc + 1) = SetReady(wf[v], wf[v].pc + 1)
    BY <2>1, <2>2, SetReadyForgets
  <2>4. p[v] = SetReady(wf[v], wf[v].pc + 1)
    BY <1>10, <2>2, <2>3
  <2> HIDE DEF p
  <2> QED BY <2>1, <2>2, <2>4, SetReadyIs
<1>11. ASSUME NEW v \in Wave, GroupOf[v] # g PROVE p[v] = e.waves[v] /\ p[v] \in WaveRecord
  <2>1. v # w
    BY <1>11
  <2>2. p[v] = m[v]
    BY <1>8, <1>11
  <2> QED BY <1>5, <2>1, <2>2
<1>12. p \in [Wave -> WaveRecord]
  BY <1>10, <1>11
<1>13. f = [at EXCEPT !.barrier = b, !.waves = p]
  BY <1>8 DEF PassBarrier
<1> HIDE DEF p, b
<1>14. f \in Run /\ f.waves = p /\ f.ended = e.ended /\ f.barrier = b /\ f.kept = e.kept
  BY <1>7, <1>8, <1>12, <1>13 DEF Run
<1> HIDE DEF f
<1>15. ASSUME NEW v \in Wave PROVE Outcome(f, v)
  <2>1. CASE GroupOf[v] = g
    <3>1. Released(f, v)
      BY <1>9, <1>10, <1>14, <2>1 DEF Released, Waves
    <3> QED BY <3>1 DEF Outcome
  <2>2. CASE GroupOf[v] # g
    <3>1. \A u \in Waves(GroupOf[v]) : f.waves[u] = e.waves[u]
      BY <1>11, <1>14, <2>2 DEF Waves
    <3>2. v \in Waves(GroupOf[v]) /\ Outcome(e, v)
      BY DEF Waves, EvalInv
    <3> QED BY <3>1, <3>2, OutcomeStays
  <2> QED BY <2>1, <2>2
<1>16. ASSUME NEW v \in Wave
       PROVE  /\ ToDo(v, n + 1) => f.waves[v] = wf[v] /\ ~ In(f.kept, v)
              /\ In(f.kept, v) => In(internalExecuting, v) /\ f.waves[v] = wf[v]
              /\ In(internalExecuting, v) /\ f.waves[v].state = "running" => ToDo(v, n + 1) \/ In(f.kept, v)
              /\ In(f.barrier, v) <=> f.waves[v].state = "barrier"
              /\ v \in f.ended => In(internalExecuting, v) /\ f.waves[v].state = "completed"
  <2>1. CASE GroupOf[v] = g
    <3>1. v \in Waves(g)
      BY <2>1 DEF Waves
    <3> QED BY <1>7, <1>9, <1>10, <1>14, <2>1, <3>1
  <2>2. CASE GroupOf[v] # g
    <3>1. v \notin Waves(g) /\ v # w
      BY <2>2 DEF Waves
    <3> QED BY <1>1, <1>7, <1>11, <1>14, <2>2, <3>1 DEF EvalInv
  <2> QED BY <2>1, <2>2
<1>17. EvalInv(f, n + 1)
  BY <1>2, <1>7, <1>14, <1>15, <1>16 DEF EvalInv
<1> QED BY <1>17 DEF f, w

LEMMA EvalSBarrierStep ==
  ASSUME CUType, PlaceInv, NEW n \in Nat, n < Len(internalExecuting), NEW e, EvalInv(e, n),
         Doing(internalExecuting[n + 1]) = "barrier",
         \/ \A v \in Waves(GroupOf[internalExecuting[n + 1]]) \ {internalExecuting[n + 1]} :
              e.waves[v].state = "barrier"
         \/ Len(e.barrier) < BarrierBufferSize
  PROVE  EvalInv(EvalSBarrier(e, internalExecuting[n + 1]), n + 1)
<1> DEFINE w == internalExecuting[n + 1]
           at == [e EXCEPT !.waves = [e.waves EXCEPT ![w] = [wf[w] EXCEPT !.state = "barrier"]]]
           all == \A v \in Waves(GroupOf[w]) : at.waves[v].state = "barrier"
<1>1. w \in Wave /\ e.waves[w] = wf[w]
  BY EntryIs
<1>2. e \in Run
  BY DEF EvalInv
<1>3. at = [e EXCEPT !.waves[w].state = "barrier"]
  BY <1>1
<1>4. EvalSBarrier(e, w) = IF all THEN PassBarrier(at, GroupOf[w])
                           ELSE IF Len(e.barrier) < BarrierBufferSize THEN [at EXCEPT !.barrier = Append(@, w)]
                           ELSE [at EXCEPT !.kept = Append(@, w)]
  BY <1>3, Zenon DEF EvalSBarrier
<1>5. CASE all
  <2> HIDE DEF at
  <2>1. EvalInv(PassBarrier(at, GroupOf[w]), n + 1)
    BY <1>5, BarrierPassStep DEF at
  <2> QED BY <1>4, <1>5, <2>1
<1>6. CASE ~ all
  <2>0. \A v \in Wave : at.waves[v] = IF v = w THEN [wf[w] EXCEPT !.state = "barrier"] ELSE e.waves[v]
    BY <1>1, <1>2 DEF Run
  <2>1. wf[w] \in WaveRecord
    BY <1>1 DEF CUType
  <2>2. [wf[w] EXCEPT !.state = "barrier"].state = "barrier"
    BY <2>1 DEF WaveRecord
  <2>3. Len(e.barrier) < BarrierBufferSize
    <3> HIDE DEF at
    <3>1. CASE \A v \in Waves(GroupOf[w]) \ {w} : e.waves[v].state = "barrier"
      <4>1. \A v \in Wave : v = w => at.waves[v].state = "barrier"
        BY <2>0, <2>2
      <4>2. \A v \in Wave : v # w => at.waves[v].state = e.waves[v].state
        BY <2>0
      <4>3. all
        BY <3>1, <4>1, <4>2, Zenon DEF Waves
      <4> QED BY <1>6, <4>3
    <3> QED BY <3>1
  <2>4. at.barrier = e.barrier
    BY <1>2 DEF Run
  <2> HIDE DEF at
  <2>5. EvalSBarrier(e, w) = [at EXCEPT !.barrier = Append(@, w)]
    BY <1>4, <1>6, <2>3
  <2>6. [at EXCEPT !.barrier = Append(@, w)] = [at EXCEPT !.barrier = Append(e.barrier, w)]
    BY <2>4
  <2>7. EvalInv([at EXCEPT !.barrier = Append(e.barrier, w)], n + 1)
    BY BarrierWaitStep DEF at
  <2> QED BY <2>5, <2>6, <2>7
<1> QED BY <1>5, <1>6

LEMMA EvalStep ==
  ASSUME CUType, PlaceInv, BarrierRoom, NEW n \in Nat, n < Len(internalExecuting),
         EvalInv(Evaluated(n), n)
  PROVE  EvalInv(Evaluated(n + 1), n + 1)
<1> DEFINE w == internalExecuting[n + 1]
           e == Evaluated(n)
<1>1. /\ w \in Wave /\ e.waves[w] = wf[w] /\ Special(Doing(w))
      /\ KindAt(w, e.waves[w].inst) = Doing(w)
  BY EntryIs
<1>2. Evaluated(n + 1) = EvalInst(e, w)
  BY EvaluatedStep
<1>3. CASE Doing(w) = "endpgm"
  <2>1. EvalInst(e, w) = EvalSEndPgm(e, w)
    BY <1>1, <1>3 DEF EvalInst
  <2> QED BY <1>2, <1>3, <2>1, EvalSEndPgmStep
<1>4. CASE Doing(w) = "waitcnt"
  <2>1. EvalInst(e, w) = EvalSWaitCnt(e, w)
    BY <1>1, <1>4 DEF EvalInst
  <2> QED BY <1>2, <1>4, <2>1, EvalSWaitCntStep
<1>5. CASE Doing(w) = "barrier"
  <2>1. EvalInst(e, w) = EvalSBarrier(e, w)
    BY <1>1, <1>5 DEF EvalInst
  <2>2. \/ \A v \in Waves(GroupOf[w]) \ {w} : e.waves[v].state = "barrier"
        \/ Len(e.barrier) < BarrierBufferSize
    <3>1. n + 1 \in 1 .. Len(internalExecuting) /\ (n + 1) - 1 = n
      BY DEF CUType
    <3>2. KindAt(w, Evaluated((n + 1) - 1).waves[w].inst) = "barrier"
      BY <1>1, <1>5, <3>1
    <3> HIDE DEF e
    <3> QED BY <3>1, <3>2 DEF BarrierRoom, e
  <2> HIDE DEF e
  <2>3. EvalInv(EvalSBarrier(e, w), n + 1)
    BY <1>5, <2>2, EvalSBarrierStep DEF e
  <2> QED BY <1>2, <2>1, <2>3
<1>6. CASE Doing(w) = "nop"
  <2>1. EvalInst(e, w) = [e EXCEPT !.waves[w].state = "ready"]
    BY <1>1, <1>6 DEF EvalInst
  <2> QED BY <1>2, <1>6, <2>1, NopStep
<1> QED BY <1>1, <1>3, <1>4, <1>5, <1>6 DEF Special

\* What the evaluation of the whole list gives.
LEMMA EvalDone ==
  ASSUME CUType, PlaceInv, BarrierRoom
  PROVE  EvalInv(Evaluated(Len(internalExecuting)), Len(internalExecuting))
<1> DEFINE T == {n \in Nat : n <= Len(internalExecuting) => EvalInv(Evaluated(n), n)}
<1>0. Len(internalExecuting) \in Nat
  BY DEF CUType
<1>1. 0 \in T
  BY EvalStarts
<1>2. ASSUME NEW n \in Nat, n \in T PROVE n + 1 \in T
  <2> SUFFICES ASSUME n + 1 <= Len(internalExecuting) PROVE EvalInv(Evaluated(n + 1), n + 1)
    OBVIOUS
  <2>1. n < Len(internalExecuting) /\ EvalInv(Evaluated(n), n)
    BY <1>0, <1>2
  <2> QED BY <2>1, EvalStep
<1>3. Len(internalExecuting) \in T
  <2> HIDE DEF T
  <2> QED BY <1>0, <1>1, <1>2, Induction
<1> QED BY <1>0, <1>3

\* The step of the scheduler, as its outcome for each wave.
LEMMA EvaluateIs ==
  ASSUME CUType, PlaceInv, BarrierRoom, EvaluateInternalInst
  PROVE  \E e : /\ EvalInv(e, Len(internalExecuting))
                /\ wf' = e.waves /\ barrierBuffer' = e.barrier /\ internalExecuting' = e.kept
                /\ events' = events \cup e.ended
                /\ UNCHANGED <<setup, pool, pipeVars, memVars, predicted, ctl, cp>>
<1>1. EvalInv(Evaluated(Len(internalExecuting)), Len(internalExecuting))
  BY EvalDone
<1> QED BY <1>1, Zenon DEF EvaluateInternalInst

LEMMA EvaluateMoves ==
  ASSUME CUType, PlaceInv, BarrierRoom, EvaluateInternalInst
  PROVE  PlaceInv'
<1>1. PICK e : /\ EvalInv(e, Len(internalExecuting))
               /\ wf' = e.waves /\ barrierBuffer' = e.barrier /\ internalExecuting' = e.kept
               /\ UNCHANGED <<setup, pool, pipeVars>>
  BY EvaluateIs
<1>2. UNCHANGED <<instPipe, stage, toDecode, simd>>
  BY <1>1 DEF pipeVars, unitVars, vmemVars
<1>3. Once(internalExecuting') /\ Once(barrierBuffer') /\ Once(instPipe')
  BY <1>1, <1>2 DEF EvalInv, PlaceInv
<1>4. ASSUME NEW w \in Wave PROVE Placed(w)'
  <2>1. ~ ToDo(w, Len(internalExecuting))
    <3>1. Len(internalExecuting) \in Nat
      BY DEF CUType
    <3> QED BY <3>1 DEF ToDo
  <2>2. /\ In(e.kept, w) => In(internalExecuting, w) /\ wf'[w] = wf[w]
        /\ In(internalExecuting, w) /\ wf'[w].state = "running" => In(e.kept, w)
        /\ In(e.barrier, w) <=> wf'[w].state = "barrier"
        /\ Outcome(e, w)
    BY <1>1, <2>1 DEF EvalInv
  <2>3. /\ Occupies(<<"int", "in">>, w)' <=> In(e.kept, w)
        /\ Occupies(Bar, w)' <=> In(e.barrier, w)
        /\ \A p \in Spot \ {Bar, <<"int", "in">>} : Occupies(p, w)' <=> Occupies(p, w)
    <3>1. /\ Occupies(<<"int", "in">>, w)' <=> In(internalExecuting', w)
          /\ Occupies(Bar, w)' <=> In(barrierBuffer', w)
      BY DEF Occupies, Content, Bar
    <3>2. \A p \in Spot \ {Bar, <<"int", "in">>} : Occupies(p, w)' <=> Occupies(p, w)
      BY <1>2, SpotKinds DEF Occupies, InSlot, Content, Decode, Staged, Bar
    <3> QED BY <1>1, <3>1, <3>2
  <2>4. Placed(w) /\ wf[w] \in WaveRecord
    BY DEF PlaceInv, CUType
  <2>5. In(internalExecuting, w) => wf[w].state = "running" /\ w \in pool /\ Alone(w, <<"int", "in">>)
    BY ListIs
  <2>6. In(barrierBuffer, w) <=> wf[w].state = "barrier"
    BY BarrierIs
  <2>7. CASE wf'[w] = wf[w]
    <3>1. Doing(w)' = Doing(w)
      BY <1>1, <2>7 DEF Doing, KindAt, InstAt
    <3>2. In(internalExecuting, w) <=> In(e.kept, w)
      BY <2>2, <2>5, <2>7
    <3>3. \A p \in Spot : Occupies(p, w)' <=> Occupies(p, w)
      BY <2>2, <2>3, <2>6, <2>7, <3>2, OccupiesBuffer
    <3>4. \A q : Alone(w, q)' <=> Alone(w, q)
      BY <3>3 DEF Alone
    <3> QED BY <1>1, <2>4, <2>7, <3>1, <3>3, <3>4 DEF Placed
  <2>8. CASE wf'[w] # wf[w]
    <3>1. ~ In(e.kept, w)
      BY <2>2, <2>8
    <3>2. /\ \/ In(internalExecuting, w) \/ wf[w].state = "barrier"
          /\ \/ wf'[w].state \notin {"running", "barrier"}
             \/ wf'[w].state = "barrier" /\ In(internalExecuting, w) /\ wf'[w].inst = wf[w].inst
                /\ Doing(w) = "barrier"
      <4>1. CASE In(internalExecuting, w)
        <5>1. wf'[w].state # "running"
          BY <2>2, <3>1, <4>1
        <5>2. wf'[w].state = "barrier" => wf'[w].inst = wf[w].inst /\ Doing(w) = "barrier"
          <6>1. /\ [wf[w] EXCEPT !.state = "completed"].state = "completed"
                /\ [wf[w] EXCEPT !.state = "barrier"].inst = wf[w].inst
                /\ [wf[w] EXCEPT !.state = "ready"].state = "ready"
            BY <2>4 DEF WaveRecord
          <6>2. SetReady(wf[w], wf[w].pc + 1).state = "ready"
            <7>1. wf[w].pc + 1 \in Nat \ {0}
              BY <2>4 DEF WaveRecord
            <7> QED BY <2>4, <7>1, SetReadyIs
          <6>3. Released(e, w) => wf'[w] = SetReady(wf[w], wf[w].pc + 1)
            BY <1>1 DEF Released, Waves
          <6> QED BY <1>1, <2>2, <2>8, <6>1, <6>2, <6>3 DEF Outcome
        <5> QED BY <4>1, <5>1, <5>2
      <4>2. CASE ~ In(internalExecuting, w)
        <5>1. Released(e, w)
          BY <1>1, <2>2, <2>8, <4>2 DEF Outcome
        <5>2. wf'[w] = SetReady(wf[w], wf[w].pc + 1) /\ wf[w].state \in {"running", "barrier"}
              /\ Doing(w) = "barrier"
          BY <1>1, <5>1 DEF Released, Waves
        <5>3. SetReady(wf[w], wf[w].pc + 1).state = "ready"
          <6>1. wf[w].pc + 1 \in Nat \ {0}
            BY <2>4 DEF WaveRecord
          <6> QED BY <2>4, <6>1, SetReadyIs
        <5>4. wf[w].state # "running"
          <6> SUFFICES ASSUME wf[w].state = "running" PROVE FALSE
            OBVIOUS
          <6>1. PICK q \in Spot \ {Bar} : Fits(q, "barrier") /\ Alone(w, q)
            BY <2>4, <5>2 DEF Placed
          <6>2. q = <<"int", "in">>
            BY <6>1, SpotKinds DEF Fits, Bar, Staged, Decode, Special
          <6> QED BY <4>2, <6>1, <6>2, OccupiesBuffer DEF Alone
        <5> QED BY <5>2, <5>3, <5>4
      <4> QED BY <4>1, <4>2
    <3>3. \A p \in Spot \ {Bar} : ~ Occupies(p, w)'
      <4>1. CASE In(internalExecuting, w)
        BY <2>3, <2>5, <3>1, <4>1 DEF Alone
      <4>2. CASE wf[w].state = "barrier"
        BY <2>3, <2>4, <3>1, <4>2 DEF Placed, Alone
      <4> QED BY <3>2, <4>1, <4>2
    <3>4. w \in pool'
      BY <1>1, <2>4, <2>5, <3>2 DEF Placed
    <3>5. CASE wf'[w].state = "barrier"
      <4>1. Doing(w)' = "barrier"
        BY <1>1, <3>2, <3>5 DEF Doing, KindAt, InstAt
      <4>2. Alone(w, Bar)'
        BY <2>2, <2>3, <3>3, <3>5 DEF Alone
      <4> QED BY <3>4, <3>5, <4>1, <4>2 DEF Placed
    <3>6. CASE wf'[w].state \notin {"running", "barrier"}
      BY <2>2, <2>3, <3>3, <3>6 DEF Placed
    <3> QED BY <3>2, <3>5, <3>6
  <2> QED BY <2>7, <2>8
<1> QED BY <1>3, <1>4 DEF PlaceInv

-----------------------------------------------------------------------------
(* Instruction buffers and program counters.                               *)

Busy(r) == r.state \in {"running", "barrier"}

\* The buffer of a wave holds consecutive lines around the program counter,
\* the next instruction and the one at work are at the program counter, and
\* their line is in the buffer.
BufferOK(r) ==
  /\ r.next \in {0, r.pc}
  /\ \A i \in DOMAIN r.buf : r.buf[i] = r.start + i - 1
  /\ r.buf = <<>> => r.start = Line(r.pc)
  /\ r.start <= Line(r.pc) /\ Line(r.pc) <= r.start + Len(r.buf)
  /\ Busy(r) \/ r.next # 0 => Line(r.pc) < r.start + Len(r.buf)
  /\ Busy(r) => r.next = 0 /\ r.inst = r.pc

PCOK(w) == wf[w].pc <= Len(setup.prog[w])

BufInv == \A w \in Wave : BufferOK(wf[w]) /\ PCOK(w)

LEMMA DivMod ==
  ASSUME NEW a \in Nat, NEW n \in Nat \ {0}
  PROVE  /\ a \div n \in Nat /\ a % n \in Nat
         /\ a = (a \div n) * n + (a % n)
  OBVIOUS

LEMMA NextLine ==
  ASSUME NEW pc \in Nat \ {0}
  PROVE  Line(pc) \in Nat /\ (Line(pc + 1) = Line(pc) \/ Line(pc + 1) = Line(pc) + 1)
<1>1. LineInsts \in Nat \ {0} /\ pc - 1 \in Nat /\ pc \in Nat /\ (pc + 1) - 1 = pc
  BY LimitAssumption
<1>2. pc \div LineInsts = (pc - 1) \div LineInsts \/ pc \div LineInsts = ((pc - 1) \div LineInsts) + 1
  BY <1>1
<1>3. (pc - 1) \div LineInsts \in Nat
  BY <1>1
<1> QED BY <1>1, <1>2, <1>3 DEF Line

\* The records of a wave have the fields that matter in common.
LEMMA BufferOKSame ==
  ASSUME NEW r, NEW q, BufferOK(r), q.pc = r.pc, q.buf = r.buf, q.start = r.start, q.next = r.next,
         Busy(q) => Busy(r) /\ q.inst = r.inst
  PROVE  BufferOK(q)
  BY DEF BufferOK

\* The wave goes on to the next instruction.
LEMMA SetReadyNext ==
  ASSUME NEW r \in WaveRecord, BufferOK(r), Busy(r)
  PROVE  BufferOK(SetReady(r, r.pc + 1))
<1> DEFINE pc == r.pc + 1
           s == SetReady(r, pc)
<1>1. /\ r.pc \in Nat \ {0} /\ r.start \in Nat /\ r.buf \in Seq(Nat) /\ pc \in Nat \ {0}
      /\ r.next = 0
  BY DEF WaveRecord, BufferOK
<1>2. Line(r.pc) \in Nat /\ (Line(pc) = Line(r.pc) \/ Line(pc) = Line(r.pc) + 1)
  BY <1>1, NextLine
<1>3. r.start <= Line(r.pc) /\ Line(r.pc) < r.start + Len(r.buf) /\ \A i \in DOMAIN r.buf : r.buf[i] = r.start + i - 1
  BY DEF BufferOK
<1>4. r.buf # <<>>
  BY <1>1, <1>2, <1>3
<1> DEFINE k == Line(pc) - r.start
           new == SubSeq(r.buf, k + 1, Len(r.buf))
<1>5. k \in Nat /\ k <= Len(r.buf) /\ r.start + k = Line(pc)
  BY <1>1, <1>2, <1>3
<1> HIDE DEF pc
<1>6. s = [r EXCEPT !.state = "ready", !.pc = pc, !.buf = new, !.start = Line(pc)]
  <2>1. ~ (r.buf = <<>> \/ Line(pc) < r.start)
    BY <1>1, <1>2, <1>3, <1>4
  <2>2. s = [r EXCEPT !.state = "ready", !.pc = pc, !.buf = new, !.start = r.start + k]
    BY <2>1 DEF SetReady
  <2> HIDE DEF k, new
  <2> QED BY <1>5, <2>2
<1>7. /\ new \in Seq(Nat) /\ Len(new) \in Nat
      /\ \A i \in DOMAIN new : new[i] = Line(pc) + i - 1
  <2> HIDE DEF k
  <2>1. /\ new \in Seq(Nat) /\ Len(new) = Len(r.buf) - k
        /\ DOMAIN new = 1 .. Len(r.buf) - k
        /\ \A i \in 1 .. Len(r.buf) - k : new[i] = r.buf[k + i]
    BY SMTT(30), <1>1, <1>5
  <2>2. \A i \in 1 .. Len(r.buf) - k : k + i \in DOMAIN r.buf
    BY <1>1, <1>5
  <2>3. \A i \in 1 .. Len(r.buf) - k : r.buf[k + i] = r.start + (k + i) - 1
    BY <1>3, <2>2
  <2> HIDE DEF new
  <2>4. Len(r.buf) - k \in Nat /\ Line(pc) \in Int
    BY <1>1, <1>5
  <2>5. \A i \in 1 .. Len(r.buf) - k : new[i] = Line(pc) + i - 1
    <3> SUFFICES ASSUME NEW i \in 1 .. Len(r.buf) - k PROVE new[i] = Line(pc) + i - 1
      OBVIOUS
    <3>1. new[i] = r.start + (k + i) - 1
      BY <2>1, <2>3
    <3> QED BY <1>1, <1>5, <2>4, <3>1
  <2> QED BY <2>1, <2>4, <2>5
<1> HIDE DEF new, k, s
<1>8. /\ s.state = "ready" /\ s.pc = pc /\ s.buf = new /\ s.start = Line(pc) /\ s.next = 0
  BY <1>1, <1>6 DEF WaveRecord
<1>9. Line(pc) \in Nat
  BY <1>2
<1>10. BufferOK(s)
  BY <1>7, <1>8, <1>9 DEF BufferOK, Busy
<1> QED BY <1>10 DEF s, pc

\* A branch empties the buffer.
LEMMA BranchTo ==
  ASSUME NEW r \in WaveRecord, NEW pc \in Nat \ {0}
  PROVE  /\ Branch(r, pc) \in WaveRecord
         /\ Branch(r, pc).state = "ready" /\ Branch(r, pc).pc = pc /\ Branch(r, pc).next = r.next
         /\ Branch(r, pc).buf = <<>> /\ Branch(r, pc).start = Line(pc)
         /\ Branch(r, pc).vm = r.vm /\ Branch(r, pc).lgkm = r.lgkm /\ Branch(r, pc).flats = r.flats
<1> DEFINE n == r.turns + 1
           q == [r EXCEPT !.buf = <<>>, !.turns = n]
           t == SetReady(q, pc)
           s == [t EXCEPT !.start = Line(pc)]
<1>0. <<>> \in Seq(Nat) /\ n \in Nat
  BY DEF WaveRecord
<1> HIDE DEF n
<1>1. /\ q \in WaveRecord /\ q.buf = <<>> /\ q.next = r.next
      /\ q.vm = r.vm /\ q.lgkm = r.lgkm /\ q.flats = r.flats
  BY <1>0 DEF WaveRecord
<1> HIDE DEF q
<1>2. t = [q EXCEPT !.state = "ready", !.pc = pc, !.buf = SubSeq(<<>>, 1, 0), !.start = q.start + 0]
  BY <1>1 DEF SetReady
<1>3. SubSeq(<<>>, 1, 0) = <<>>
  OBVIOUS
<1>4. /\ t.state = "ready" /\ t.pc = pc /\ t.buf = <<>> /\ t.next = r.next /\ t \in WaveRecord
      /\ t.vm = r.vm /\ t.lgkm = r.lgkm /\ t.flats = r.flats
  BY <1>1, <1>2, <1>3, SetReadyIs DEF WaveRecord
<1> HIDE DEF t
<1>5. Line(pc) \in Nat
  BY LineType
<1>6. /\ s.state = "ready" /\ s.pc = pc /\ s.buf = <<>> /\ s.next = r.next /\ s \in WaveRecord
      /\ s.start = Line(pc) /\ s.vm = r.vm /\ s.lgkm = r.lgkm /\ s.flats = r.flats
  BY <1>4, <1>5 DEF WaveRecord
<1>7. s = Branch(r, pc)
  BY DEF Branch, s, t, q, n
<1> HIDE DEF s
<1> QED BY <1>6, <1>7

\* So the buffer is in order wherever the branch leads.
LEMMA BranchOK ==
  ASSUME NEW r \in WaveRecord, BufferOK(r), Busy(r), NEW pc \in Nat \ {0}
  PROVE  BufferOK(Branch(r, pc))
<1> DEFINE s == Branch(r, pc)
<1>1. s.state = "ready" /\ s.pc = pc /\ s.buf = <<>> /\ s.next = 0 /\ s.start = Line(pc)
  BY BranchTo DEF BufferOK
<1>2. Line(pc) \in Nat
  BY LineType
<1> HIDE DEF s
<1>3. BufferOK(s)
  BY <1>1, <1>2 DEF BufferOK, Busy
<1> QED BY <1>3 DEF s

\* Where a branch leads.
LEMMA BranchLeads ==
  ASSUME CUType, NEW w \in Wave, wf[w].turns + 1 <= Len(setup.jumps[w])
  PROVE  /\ setup.jumps[w][wf[w].turns + 1] \in 1 .. Len(setup.prog[w])
         /\ setup.jumps[w][wf[w].turns + 1] \in Nat \ {0}
<1>1. setup.jumps[w] \in Seq(1 .. Len(setup.prog[w])) /\ setup.prog[w] \in Seq(Inst)
  BY SetupAssumption DEF CUType
<1>2. wf[w].turns + 1 \in 1 .. Len(setup.jumps[w])
  <2>1. wf[w].turns \in Nat
    BY DEF CUType, WaveRecord
  <2>2. Len(setup.jumps[w]) \in Nat
    BY <1>1
  <2> QED BY <2>1, <2>2
<1>3. setup.jumps[w][wf[w].turns + 1] \in 1 .. Len(setup.prog[w])
  BY <1>1, <1>2
<1> QED BY <1>1, <1>3

\* The program counter of a wave that is not at its last instruction.
LEMMA NextPC ==
  ASSUME CUType, BufInv, NEW w \in Wave, Busy(wf[w]), Doing(w) # "endpgm"
  PROVE  wf[w].pc + 1 <= Len(setup.prog[w])
<1>1. BufferOK(wf[w]) /\ PCOK(w) /\ wf[w] \in WaveRecord
  BY DEF BufInv, CUType
<1>2. wf[w].inst = wf[w].pc /\ wf[w].pc <= Len(setup.prog[w]) /\ wf[w].pc \in Nat \ {0}
  BY <1>1 DEF BufferOK, PCOK, WaveRecord
<1>3. setup.prog[w] \in Seq(Inst) /\ setup.prog[w][Len(setup.prog[w])].kind = "endpgm"
  BY SetupAssumption DEF CUType
<1>4. wf[w].pc # Len(setup.prog[w])
  BY <1>2, <1>3 DEF Doing, KindAt, InstAt
<1> QED BY <1>2, <1>3, <1>4

\* The next instruction is one of the program's.
LEMMA NextKind ==
  ASSUME CUType, BufInv, NEW w \in Wave
  PROVE  /\ wf[w].pc \in 1 .. Len(setup.prog[w]) /\ KindAt(w, wf[w].pc) \in Kind
         /\ wf[w].next # 0 => wf[w].next = wf[w].pc
<1>1. BufferOK(wf[w]) /\ PCOK(w) /\ wf[w] \in WaveRecord
  BY DEF BufInv, CUType
<1>2. setup.prog[w] \in Seq(Inst)
  BY SetupAssumption DEF CUType
<1>3. wf[w].pc \in 1 .. Len(setup.prog[w])
  BY <1>1, <1>2 DEF PCOK, WaveRecord
<1>4. InstAt(w, wf[w].pc) \in Inst
  BY <1>2, <1>3 DEF InstAt
<1> QED BY <1>1, <1>2, <1>3, <1>4 DEF BufferOK, KindAt, Inst

-----------------------------------------------------------------------------
(* Types.                                                                  *)

LEMMA InfoType ==
  ASSUME NEW w \in Wave, NEW at \in Nat, NEW part \in Nat, NEW last \in BOOLEAN, NEW era \in Nat
  PROVE  Info(w, at, part, last, era) \in Access
  BY DEF Info, Access, Id

LEMMA PartsType ==
  ASSUME CUType, NEW w \in Wave, NEW at \in Nat, NEW n \in Nat
  PROVE  Parts(w, at, n) \in Seq(Access) /\ Len(Parts(w, at, n)) = n
<1>1. cp.era \in Nat
  BY DEF CUType
<1>2. \A i \in 1 .. n : Info(w, at, i, i = n, cp.era) \in Access
  <2> SUFFICES ASSUME NEW i \in 1 .. n PROVE Info(w, at, i, i = n, cp.era) \in Access
    OBVIOUS
  <2>1. (i = n) \in BOOLEAN /\ i \in Nat
    OBVIOUS
  <2> QED BY <1>1, <2>1, InfoType
<1>3. Parts(w, at, n) = [i \in 1 .. n |-> Info(w, at, i, i = n, cp.era)]
  BY DEF Parts
<1> QED BY <1>2, <1>3

LEMMA ReturnedType ==
  ASSUME NEW r \in WaveRecord, NEW info \in Access, NEW c \in Channel
  PROVE  Returned(c, r, info) \in WaveRecord
<1>1. FetchReturned(r, info.at) \in WaveRecord
  <2>1. info.at \in Nat
    BY DEF Access
  <2>2. Append(r.buf, info.at) \in Seq(Nat)
    BY <2>1 DEF WaveRecord
  <2> QED BY <2>2 DEF FetchReturned, WaveRecord
<1>0. r.vm - 1 \in Int /\ r.lgkm - 1 \in Int
  BY DEF WaveRecord
<1> DEFINE v == r.vm - 1
           l == r.lgkm - 1
<1>2. [r EXCEPT !.lgkm = l] \in WaveRecord
  <2>1. l \in Int
    BY <1>0
  <2> HIDE DEF l
  <2> QED BY <2>1 DEF WaveRecord
<1>3. [r EXCEPT !.vm = v, !.lgkm = l] \in WaveRecord
  <2>1. v \in Int /\ l \in Int
    BY <1>0
  <2> HIDE DEF v, l
  <2> QED BY <2>1 DEF WaveRecord
<1> QED BY <1>1, <1>2, <1>3 DEF Returned, Channel

\* The line that the decoder reads is in the buffer, and gives the program counter.
LEMMA DecodedIs ==
  ASSUME CUType, BufInv, NEW w \in Wave, Buffered(wf[w])
  PROVE  wf[w].buf[Line(wf[w].pc) - wf[w].start + 1] * LineInsts + ((wf[w].pc - 1) % LineInsts) + 1
           = wf[w].pc
<1> DEFINE r == wf[w]
           k == Line(r.pc) - r.start + 1
           n == Line(r.pc)
<1>1. BufferOK(r) /\ r \in WaveRecord
  BY DEF BufInv, CUType
<1>2. r.pc \in Nat \ {0} /\ r.start \in Nat /\ r.buf \in Seq(Nat) /\ r.pc - 1 \in Nat
  BY <1>1 DEF WaveRecord
<1>3. n \in Nat
  BY <1>2, NextLine
<1>4. r.start <= n /\ n < r.start + Len(r.buf) /\ \A i \in DOMAIN r.buf : r.buf[i] = r.start + i - 1
  BY <1>1 DEF BufferOK, Buffered
<1>5. n = (r.pc - 1) \div LineInsts
  BY DEF Line
<1> HIDE DEF n, r
<1>6. k \in DOMAIN r.buf
  BY <1>2, <1>3, <1>4 DEF n
<1>7. r.buf[k] = n
  <2>1. r.buf[k] = r.start + k - 1
    BY <1>4, <1>6
  <2> QED BY <1>2, <1>3, <2>1 DEF n
<1>8. n * LineInsts + ((r.pc - 1) % LineInsts) = r.pc - 1
  BY <1>2, <1>5, DivMod, LimitAssumption
<1>9. n * LineInsts \in Nat /\ (r.pc - 1) % LineInsts \in Nat
  BY <1>2, <1>3, LimitAssumption, DivMod
<1>10. n * LineInsts + ((r.pc - 1) % LineInsts) + 1 = r.pc
  BY <1>2, <1>8, <1>9
<1> QED BY <1>7, <1>10 DEF n, r

LEMMA SchedulerTypes ==
  ASSUME CUType, BufInv, SchedulerStep, ~ EvaluateInternalInst
  PROVE  CUType'
<1>1. PICK w \in Wave : DecodeNextInst(w) \/ DoFetch(w) \/ Issue(w)
  BY DEF SchedulerStep
<1>2. wf[w] \in WaveRecord /\ wf \in [Wave -> WaveRecord] /\ BufferOK(wf[w])
  BY DEF CUType, BufInv
<1>3. CASE DecodeNextInst(w)
  <2>1. /\ UNCHANGED <<setup, pool, schedVars, pipeVars, memVars, doneVars, ctl, cp>>
        /\ \/ wf' = [wf EXCEPT ![w].start = Line(wf[w].pc)]
           \/ wf' = [wf EXCEPT ![w].next = wf[w].pc]
    BY <1>3, DecodedIs DEF DecodeNextInst
  <2>2. Line(wf[w].pc) \in Nat /\ wf[w].pc \in Nat
    BY <1>2, LineType DEF WaveRecord
  <2>3. wf' \in [Wave -> WaveRecord]
    <3>1. /\ [wf[w] EXCEPT !.start = Line(wf[w].pc)] \in WaveRecord
          /\ [wf[w] EXCEPT !.next = wf[w].pc] \in WaveRecord
      BY <1>2, <2>2 DEF WaveRecord
    <3>2. CASE wf' = [wf EXCEPT ![w].start = Line(wf[w].pc)]
      BY <1>2, <3>1, <3>2
    <3>3. CASE wf' = [wf EXCEPT ![w].next = wf[w].pc]
      BY <1>2, <3>1, <3>3
    <3> QED BY <2>1, <3>2, <3>3
  <2> QED BY <2>1, <2>3 DEF CUType, schedVars, pipeVars, unitVars, vmemVars, memVars, doneVars
<1>4. CASE DoFetch(w)
  <2> DEFINE start == IF wf[w].buf = <<>> THEN Line(wf[w].pc) ELSE wf[w].start
             info == Info(w, start + Len(wf[w].buf), wf[w].pc, TRUE, cp.era)
  <2>1. wf[w].pc \in Nat \ {0} /\ start \in Nat /\ start + Len(wf[w].buf) \in Nat
    BY <1>2, LineType DEF WaveRecord
  <2>2. info \in Access
    BY <2>1, InfoType DEF CUType
  <2>3. /\ wf' = [wf EXCEPT ![w].start = start, ![w].fetching = TRUE]
        /\ inFlight' = [inFlight EXCEPT !["inst"] = Append(@, info)]
        /\ mem' = [mem EXCEPT !["inst"] = Append(@, info.id)]
        /\ UNCHANGED <<setup, pool, schedVars, pipeVars, shadow, rsp, doneVars, ctl, cp>>
    BY <1>4 DEF DoFetch
  <2> HIDE DEF info, start
  <2>4. wf' \in [Wave -> WaveRecord]
    BY <1>2, <2>1, <2>3 DEF WaveRecord
  <2>5. inFlight' \in [Channel -> Seq(Access)] /\ mem' \in [Channel -> Seq(Id)]
    <3>1. info.id \in Id
      BY <2>2 DEF Access
    <3>2. Append(inFlight["inst"], info) \in Seq(Access) /\ Append(mem["inst"], info.id) \in Seq(Id)
      BY <2>2, <3>1 DEF CUType, Channel
    <3>3. inFlight' \in [Channel -> Seq(Access)]
      BY <2>3, <3>2 DEF CUType
    <3>4. mem' \in [Channel -> Seq(Id)]
      BY <2>3, <3>2 DEF CUType
    <3> QED BY <3>3, <3>4
  <2> QED BY SMTT(30), <2>3, <2>4, <2>5 DEF CUType, schedVars, pipeVars, unitVars, vmemVars, doneVars
<1>5. CASE Issue(w)
  <2>1. /\ wf' = [wf EXCEPT ![w].inst = wf[w].next, ![w].next = 0, ![w].state = "running"]
        /\ UNCHANGED <<setup, pool, barrierBuffer, simd, vmemVars, readBuf, memVars, doneVars, ctl, cp>>
    BY <1>5 DEF Issue
  <2>2. wf' \in [Wave -> WaveRecord]
    BY <1>2, <2>1 DEF WaveRecord, State
  <2>0. /\ internalExecuting' = Append(internalExecuting, w) \/ UNCHANGED internalExecuting
        /\ stage' = [stage EXCEPT !["branch"].read = w] \/ UNCHANGED stage
        /\ (\E d : toDecode' = [toDecode EXCEPT ![d] = w]) \/ UNCHANGED toDecode
    BY <1>5 DEF Issue
  <2>3. internalExecuting' \in Seq(Wave)
    <3>1. internalExecuting \in Seq(Wave)
      BY DEF CUType
    <3> QED BY <2>0, <3>1
  <2>4. stage' \in [Staged -> [read : Wave \cup {None}, exec : Wave \cup {None}, write : Wave \cup {None}]]
    <3>1. stage \in [Staged -> [read : Wave \cup {None}, exec : Wave \cup {None}, write : Wave \cup {None}]]
      BY DEF CUType
    <3> QED BY <2>0, <3>1
  <2>5. toDecode' \in [Decode -> Wave \cup {None}]
    BY <2>0 DEF CUType
  <2> QED BY <2>1, <2>2, <2>3, <2>4, <2>5 DEF CUType, vmemVars, memVars, doneVars
<1> QED BY <1>1, <1>3, <1>4, <1>5

LEMMA EvaluateTypes ==
  ASSUME CUType, PlaceInv, BarrierRoom, EvaluateInternalInst
  PROVE  CUType'
<1>1. PICK e : /\ EvalInv(e, Len(internalExecuting))
               /\ wf' = e.waves /\ barrierBuffer' = e.barrier /\ internalExecuting' = e.kept
               /\ events' = events \cup e.ended
               /\ UNCHANGED <<setup, pool, pipeVars, memVars, predicted, ctl, cp>>
  BY EvaluateIs
<1>2. e \in Run
  BY <1>1 DEF EvalInv
<1>3. /\ wf' \in [Wave -> WaveRecord] /\ barrierBuffer' \in Seq(Wave)
      /\ internalExecuting' \in Seq(Wave) /\ events' \subseteq Wave
  BY <1>1, <1>2 DEF Run, CUType
<1> QED BY <1>1, <1>3 DEF CUType, pipeVars, unitVars, vmemVars, memVars

\* A record that is ready for the next instruction, with its counters changed.
LEMMA CountedType ==
  ASSUME NEW r \in WaveRecord, NEW v \in {0, 1}
  PROVE  /\ SetReady(r, r.pc + 1) \in WaveRecord
         /\ WithAccess(SetReady(r, r.pc + 1), v) \in WaveRecord
<1> DEFINE s == SetReady(r, r.pc + 1)
           m == s.vm + v
           l == s.lgkm + 1
           f == s.flats + v
           k == s.smems + 1 - v
<1>1. r.pc + 1 \in Nat \ {0}
  BY DEF WaveRecord
<1>2. s \in WaveRecord
  BY <1>1, SetReadyIs
<1> HIDE DEF s
<1>3. m \in Int /\ l \in Int /\ f \in Nat /\ k \in Nat
  <2>1. s.vm \in Int /\ s.lgkm \in Int /\ s.flats \in Nat /\ s.smems \in Nat
    BY <1>2 DEF WaveRecord
  <2>2. m \in Int /\ l \in Int /\ f \in Nat
    BY <2>1
  <2>3. CASE v = 0
    BY <2>1, <2>2, <2>3
  <2>4. CASE v = 1
    BY <2>1, <2>2, <2>4
  <2> QED BY <2>3, <2>4
<1>4. [s EXCEPT !.vm = m, !.lgkm = l, !.flats = f, !.smems = k] \in WaveRecord
  <2> HIDE DEF m, l, f, k
  <2> QED BY <1>2, <1>3 DEF WaveRecord
<1> QED BY <1>2, <1>4 DEF s, WithAccess

\* SetReady leaves the counters alone.
LEMMA SetReadyCounts ==
  ASSUME NEW r \in WaveRecord, NEW pc \in Nat \ {0}
  PROVE  /\ SetReady(r, pc).vm = r.vm /\ SetReady(r, pc).lgkm = r.lgkm
         /\ SetReady(r, pc).next = r.next /\ SetReady(r, pc).fetching = r.fetching
         /\ SetReady(r, pc).flats = r.flats /\ SetReady(r, pc).smems = r.smems
  BY DEF SetReady, WaveRecord

StageType == [Staged -> [read : Wave \cup {None}, exec : Wave \cup {None}, write : Wave \cup {None}]]

LEMMA HandTypes ==
  ASSUME CUType, DecodeScalar \/ DecodeLDS \/ DecodeVector \/ DecodeVMem
                 \/ \E u \in Staged : RunReadStage(u) \/ RunExecStage(u)
  PROVE  CUType'
<1>0. stage \in StageType /\ toDecode \in [Decode -> Wave \cup {None}]
      /\ simd \in [SIMD -> Wave \cup {None}] /\ instPipe \in Seq(Wave)
  BY DEF CUType, StageType
<1>1. CASE DecodeScalar
  <2>1. /\ stage' = [stage EXCEPT !["scalar"].read = toDecode["scalarD"]]
        /\ toDecode' = [toDecode EXCEPT !["scalarD"] = None]
        /\ UNCHANGED <<waveVars, schedVars, simd, vmemVars, readBuf, memVars, doneVars, ctl, cp>>
    BY <1>1 DEF DecodeScalar
  <2>2. stage' \in StageType /\ toDecode' \in [Decode -> Wave \cup {None}]
    BY <1>0, <2>1 DEF StageType, Decode, Staged
  <2> QED BY <2>1, <2>2 DEF CUType, StageType, waveVars, schedVars, vmemVars, memVars, doneVars
<1>2. CASE DecodeLDS
  <2>1. /\ stage' = [stage EXCEPT !["lds"].read = toDecode["ldsD"]]
        /\ toDecode' = [toDecode EXCEPT !["ldsD"] = None]
        /\ UNCHANGED <<waveVars, schedVars, simd, vmemVars, readBuf, memVars, doneVars, ctl, cp>>
    BY <1>2 DEF DecodeLDS
  <2>2. stage' \in StageType /\ toDecode' \in [Decode -> Wave \cup {None}]
    BY <1>0, <2>1 DEF StageType, Decode, Staged
  <2> QED BY <2>1, <2>2 DEF CUType, StageType, waveVars, schedVars, vmemVars, memVars, doneVars
<1>3. CASE DecodeVector
  <2>1. /\ simd' = [simd EXCEPT ![SimdOf[toDecode["vectorD"]]] = toDecode["vectorD"]]
        /\ toDecode' = [toDecode EXCEPT !["vectorD"] = None]
        /\ UNCHANGED <<waveVars, schedVars, stage, vmemVars, readBuf, memVars, doneVars, ctl, cp>>
    BY <1>3 DEF DecodeVector
  <2>2. simd' \in [SIMD -> Wave \cup {None}] /\ toDecode' \in [Decode -> Wave \cup {None}]
    BY <1>0, <2>1 DEF Decode
  <2> QED BY <2>1, <2>2 DEF CUType, waveVars, schedVars, vmemVars, memVars, doneVars
<1>4. CASE DecodeVMem
  <2>1. /\ instPipe' = Append(instPipe, toDecode["vmemD"]) /\ toDecode["vmemD"] # None
        /\ toDecode' = [toDecode EXCEPT !["vmemD"] = None]
        /\ UNCHANGED <<waveVars, schedVars, stage, simd, transWaiting, transPipe, readBuf, memVars, doneVars, ctl, cp>>
    BY <1>4 DEF DecodeVMem
  <2>2. toDecode["vmemD"] \in Wave
    BY <1>0, <2>1 DEF Decode
  <2>3. instPipe' \in Seq(Wave) /\ toDecode' \in [Decode -> Wave \cup {None}]
    BY <1>0, <2>1, <2>2 DEF Decode
  <2> QED BY <2>1, <2>3 DEF CUType, waveVars, schedVars, memVars, doneVars
<1>5. CASE \E u \in Staged : RunReadStage(u) \/ RunExecStage(u)
  <2>1. PICK u \in Staged : RunReadStage(u) \/ RunExecStage(u)
    BY <1>5
  <2>2. UNCHANGED <<waveVars, schedVars, toDecode, simd, vmemVars, readBuf, memVars, doneVars, ctl, cp>>
    BY <2>1 DEF RunReadStage, RunExecStage
  <2>3. stage' \in StageType
    BY <1>0, <2>1 DEF StageType, RunReadStage, RunExecStage
  <2> QED BY <2>2, <2>3 DEF CUType, StageType, waveVars, schedVars, vmemVars, memVars, doneVars
<1> QED BY <1>1, <1>2, <1>3, <1>4, <1>5

LEMMA ExecuteTypes ==
  ASSUME CUType, NEW n \in 0 .. MaxTransactions, ExecuteSMEMLoad(n) \/ ExecuteFlat(n)
  PROVE  CUType'
<1>0. n \in Nat
  BY LimitAssumption
<1>1. /\ stage \in StageType /\ instPipe \in Seq(Wave) /\ readBuf \in Seq(Access)
      /\ wf \in [Wave -> WaveRecord] /\ inFlight \in [Channel -> Seq(Access)]
  BY DEF CUType, StageType
<1>2. CASE ExecuteSMEMLoad(n)
  <2> DEFINE w == stage["scalar"].exec
             at == wf[w].smems + 1
  <2>1. /\ w # None
        /\ readBuf' = readBuf \o Parts(w, at, n)
        /\ inFlight' = [inFlight EXCEPT !["scalar"] = @ \o Parts(w, at, n)]
        /\ wf' = [wf EXCEPT ![w] = WithAccess(SetReady(wf[w], wf[w].pc + 1), 0)]
        /\ stage' = [stage EXCEPT !["scalar"].exec = None]
        /\ UNCHANGED <<setup, pool, schedVars, toDecode, simd, vmemVars, shadow, mem, rsp, doneVars, ctl, cp>>
    BY <1>2 DEF ExecuteSMEMLoad
  <2>2. w \in Wave
    BY <1>1, <2>1 DEF StageType, Staged
  <2>3. Parts(w, at, n) \in Seq(Access)
    <3> HIDE DEF w
    <3>1. wf[w] \in WaveRecord
      BY <1>1, <2>2
    <3>2. at \in Nat
      BY <3>1 DEF WaveRecord
    <3> HIDE DEF at
    <3> QED BY <1>0, <2>2, <3>2, PartsType
  <2>4. stage' \in StageType
    BY <1>1, <2>1 DEF StageType, Staged
  <2> HIDE DEF w, at
  <2>5. readBuf' \in Seq(Access)
    BY <1>1, <2>1, <2>3
  <2>6. inFlight' \in [Channel -> Seq(Access)]
    <3>1. inFlight["scalar"] \o Parts(w, at, n) \in Seq(Access)
      BY <1>1, <2>3 DEF Channel
    <3> QED BY <1>1, <2>1, <3>1
  <2>7. wf' \in [Wave -> WaveRecord]
    <3>1. WithAccess(SetReady(wf[w], wf[w].pc + 1), 0) \in WaveRecord
      BY <1>1, <2>2, CountedType
    <3> QED BY <1>1, <2>1, <2>2, <3>1
  <2> QED BY <2>1, <2>4, <2>5, <2>6, <2>7 DEF CUType, StageType, schedVars, vmemVars, doneVars
<1>3. CASE ExecuteFlat(n)
  <2> DEFINE w == Head(instPipe)
             at == wf[w].flats + 1
             s == SetReady(wf[w], wf[w].pc + 1)
  <2>1. /\ instPipe # <<>> /\ instPipe' = Tail(instPipe)
        /\ UNCHANGED <<setup, pool, schedVars, unitVars, transPipe, readBuf, shadow, mem, rsp, doneVars, ctl, cp>>
        /\ \/ UNCHANGED <<wf, transWaiting, inFlight>>
           \/ /\ wf' = [wf EXCEPT ![w] = s] \/ wf' = [wf EXCEPT ![w] = WithAccess(s, 1)]
              /\ transWaiting' = Parts(w, at, n)
              /\ inFlight' = [inFlight EXCEPT !["vector"] = @ \o Parts(w, at, n)]
    BY <1>3 DEF ExecuteFlat
  <2>2. w \in Wave /\ instPipe' \in Seq(Wave)
    BY <1>1, <2>1
  <2>3. Parts(w, at, n) \in Seq(Access)
    <3> HIDE DEF w
    <3>1. wf[w] \in WaveRecord
      BY <1>1, <2>2
    <3>2. at \in Nat
      BY <3>1 DEF WaveRecord
    <3> HIDE DEF at
    <3> QED BY <1>0, <2>2, <3>2, PartsType
  <2> HIDE DEF w, at
  <2>4. s \in WaveRecord /\ WithAccess(s, 1) \in WaveRecord
    BY <1>1, <2>2, CountedType
  <2> HIDE DEF s
  <2>7. wf' \in [Wave -> WaveRecord]
    BY <1>1, <2>1, <2>2, <2>4
  <2>8. inFlight["vector"] \o Parts(w, at, n) \in Seq(Access)
    BY <1>1, <2>3 DEF Channel
  <2>9. inFlight' \in [Channel -> Seq(Access)]
    BY <1>1, <2>1, <2>8
  <2>10. transWaiting' \in Seq(Access)
    BY <2>1, <2>3 DEF CUType
  <2> QED BY <2>1, <2>2, <2>7, <2>9, <2>10 DEF CUType, schedVars, unitVars, doneVars
<1> QED BY <1>2, <1>3

LEMMA WriteTypes ==
  ASSUME CUType, \/ \E u \in Staged : RunWriteStage(u)
                 \/ BranchWriteStage
                 \/ \E s \in SIMD : SIMDExec(s)
  PROVE  CUType'
<1>1. stage \in StageType /\ simd \in [SIMD -> Wave \cup {None}] /\ wf \in [Wave -> WaveRecord]
  BY DEF CUType, StageType
<1>2. ASSUME NEW w \in Wave PROVE SetReady(wf[w], wf[w].pc + 1) \in WaveRecord
  BY <1>1, CountedType DEF WaveRecord
<1>3. CASE \E u \in Staged : RunWriteStage(u)
  <2>1. PICK u \in Staged : RunWriteStage(u)
    BY <1>3
  <2>2. stage[u].write \in Wave
    BY <1>1, <2>1 DEF StageType, RunWriteStage
  <2>3. stage' \in StageType /\ wf' \in [Wave -> WaveRecord]
    <3>1. stage' \in StageType
      BY <1>1, <2>1 DEF RunWriteStage, StageType
    <3>2. wf' = [wf EXCEPT ![stage[u].write] = SetReady(wf[stage[u].write], wf[stage[u].write].pc + 1)]
      BY <2>1 DEF RunWriteStage
    <3> QED BY <1>1, <1>2, <2>2, <3>1, <3>2
  <2> QED BY <2>1, <2>3 DEF RunWriteStage, CUType, StageType, schedVars, vmemVars, memVars, doneVars
<1>4. CASE \E s \in SIMD : SIMDExec(s)
  <2>1. PICK s \in SIMD : SIMDExec(s)
    BY <1>4
  <2>2. simd[s] \in Wave /\ simd' \in [SIMD -> Wave \cup {None}]
    BY <1>1, <2>1 DEF SIMDExec
  <2>3. wf' = [wf EXCEPT ![simd[s]] = SetReady(wf[simd[s]], wf[simd[s]].pc + 1)]
    BY <2>1 DEF SIMDExec
  <2>4. wf' \in [Wave -> WaveRecord]
    BY <1>1, <1>2, <2>2, <2>3
  <2> QED BY <2>1, <2>2, <2>4 DEF SIMDExec, CUType, schedVars, vmemVars, memVars, doneVars
<1>5. CASE BranchWriteStage
  <2> DEFINE w == stage["branch"].write
             to == setup.jumps[w][wf[w].turns + 1]
  <2>1. /\ w # None /\ wf[w].turns + 1 <= Len(setup.jumps[w])
        /\ wf' = [wf EXCEPT ![w] = Branch(wf[w], to)]
        /\ stage' = [stage EXCEPT !["branch"].write = None]
        /\ UNCHANGED <<setup, pool, schedVars, toDecode, simd, vmemVars, readBuf, memVars, doneVars, ctl, cp>>
    BY <1>5 DEF BranchWriteStage
  <2>2. w \in Wave
    BY <1>1, <2>1 DEF StageType, Staged
  <2>3. stage' \in StageType
    BY <1>1, <2>1 DEF StageType, Staged
  <2>4. to \in Nat \ {0}
    BY <2>1, <2>2, BranchLeads
  <2> HIDE DEF w, to
  <2>5. Branch(wf[w], to) \in WaveRecord
    BY <1>1, <2>2, <2>4, BranchTo
  <2>6. wf' \in [Wave -> WaveRecord]
    BY <1>1, <2>1, <2>2, <2>5
  <2> QED BY <2>1, <2>3, <2>6 DEF CUType, StageType, schedVars, vmemVars, memVars, doneVars
<1> QED BY <1>3, <1>4, <1>5

LEMMA SendTypes ==
  ASSUME CUType, ScalarSendRequest \/ InsertTransactionToPipeline \/ VectorSendRequest
  PROVE  CUType'
<1>1. /\ readBuf \in Seq(Access) /\ transWaiting \in Seq(Access) /\ transPipe \in Seq(Access)
      /\ mem \in [Channel -> Seq(Id)] /\ \A x \in Access : x.id \in Id
  BY DEF CUType, Access
<1>2. CASE ScalarSendRequest
  <2>1. /\ readBuf # <<>> /\ mem' = [mem EXCEPT !["scalar"] = Append(@, Head(readBuf).id)]
        /\ readBuf' = Tail(readBuf)
        /\ UNCHANGED <<waveVars, schedVars, unitVars, vmemVars, inFlight, shadow, rsp, doneVars, ctl, cp>>
    BY <1>2 DEF ScalarSendRequest
  <2>2. Head(readBuf) \in Access /\ readBuf' \in Seq(Access)
    BY <1>1, <2>1
  <2>3. Append(mem["scalar"], Head(readBuf).id) \in Seq(Id)
    BY <1>1, <2>2 DEF Channel
  <2>4. mem' \in [Channel -> Seq(Id)]
    BY <1>1, <2>1, <2>3
  <2> QED BY SMTT(30), <2>1, <2>2, <2>4 DEF CUType, waveVars, schedVars, unitVars, vmemVars, doneVars
<1>3. CASE VectorSendRequest
  <2>1. /\ transPipe # <<>> /\ mem' = [mem EXCEPT !["vector"] = Append(@, Head(transPipe).id)]
        /\ transPipe' = Tail(transPipe)
        /\ UNCHANGED <<waveVars, schedVars, unitVars, instPipe, transWaiting, readBuf, inFlight, shadow, rsp, doneVars, ctl, cp>>
    BY <1>3 DEF VectorSendRequest
  <2>2. Head(transPipe) \in Access /\ transPipe' \in Seq(Access)
    BY <1>1, <2>1
  <2>3. Append(mem["vector"], Head(transPipe).id) \in Seq(Id)
    BY <1>1, <2>2 DEF Channel
  <2>4. mem' \in [Channel -> Seq(Id)]
    BY <1>1, <2>1, <2>3
  <2> QED BY SMTT(30), <2>1, <2>2, <2>4 DEF CUType, waveVars, schedVars, unitVars, doneVars
<1>4. CASE InsertTransactionToPipeline
  <2>1. /\ transWaiting # <<>> /\ transPipe' = Append(transPipe, Head(transWaiting))
        /\ transWaiting' = Tail(transWaiting)
        /\ UNCHANGED <<waveVars, schedVars, unitVars, instPipe, readBuf, memVars, doneVars, ctl, cp>>
    BY <1>4 DEF InsertTransactionToPipeline
  <2>2. transPipe' \in Seq(Access) /\ transWaiting' \in Seq(Access)
    BY <1>1, <2>1
  <2> QED BY <2>1, <2>2 DEF CUType, waveVars, schedVars, unitVars, memVars, doneVars
<1> QED BY <1>2, <1>3, <1>4

LEMMA MemTypes ==
  ASSUME CUType, MemStep
  PROVE  CUType'
<1>1. /\ mem \in [Channel -> Seq(Id)] /\ rsp \in [Channel -> Seq(Id)]
      /\ inFlight \in [Channel -> Seq(Access)] /\ wf \in [Wave -> WaveRecord]
  BY DEF CUType
<1>2. PICK c \in Channel : ProcessInputFromMem(c) \/ MemReply(c)
  BY DEF MemStep
<1>3. CASE MemReply(c)
  <2>1. /\ mem[c] # <<>>
        /\ rsp' = [rsp EXCEPT ![c] = Append(@, Head(mem[c]))]
        /\ mem' = [mem EXCEPT ![c] = Tail(@)]
        /\ UNCHANGED <<waveVars, schedVars, pipeVars, inFlight, shadow, doneVars, ctl, cp>>
    BY <1>3 DEF MemReply
  <2>2. Append(rsp[c], Head(mem[c])) \in Seq(Id) /\ Tail(mem[c]) \in Seq(Id)
    BY <1>1, <2>1
  <2>3. rsp' \in [Channel -> Seq(Id)] /\ mem' \in [Channel -> Seq(Id)]
    BY <1>1, <2>1, <2>2
  <2> QED BY <2>1, <2>3 DEF CUType, waveVars, schedVars, pipeVars, unitVars, vmemVars, doneVars
<1>4. CASE ProcessInputFromMem(c)
  <2> DEFINE info == Head(inFlight[c])
  <2>1. /\ rsp[c] # <<>> /\ rsp' = [rsp EXCEPT ![c] = Tail(@)]
        /\ UNCHANGED <<setup, pool, schedVars, pipeVars, shadow, mem, doneVars, ctl, cp>>
        /\ \/ /\ inFlight[c] # <<>>
              /\ inFlight' = [inFlight EXCEPT ![c] = Tail(@)]
              /\ wf' = [wf EXCEPT ![info.wave] = Returned(c, @, info)]
           \/ UNCHANGED <<inFlight, wf>>
    BY <1>4 DEF ProcessInputFromMem, Answers
  <2>2. rsp' \in [Channel -> Seq(Id)]
    <3>1. Tail(rsp[c]) \in Seq(Id)
      BY <1>1, <2>1
    <3> QED BY <1>1, <2>1, <3>1
  <2>3. inFlight' \in [Channel -> Seq(Access)] /\ wf' \in [Wave -> WaveRecord]
    <3>1. CASE UNCHANGED <<inFlight, wf>>
      BY <1>1, <3>1
    <3>2. CASE /\ inFlight[c] # <<>>
               /\ inFlight' = [inFlight EXCEPT ![c] = Tail(@)]
               /\ wf' = [wf EXCEPT ![info.wave] = Returned(c, @, info)]
      <4>1. info \in Access /\ Tail(inFlight[c]) \in Seq(Access)
        BY <1>1, <3>2
      <4>2. info.wave \in Wave
        BY <4>1 DEF Access
      <4> HIDE DEF info
      <4>3. Returned(c, wf[info.wave], info) \in WaveRecord
        BY <1>1, <4>1, <4>2, ReturnedType
      <4> QED BY <1>1, <3>2, <4>1, <4>2, <4>3
    <3> QED BY <2>1, <3>1, <3>2
  <2> QED BY <2>1, <2>2, <2>3 DEF CUType, schedVars, pipeVars, unitVars, vmemVars, doneVars
<1> QED BY <1>2, <1>3, <1>4

LEMMA SetWaveToReadyType ==
  ASSUME NEW r \in WaveRecord
  PROVE  SetWaveToReady(r) \in WaveRecord
  BY DEF SetWaveToReady, WaveRecord, State

\* A wave's state changes.
LEMMA StateType ==
  ASSUME NEW r \in WaveRecord, NEW s \in State
  PROVE  [r EXCEPT !.state = s] \in WaveRecord
  BY DEF WaveRecord

CtlType == [paused : BOOLEAN, flushing : BOOLEAN, sending : BOOLEAN, handling : BOOLEAN,
            enabled : BOOLEAN, stopNew : BOOLEAN, allPaused : BOOLEAN]
CpType == [phase : {"run", "flush", "restart"}, msg : {None, "flush", "restart"},
           answer : {None, "flushed", "restarted"}, era : Nat]

LEMMA PutBackType ==
  ASSUME CUType
  PROVE  [c \in Channel |-> PutBack(c)] \in [Channel -> Seq(Access)]
<1>1. \A c \in Channel : inFlight[c] \in Seq(Access) /\ shadow[c] \in Seq(Access)
  BY DEF CUType
<1>2. \A c \in Channel : PutBack(c) \in Seq(Access)
  BY <1>1 DEF PutBack
<1> QED BY <1>2

LEMMA FlushTypes ==
  ASSUME CUType, FlushStep \/ SendFlush
  PROVE  CUType'
<1>1. ctl \in CtlType /\ cp \in CpType /\ cp.era + 1 \in Nat
  BY DEF CUType, CtlType, CpType
<1>2. CASE ProcessInputFromCP
  <2>1. ctl' \in CtlType /\ cp' \in CpType
    BY ZenonT(30), <1>1, <1>2 DEF ProcessInputFromCP, CtlType, CpType
  <2>2. UNCHANGED <<waveVars, schedVars, pipeVars, memVars, doneVars>>
    BY <1>2 DEF ProcessInputFromCP
  <2> QED BY <2>1, <2>2 DEF CUType, CtlType, CpType, waveVars, schedVars, pipeVars, unitVars, vmemVars, memVars, doneVars
<1>3. CASE DoFlush
  <2> DEFINE all == [c \in Channel |-> PutBack(c)]
  <2>1. all \in [Channel -> Seq(Access)]
    BY PutBackType
  <2>2. UNCHANGED <<setup, pool, mem, rsp, doneVars>>
    BY <1>3 DEF DoFlush
  <2>3. CASE ctl.handling
    <3>1. /\ inFlight' = all /\ ctl' = [ctl EXCEPT !.sending = FALSE]
          /\ UNCHANGED <<shadow, wf, schedVars, pipeVars, cp>>
      BY <1>3, <2>3 DEF DoFlush
    <3> HIDE DEF all
    <3>2. ctl' \in CtlType
      BY <1>1, <3>1 DEF CtlType
    <3> QED BY <2>1, <2>2, <3>1, <3>2 DEF CUType, CtlType, schedVars, pipeVars, unitVars, vmemVars, doneVars
  <2>4. CASE ~ ctl.handling
    <3>1. /\ shadow' = all
          /\ inFlight' = [c \in Channel |-> <<>>]
          /\ wf' = [w \in Wave |-> IF w \in pool THEN SetWaveToReady(wf[w]) ELSE wf[w]]
          /\ internalExecuting' = <<>> /\ barrierBuffer' = <<>>
          /\ stage' = [u \in Staged |-> [read |-> None, exec |-> None, write |-> None]]
          /\ toDecode' = [d \in Decode |-> None]
          /\ simd' = [s \in SIMD |-> None]
          /\ instPipe' = <<>> /\ transWaiting' = <<>> /\ transPipe' = <<>> /\ readBuf' = <<>>
          /\ ctl' = [ctl EXCEPT !.sending = FALSE, !.flushing = FALSE, !.paused = TRUE]
          /\ cp' = [cp EXCEPT !.answer = "flushed"]
      BY <1>3, <2>4 DEF DoFlush
    <3>2. wf' \in [Wave -> WaveRecord]
      <4>1. \A w \in Wave : wf[w] \in WaveRecord
        BY DEF CUType
      <4> QED BY <3>1, <4>1, SetWaveToReadyType
    <3> HIDE DEF all
    <3>3. ctl' \in CtlType /\ cp' \in CpType
      BY <1>1, <3>1 DEF CtlType, CpType
    <3>4. stage' \in StageType /\ toDecode' \in [Decode -> Wave \cup {None}] /\ simd' \in [SIMD -> Wave \cup {None}]
      BY <3>1 DEF StageType
    <3>5. inFlight' \in [Channel -> Seq(Access)]
      BY <3>1
    <3>6. /\ internalExecuting' \in Seq(Wave) /\ barrierBuffer' \in Seq(Wave) /\ instPipe' \in Seq(Wave)
          /\ transWaiting' \in Seq(Access) /\ transPipe' \in Seq(Access) /\ readBuf' \in Seq(Access)
      BY <3>1
    <3> QED BY <2>1, <2>2, <3>1, <3>2, <3>3, <3>4, <3>5, <3>6 DEF CUType, StageType, CtlType, CpType, doneVars
  <2> QED BY <2>3, <2>4
<1>4. CASE CheckShadowBuffers \/ SendFlush \/ Restarted
  <2>1. ctl' \in CtlType /\ cp' \in CpType
    BY <1>1, <1>4 DEF CheckShadowBuffers, SendFlush, Restarted, CtlType, CpType
  <2>2. UNCHANGED <<waveVars, schedVars, pipeVars, memVars, doneVars>>
    BY <1>4 DEF CheckShadowBuffers, SendFlush, Restarted
  <2> QED BY <2>1, <2>2 DEF CUType, CtlType, CpType, waveVars, schedVars, pipeVars, unitVars, vmemVars, memVars, doneVars
<1>5. CASE FlushBelow
  <2>1. mem' = [c \in Channel |-> <<>>] /\ UNCHANGED <<waveVars, schedVars, pipeVars, inFlight, shadow, rsp, doneVars, ctl>>
    BY <1>5 DEF FlushBelow
  <2>2. mem' \in [Channel -> Seq(Id)]
    BY <2>1
  <2>3. cp' \in CpType
    BY <1>1, <1>5 DEF FlushBelow, CpType
  <2> QED BY <2>1, <2>2, <2>3 DEF CUType, CpType, waveVars, schedVars, pipeVars, unitVars, vmemVars, doneVars
<1>6. CASE \E c \in Channel : SendShadowBufferAccess(c)
  <2>1. PICK c \in Channel : SendShadowBufferAccess(c)
    BY <1>6
  <2> DEFINE old == Head(shadow[c])
             info == [old EXCEPT !.id[4] = cp.era]
  <2>2. /\ shadow[c] # <<>> /\ shadow' = [shadow EXCEPT ![c] = Tail(@)]
        /\ inFlight' = [inFlight EXCEPT ![c] = Append(@, info)]
        /\ mem' = [mem EXCEPT ![c] = Append(@, info.id)]
        /\ UNCHANGED <<waveVars, schedVars, pipeVars, rsp, doneVars, ctl, cp>>
    BY <2>1 DEF SendShadowBufferAccess
  <2>3. old \in Access /\ Tail(shadow[c]) \in Seq(Access) /\ cp.era \in Nat
    BY <2>2 DEF CUType
  <2>4. info \in Access /\ info.id \in Id
    <3> HIDE DEF old
    <3>1. PICK x \in Wave, y \in Nat, z \in Nat, t \in Nat : old.id = <<x, y, z, t>>
      BY <2>3 DEF Access, Id
    <3>2. [old.id EXCEPT ![4] = cp.era] = <<x, y, z, cp.era>>
      BY <2>3, <3>1
    <3>3. info = [old EXCEPT !.id = <<x, y, z, cp.era>>]
      BY <3>2
    <3>4. <<x, y, z, cp.era>> \in Id
      BY <2>3 DEF Id
    <3> QED BY <2>3, <3>3, <3>4 DEF Access
  <2> HIDE DEF info
  <2>5. Append(inFlight[c], info) \in Seq(Access) /\ Append(mem[c], info.id) \in Seq(Id)
    BY <2>4 DEF CUType
  <2>6. shadow' \in [Channel -> Seq(Access)] /\ inFlight' \in [Channel -> Seq(Access)]
    BY <2>2, <2>3, <2>5 DEF CUType
  <2>7. mem' \in [Channel -> Seq(Id)]
    BY <2>2, <2>5 DEF CUType
  <2> QED BY <2>2, <2>6, <2>7 DEF CUType, waveVars, schedVars, pipeVars, unitVars, vmemVars, doneVars
<1> QED BY <1>2, <1>3, <1>4, <1>5, <1>6 DEF FlushStep

LEMMA OtherTypes ==
  ASSUME CUType, (\E g \in Group : HandleMapWGReq(g)) \/ EnableSampled \/ SampleStep \/ CompletionStep
  PROVE  CUType'
<1>1. ctl \in CtlType /\ wf \in [Wave -> WaveRecord] /\ pool \subseteq Wave
      /\ events \subseteq Wave /\ predicted \subseteq Wave
  BY DEF CUType, CtlType
<1>2. \A w \in Wave, s \in State : [wf[w] EXCEPT !.state = s] \in WaveRecord
  BY <1>1, StateType
<1>3. CASE \E g \in Group : HandleMapWGReq(g)
  <2>1. PICK g \in Group : HandleMapWGReq(g)
    BY <1>3
  <2>2. wf' \in [Wave -> WaveRecord]
    <3>1. \E s \in {"sampled", "ready"} : 
            wf' = [w \in Wave |-> IF GroupOf[w] = g THEN [wf[w] EXCEPT !.state = s] ELSE wf[w]]
      BY <2>1 DEF HandleMapWGReq
    <3> QED BY ZenonT(30), <1>1, <1>2, <3>1 DEF State
  <2>3. predicted' \subseteq Wave /\ pool' \subseteq Wave
    BY <1>1, <2>1 DEF HandleMapWGReq, Waves
  <2>4. UNCHANGED <<setup, schedVars, pipeVars, memVars, events, toACE, reports, ctl, cp>>
    BY <2>1 DEF HandleMapWGReq
  <2> QED BY <2>2, <2>3, <2>4 DEF CUType, schedVars, pipeVars, unitVars, vmemVars, memVars
<1>4. CASE EnableSampled
  <2>1. ctl' \in CtlType
    BY <1>1, <1>4 DEF EnableSampled, CtlType
  <2> QED BY <1>4, <2>1 DEF EnableSampled, CUType, CtlType, waveVars, schedVars, pipeVars, unitVars, vmemVars, memVars, doneVars
<1>5. CASE StopTimeModel
  <2>1. PICK stop : /\ wf' = [w \in Wave |-> IF w \in stop /\ ~ Finished(w)
                                  THEN [wf[w] EXCEPT !.state = "sampled"] ELSE wf[w]]
                    /\ predicted' = predicted \cup {w \in stop : ~ Finished(w)}
                    /\ stop \subseteq Wave
                    /\ barrierBuffer' = Without(barrierBuffer, stop)
                    /\ internalExecuting' = Without(internalExecuting, stop)
    BY <1>5 DEF StopTimeModel
  <2>2. ctl' = [ctl EXCEPT !.stopNew = TRUE, !.allPaused = \A w \in pool : wf[w].state # "running"]
        /\ UNCHANGED <<setup, pool, pipeVars, memVars, events, toACE, reports, cp>>
    BY <1>5 DEF StopTimeModel
  <2>3. ctl' \in CtlType
    <3> DEFINE done == \A w \in pool : wf[w].state # "running"
    <3>1. done \in BOOLEAN
      OBVIOUS
    <3> HIDE DEF done
    <3>2. ctl' = [ctl EXCEPT !.stopNew = TRUE, !.allPaused = done]
      BY <2>2 DEF done
    <3> QED BY <1>1, <3>1, <3>2 DEF CtlType
  <2>4. wf' \in [Wave -> WaveRecord]
    BY <1>1, <1>2, <2>1 DEF State
  <2>5. predicted' \subseteq Wave
    BY <1>1, <2>1
  <2>6. barrierBuffer' \in Seq(Wave) /\ internalExecuting' \in Seq(Wave)
    BY <2>1, WithoutIn DEF CUType
  <2> QED BY <2>2, <2>3, <2>4, <2>5, <2>6 DEF CUType, CtlType, pipeVars, unitVars, vmemVars, memVars
<1>6. CASE \E w \in Wave : SampledWfCompleted(w)
  <2>1. UNCHANGED <<waveVars, schedVars, pipeVars, memVars, toACE, reports, ctl, cp>>
        /\ predicted' \subseteq Wave /\ events' \subseteq Wave
    BY <1>1, <1>6 DEF SampledWfCompleted
  <2> QED BY <2>1 DEF CUType, waveVars, schedVars, pipeVars, unitVars, vmemVars, memVars
<1>7. CASE Report
  BY <1>7 DEF Report, CUType, waveVars, schedVars, pipeVars, unitVars, vmemVars, memVars
<1>8. CASE \E w \in Wave : HandleWfCompletionEvent(w)
  <2>1. PICK w \in Wave : HandleWfCompletionEvent(w)
    BY <1>8
  <2>2. wf' = [wf EXCEPT ![w].state = "completed"]
        /\ UNCHANGED <<setup, schedVars, pipeVars, memVars, predicted, reports, cp>>
    BY <2>1 DEF HandleWfCompletionEvent
  <2>3. wf' \in [Wave -> WaveRecord]
    BY <1>1, <1>2, <2>2 DEF State
  <2>4. pool' \subseteq Wave /\ events' \subseteq Wave /\ ctl' \in CtlType
    BY <1>1, <2>1 DEF HandleWfCompletionEvent, CtlType
  <2> QED BY <2>2, <2>3, <2>4 DEF CUType, CtlType, schedVars, pipeVars, unitVars, vmemVars, memVars
<1> QED BY <1>3, <1>4, <1>5, <1>6, <1>7, <1>8 DEF SampleStep, CompletionStep

LEMMA TypeStep ==
  ASSUME CUType, PlaceInv, BufInv, BarrierRoom, [Next]_vars
  PROVE  CUType'
<1>1. CASE UNCHANGED vars
  BY <1>1 DEF vars, CUType, waveVars, schedVars, pipeVars, unitVars, vmemVars, memVars, doneVars
<1>2. CASE SchedulerStep
  BY <1>2, SchedulerTypes, EvaluateTypes
<1>3. CASE UnitStep
  <2>1. \A n \in 1 .. MaxTransactions : n \in 0 .. MaxTransactions
    BY LimitAssumption
  <2>2. \A to \in 1 .. 10 : to \in Nat
    OBVIOUS
  <2> QED BY <1>3, <2>1, <2>2, HandTypes, ExecuteTypes, WriteTypes, SendTypes DEF UnitStep
<1> QED BY <1>1, <1>2, <1>3, MemTypes, FlushTypes, OtherTypes DEF Next

-----------------------------------------------------------------------------
(* The places after the other actions.                                     *)

\* A flush empties every place, and no wave stays at work.
LEMMA DoFlushMoves ==
  ASSUME CUType, PlaceInv, DoFlush
  PROVE  PlaceInv'
<1>1. UNCHANGED <<setup, pool>>
  BY DEF DoFlush
<1>2. CASE ctl.handling
  <2>1. UNCHANGED <<setup, wf, pool, placeVars>>
    BY <1>1, <1>2 DEF DoFlush, schedVars, pipeVars, unitVars, vmemVars, placeVars
  <2> QED BY <2>1, NoneMoves
<1>3. CASE ~ ctl.handling
  <2>1. /\ wf' = [w \in Wave |-> IF w \in pool THEN SetWaveToReady(wf[w]) ELSE wf[w]]
        /\ internalExecuting' = <<>> /\ barrierBuffer' = <<>> /\ instPipe' = <<>>
        /\ stage' = [u \in Staged |-> [read |-> None, exec |-> None, write |-> None]]
        /\ toDecode' = [d \in Decode |-> None]
        /\ simd' = [s \in SIMD |-> None]
    BY <1>3 DEF DoFlush
  <2>2. Lists'
    BY <2>1, EmptyIn DEF Lists
  <2>3. ASSUME NEW w \in Wave PROVE Placed(w)'
    <3>1. \A p \in Spot : ~ Occupies(p, w)'
      BY <2>1, EmptyIn, SpotKinds, NoneAssumption
         DEF Occupies, InSlot, Content, Decode, Staged, Stages
    <3>2. wf'[w].state \notin {"running", "barrier"}
      <4>1. Placed(w) /\ wf[w] \in WaveRecord
        BY DEF PlaceInv, CUType
      <4>2. CASE w \in pool
        BY <2>1, <4>1, <4>2 DEF SetWaveToReady, WaveRecord
      <4>3. CASE w \notin pool
        BY <2>1, <4>1, <4>3 DEF Placed
      <4> QED BY <4>2, <4>3
    <3> QED BY <3>1, <3>2 DEF Placed
  <2> QED BY <2>2, <2>3 DEF PlaceInv, Lists
<1> QED BY <1>2, <1>3

\* The waves that sampling stops are at no instruction; at most they wait at a barrier.
LEMMA StoppedIs ==
  ASSUME CUType, NEW w \in Wave, GroupOf[w] \in Stoppable
  PROVE  wf[w].state # "running"
  BY DEF Stoppable, Waves

LEMMA StopTimeModelMoves ==
  ASSUME CUType, PlaceInv, StopTimeModel
  PROVE  PlaceInv'
<1> DEFINE stop == {w \in Wave : GroupOf[w] \in Stoppable}
<1>1. /\ wf' = [w \in Wave |-> IF w \in stop /\ ~ Finished(w)
                                  THEN [wf[w] EXCEPT !.state = "sampled"] ELSE wf[w]]
      /\ barrierBuffer' = Without(barrierBuffer, stop)
      /\ internalExecuting' = Without(internalExecuting, stop)
      /\ UNCHANGED <<setup, pool, pipeVars>>
  BY DEF StopTimeModel
<1>2. \A w \in stop : w \in Wave /\ wf[w].state # "running"
  BY StoppedIs
<1> HIDE DEF stop
<1>3. /\ Once(internalExecuting') /\ Once(barrierBuffer')
      /\ \A w \in Wave : /\ In(internalExecuting', w) <=> In(internalExecuting, w) /\ w \notin stop
                         /\ In(barrierBuffer', w) <=> In(barrierBuffer, w) /\ w \notin stop
  BY <1>1, WithoutIn DEF CUType, PlaceInv
<1>4. UNCHANGED <<instPipe, stage, toDecode, simd>>
  BY <1>1 DEF pipeVars, unitVars, vmemVars
<1>5. ASSUME NEW w \in Wave PROVE Placed(w)'
  <2>1. /\ Occupies(<<"int", "in">>, w)' <=> Occupies(<<"int", "in">>, w) /\ w \notin stop
        /\ Occupies(Bar, w)' <=> Occupies(Bar, w) /\ w \notin stop
        /\ \A p \in Spot \ {Bar, <<"int", "in">>} : Occupies(p, w)' <=> Occupies(p, w)
    <3>1. /\ Occupies(<<"int", "in">>, w)' <=> In(internalExecuting', w)
          /\ Occupies(Bar, w)' <=> In(barrierBuffer', w)
      BY DEF Occupies, Content, Bar
    <3>2. \A p \in Spot \ {Bar, <<"int", "in">>} : Occupies(p, w)' <=> Occupies(p, w)
      BY <1>4, SpotKinds DEF Occupies, InSlot, Content, Decode, Staged, Bar
    <3> QED BY <1>3, <3>1, <3>2, OccupiesBuffer
  <2>2. Placed(w) /\ wf[w] \in WaveRecord
    BY DEF PlaceInv, CUType
  <2>3. CASE w \notin stop
    <3>1. wf'[w] = wf[w] /\ Doing(w)' = Doing(w)
      BY <1>1, <2>3 DEF Doing, KindAt, InstAt
    <3>2. \A p \in Spot : Occupies(p, w)' <=> Occupies(p, w)
      BY <2>1, <2>3
    <3>3. \A q : Alone(w, q)' <=> Alone(w, q)
      BY <3>2 DEF Alone
    <3> QED BY <1>1, <2>2, <3>1, <3>2, <3>3 DEF Placed
  <2>4. CASE w \in stop
    <3>1. wf'[w].state \notin {"running", "barrier"}
      BY <1>1, <1>2, <2>2, <2>4 DEF Finished, WaveRecord
    <3>2. \A p \in Spot \ {Bar} : ~ Occupies(p, w)
      BY <1>2, <2>2, <2>4, SpotsAre DEF Placed, Alone
    <3>3. \A p \in Spot : ~ Occupies(p, w)'
      BY <2>1, <2>4, <3>2
    <3> QED BY <3>1, <3>3 DEF Placed
  <2> QED BY <2>3, <2>4
<1> QED BY <1>3, <1>4, <1>5 DEF PlaceInv

\* The completion of a wave comes when it is at no instruction.
LEMMA CompletionMoves ==
  ASSUME CUType, PlaceInv, SampleInv, NEW w \in Wave, HandleWfCompletionEvent(w)
  PROVE  PlaceInv'
<1>1. wf[w].state \notin {"running", "barrier"}
  BY DEF HandleWfCompletionEvent, SampleInv
<1>2. /\ wf' = [wf EXCEPT ![w].state = "completed"]
      /\ UNCHANGED <<setup, placeVars>>
      /\ UNCHANGED pool \/ (pool' = pool \ Waves(GroupOf[w]) /\ AllCompleted(wf', GroupOf[w]))
  BY DEF HandleWfCompletionEvent, schedVars, pipeVars, unitVars, vmemVars, placeVars
<1>3. wf'[w].state = "completed" /\ \A v \in Wave \ {w} : wf'[v] = wf[v]
  BY <1>2 DEF CUType, WaveRecord
<1>4. \A v \in pool : v \in pool' \/ wf'[v].state \notin {"running", "barrier"}
  BY <1>2 DEF AllCompleted
<1>5. \A v \in Wave : \/ wf'[v].state = wf[v].state /\ wf'[v].inst = wf[v].inst
                      \/ /\ wf[v].state \notin {"running", "barrier"}
                         /\ wf'[v].state \notin {"running", "barrier"}
  BY <1>1, <1>3
<1> QED BY <1>2, <1>4, <1>5, NoneMoves

LEMMA MapMoves ==
  ASSUME CUType, PlaceInv, NEW g \in Group, HandleMapWGReq(g)
  PROVE  PlaceInv'
<1>1. /\ UNCHANGED <<setup, placeVars>> /\ pool \subseteq pool'
      /\ \A w \in Waves(g) : wf[w].state = "dispatching"
      /\ \E s \in {"sampled", "ready"} :
           wf' = [w \in Wave |-> IF GroupOf[w] = g THEN [wf[w] EXCEPT !.state = s] ELSE wf[w]]
  BY DEF HandleMapWGReq, schedVars, pipeVars, unitVars, vmemVars, placeVars
<1>2. ASSUME NEW w \in Wave
      PROVE  \/ wf'[w].state = wf[w].state /\ wf'[w].inst = wf[w].inst
             \/ /\ wf[w].state \notin {"running", "barrier"}
                /\ wf'[w].state \notin {"running", "barrier"}
  <2>1. wf[w] \in WaveRecord
    BY DEF CUType
  <2>2. CASE GroupOf[w] = g
    BY <1>1, <2>1, <2>2 DEF Waves, WaveRecord
  <2>3. CASE GroupOf[w] # g
    BY <1>1, <2>3
  <2> QED BY <2>2, <2>3
<1> QED BY <1>1, <1>2, NoneMoves

\* A response changes neither the state of a wave nor its instruction.
LEMMA ReturnedIs ==
  ASSUME NEW r \in WaveRecord, NEW info \in Access, NEW c \in Channel
  PROVE  /\ Returned(c, r, info).state = r.state /\ Returned(c, r, info).inst = r.inst
         /\ Returned(c, r, info).pc = r.pc /\ Returned(c, r, info).next = r.next
         /\ Returned(c, r, info).start = r.start
         /\ c # "inst" => Returned(c, r, info).buf = r.buf
         /\ c = "inst" => Returned(c, r, info).buf = IF info.at = r.start + Len(r.buf) THEN Append(r.buf, info.at) ELSE r.buf
  BY DEF Returned, FetchReturned, WaveRecord, Channel

LEMMA AnsweredIs ==
  ASSUME CUType, NEW c \in Channel, ProcessInputFromMem(c), NEW w \in Wave
  PROVE  wf'[w] = wf[w] \/ \E info \in Access : wf'[w] = Returned(c, wf[w], info)
<1> DEFINE info == Head(inFlight[c])
<1>1. \/ inFlight[c] # <<>> /\ wf' = [wf EXCEPT ![info.wave] = Returned(c, @, info)]
      \/ UNCHANGED wf
  BY DEF ProcessInputFromMem, Answers
<1>2. inFlight[c] # <<>> => info \in Access
  BY DEF CUType
<1>3. wf \in [Wave -> WaveRecord]
  BY DEF CUType
<1> HIDE DEF info
<1> QED BY <1>1, <1>2, <1>3 DEF Access

LEMMA MemMoves ==
  ASSUME CUType, PlaceInv, MemStep
  PROVE  PlaceInv'
<1>1. PICK c \in Channel : ProcessInputFromMem(c) \/ MemReply(c)
  BY DEF MemStep
<1>2. UNCHANGED <<setup, pool, placeVars>>
  BY <1>1 DEF ProcessInputFromMem, MemReply, waveVars, schedVars, pipeVars, unitVars, vmemVars, placeVars
<1>3. ASSUME NEW w \in Wave PROVE wf'[w].state = wf[w].state /\ wf'[w].inst = wf[w].inst
  <2>1. wf[w] \in WaveRecord
    BY DEF CUType
  <2>2. CASE MemReply(c)
    BY <2>2 DEF MemReply, waveVars
  <2>3. CASE ProcessInputFromMem(c)
    BY <2>1, <2>3, AnsweredIs, ReturnedIs
  <2> QED BY <1>1, <2>2, <2>3
<1> QED BY <1>2, <1>3, NoneMoves

\* The actions that leave the waves' states, their instructions and the places alone.
LEMMA StillMoves ==
  ASSUME CUType, PlaceInv,
         \/ \E w \in Wave : DecodeNextInst(w) \/ DoFetch(w) \/ SampledWfCompleted(w)
         \/ ScalarSendRequest \/ InsertTransactionToPipeline \/ VectorSendRequest
         \/ ProcessInputFromCP \/ CheckShadowBuffers \/ FlushBelow \/ Restarted \/ SendFlush
         \/ \E c \in Channel : SendShadowBufferAccess(c)
         \/ EnableSampled \/ Report \/ UNCHANGED vars
  PROVE  PlaceInv'
<1>1. ASSUME NEW w \in Wave, DecodeNextInst(w) \/ DoFetch(w) PROVE PlaceInv'
  <2>1. UNCHANGED <<setup, pool, placeVars>>
    BY <1>1 DEF DecodeNextInst, DoFetch, schedVars, pipeVars, unitVars, vmemVars, placeVars
  <2>2. CASE DecodeNextInst(w)
    <3> DEFINE n == wf[w].buf[Line(wf[w].pc) - wf[w].start + 1] * LineInsts
                    + ((wf[w].pc - 1) % LineInsts) + 1
    <3>1. wf' = [wf EXCEPT ![w].start = Line(wf[w].pc)] \/ wf' = [wf EXCEPT ![w].next = n]
      BY <2>2 DEF DecodeNextInst
    <3> HIDE DEF n
    <3>2. wf \in [Wave -> WaveRecord]
      BY DEF CUType
    <3>3. ASSUME NEW v \in Wave
          PROVE  wf'[v].state = wf[v].state /\ wf'[v].inst = wf[v].inst
      <4>1. wf[v] \in WaveRecord
        BY <3>2
      <4>2. wf'[v] = wf[v] \/ wf'[v] = [wf[v] EXCEPT !.start = Line(wf[w].pc)]
                          \/ wf'[v] = [wf[v] EXCEPT !.next = n]
        BY <3>1, <3>2
      <4> QED BY <4>1, <4>2 DEF WaveRecord
    <3> QED BY <2>1, <3>3, NoneMoves
  <2>3. CASE DoFetch(w)
    <3>1. wf' = [wf EXCEPT ![w].start = (IF wf[w].buf = <<>> THEN Line(wf[w].pc) ELSE wf[w].start),
                           ![w].fetching = TRUE]
      BY <2>3 DEF DoFetch
    <3>2. \A v \in Wave : wf'[v].state = wf[v].state /\ wf'[v].inst = wf[v].inst
      <4> DEFINE l == IF wf[w].buf = <<>> THEN Line(wf[w].pc) ELSE wf[w].start
                 r == [wf[w] EXCEPT !.start = l, !.fetching = TRUE]
      <4>1. wf \in [Wave -> WaveRecord]
        BY DEF CUType
      <4>2. wf' = [wf EXCEPT ![w] = r]
        BY <3>1, <4>1
      <4> HIDE DEF l
      <4>3. r.state = wf[w].state /\ r.inst = wf[w].inst
        BY <4>1 DEF WaveRecord
      <4> HIDE DEF r
      <4> QED BY <4>1, <4>2, <4>3
    <3> QED BY <2>1, <3>2, NoneMoves
  <2> QED BY <1>1, <2>2, <2>3
<1>2. ASSUME UNCHANGED <<setup, wf, pool, placeVars>> PROVE PlaceInv'
  BY <1>2, NoneMoves
<1>3. CASE \E w \in Wave : SampledWfCompleted(w)
  BY <1>2, <1>3 DEF SampledWfCompleted, waveVars, schedVars, pipeVars, unitVars, vmemVars, placeVars
<1>4. CASE ScalarSendRequest \/ InsertTransactionToPipeline \/ VectorSendRequest
  BY <1>2, <1>4 DEF ScalarSendRequest, InsertTransactionToPipeline, VectorSendRequest,
                    waveVars, schedVars, unitVars, vmemVars, placeVars
<1>5. CASE ProcessInputFromCP \/ CheckShadowBuffers \/ FlushBelow \/ Restarted \/ SendFlush \/ EnableSampled \/ Report
  BY <1>2, <1>5 DEF ProcessInputFromCP, CheckShadowBuffers, FlushBelow, Restarted, SendFlush, EnableSampled, Report,
                    waveVars, schedVars, pipeVars, unitVars, vmemVars, placeVars
<1>6. CASE \E c \in Channel : SendShadowBufferAccess(c)
  BY <1>2, <1>6 DEF SendShadowBufferAccess, waveVars, schedVars, pipeVars, unitVars, vmemVars, placeVars
<1>7. CASE UNCHANGED vars
  BY <1>2, <1>7 DEF vars, waveVars, schedVars, pipeVars, unitVars, vmemVars, placeVars
<1> QED BY <1>1, <1>3, <1>4, <1>5, <1>6, <1>7

LEMMA PlaceStep ==
  ASSUME CUType, PlaceInv, SampleInv, BufInv, VectorRoom, BarrierRoom, [Next]_vars
  PROVE  PlaceInv'
<1>1. CASE SchedulerStep
  <2>1. ASSUME NEW w \in Wave, Issue(w) PROVE PlaceInv'
    <3>1. KindAt(w, wf[w].next) \in Kind
      BY <2>1, NextKind DEF Issue
    <3> QED BY <2>1, <3>1, IssueMoves
  <2> QED BY <1>1, <2>1, EvaluateMoves, StillMoves DEF SchedulerStep
<1>2. CASE UnitStep
  <2>1. CASE DecodeScalar \/ DecodeLDS \/ DecodeVector \/ DecodeVMem
    BY <2>1, DecodeScalarMoves, DecodeLDSMoves, DecodeVectorMoves, DecodeVMemMoves
  <2>2. CASE \E u \in Staged : RunReadStage(u) \/ RunExecStage(u) \/ RunWriteStage(u)
    BY <2>2, RunReadStageMoves, RunExecStageMoves, RunWriteStageMoves
  <2>3. CASE BranchWriteStage
    BY <2>3, BranchWriteStageMoves
  <2>4. CASE \E s \in SIMD : SIMDExec(s)
    BY <2>4, SIMDExecMoves
  <2>5. CASE \E n \in 1 .. MaxTransactions : ExecuteSMEMLoad(n)
    <3>1. \A n \in 1 .. MaxTransactions : n \in Nat
      BY LimitAssumption
    <3> QED BY <2>5, <3>1, ExecuteSMEMLoadMoves
  <2>6. CASE \E n \in 0 .. MaxTransactions : ExecuteFlat(n)
    BY <2>6, ExecuteFlatMoves
  <2>7. CASE ScalarSendRequest \/ InsertTransactionToPipeline \/ VectorSendRequest
    BY <2>7, StillMoves
  <2> QED BY <1>2, <2>1, <2>2, <2>3, <2>4, <2>5, <2>6, <2>7 DEF UnitStep
<1>3. CASE FlushStep \/ SendFlush
  BY <1>3, StillMoves, DoFlushMoves DEF FlushStep
<1>4. CASE MemStep
  BY <1>4, MemMoves
<1>5. CASE (\E g \in Group : HandleMapWGReq(g)) \/ EnableSampled \/ SampleStep \/ CompletionStep
  BY <1>5, MapMoves, StillMoves, StopTimeModelMoves, CompletionMoves DEF SampleStep, CompletionStep
<1>6. CASE UNCHANGED vars
  BY <1>6, StillMoves
<1> QED BY <1>1, <1>2, <1>3, <1>4, <1>5, <1>6 DEF Next

-----------------------------------------------------------------------------
(* What a step does to the record of a wave.                               *)

RecSame(q, r) ==
  q.pc = r.pc /\ q.next = r.next /\ q.inst = r.inst /\ q.buf = r.buf /\ q.start = r.start

Kept(q, r) == RecSame(q, r) /\ (Busy(q) => Busy(r))

Fetched(q, r) ==
  /\ q.pc = r.pc /\ q.next = r.next /\ q.inst = r.inst /\ q.start = r.start /\ q.state = r.state
  /\ q.buf = Append(r.buf, r.start + Len(r.buf))

Decoded(q, r) ==
  /\ q.pc = r.pc /\ q.inst = r.inst /\ q.buf = r.buf /\ q.start = r.start
  /\ r.state = "ready" /\ q.state = "ready"
  /\ q.next = r.pc /\ Line(r.pc) < r.start + Len(r.buf)

Issued(q, r) ==
  /\ q.pc = r.pc /\ q.buf = r.buf /\ q.start = r.start
  /\ r.next # 0 /\ q.next = 0 /\ q.inst = r.next

\* The whole group of the wave leaves the barrier.
GroupPasses(w) ==
  \A v \in Waves(GroupOf[w]) : Busy(wf[v]) /\ Doing(v) = "barrier" /\ wf'[v].pc = wf[v].pc + 1

\* The wave has executed its instruction.  Behind a barrier comes the whole
\* group; behind a wait, no more is outstanding than it allows for.
Advanced(q, w) ==
  /\ Busy(wf[w]) /\ Doing(w) \notin {"endpgm", "branch"}
  /\ RecSame(q, SetReady(wf[w], wf[w].pc + 1)) /\ q.state = "ready"
  /\ Doing(w) = "waitcnt" => Waited(w)
  /\ Doing(w) = "barrier" => GroupPasses(w)

Branched(q, w) ==
  /\ Busy(wf[w]) /\ Doing(w) = "branch" /\ q.state = "ready"
  /\ \E to \in 1 .. Len(setup.prog[w]) : RecSame(q, Branch(wf[w], to))

Change(w, q) ==
  \/ Kept(q, wf[w]) \/ Fetched(q, wf[w]) \/ Decoded(q, wf[w]) \/ Issued(q, wf[w])
  \/ Advanced(q, w) \/ Branched(q, w)

\* What a unit does to it.
Work(w, q) == q = wf[w] \/ Advanced(q, w) \/ Branched(q, w)

LEMMA SameKept ==
  ASSUME NEW r
  PROVE  Kept(r, r)
  BY DEF Kept, RecSame

LEMMA AdvanceIs ==
  ASSUME CUType, PlaceInv, NEW w \in Wave, NEW p \in Spot \ {Bar}, Occupies(p, w),
         p[1] # "int", p[1] # "branch"
  PROVE  Busy(wf[w]) /\ Doing(w) \notin {"endpgm", "branch", "waitcnt", "barrier", "nop"}
<1>1. wf[w].state = "running" /\ Fits(p, Doing(w))
  BY AtPlace
<1>2. p[1] # "bar"
  BY SpotKinds DEF Bar, Staged, Decode
<1> QED BY <1>1, <1>2 DEF Fits, Busy

LEMMA SetReadySame ==
  ASSUME NEW r \in WaveRecord, NEW v \in {0, 1}
  PROVE  LET s == SetReady(r, r.pc + 1) IN
         /\ s.state = "ready" /\ s.pc = r.pc + 1
         /\ RecSame(s, s) /\ RecSame(WithAccess(s, v), s) /\ WithAccess(s, v).state = "ready"
<1>1. r.pc + 1 \in Nat \ {0}
  BY DEF WaveRecord
<1> DEFINE s == SetReady(r, r.pc + 1)
<1>2. s \in WaveRecord /\ s.state = "ready" /\ s.pc = r.pc + 1
  BY <1>1, SetReadyIs
<1> HIDE DEF s
<1>3. RecSame(s, s) /\ RecSame(WithAccess(s, v), s) /\ WithAccess(s, v).state = "ready"
  BY <1>2 DEF RecSame, WithAccess, WaveRecord
<1> QED BY <1>2, <1>3 DEF s

LEMMA WriteWork ==
  ASSUME CUType, PlaceInv, NEW u \in Staged, RunWriteStage(u), NEW w \in Wave
  PROVE  Work(w, wf'[w])
<1> DEFINE v == stage[u].write
<1>1. /\ wf' = [wf EXCEPT ![v] = SetReady(wf[v], wf[v].pc + 1)] /\ v # None /\ u # "branch"
      /\ wf \in [Wave -> WaveRecord] /\ v \in Wave \cup {None}
  BY DEF RunWriteStage, CUType
<1>2. CASE w = v
  <2>1. Occupies(<<u, "write">>, w) /\ <<u, "write">> \in Spot \ {Bar}
    BY <1>2, SpotsAre, OccupiesStage DEF Stages
  <2>2. Busy(wf[w]) /\ Doing(w) \notin {"endpgm", "branch", "waitcnt", "barrier"}
    BY <1>1, <2>1, AdvanceIs DEF Staged
  <2>3. wf'[w] = SetReady(wf[w], wf[w].pc + 1) /\ wf[w] \in WaveRecord
    BY <1>1, <1>2
  <2>4. Advanced(wf'[w], w)
    BY <2>2, <2>3, SetReadySame DEF Advanced
  <2> QED BY <2>4 DEF Work
<1>3. CASE w # v
  BY <1>1, <1>3 DEF Work
<1> QED BY <1>2, <1>3

LEMMA SIMDWork ==
  ASSUME CUType, PlaceInv, NEW s \in SIMD, SIMDExec(s), NEW w \in Wave
  PROVE  Work(w, wf'[w])
<1> DEFINE v == simd[s]
<1>1. /\ wf' = [wf EXCEPT ![v] = SetReady(wf[v], wf[v].pc + 1)] /\ v # None
      /\ wf \in [Wave -> WaveRecord]
  BY DEF SIMDExec, CUType
<1>2. CASE w = v
  <2>1. Occupies(<<"simd", s>>, w) /\ <<"simd", s>> \in Spot \ {Bar}
    BY <1>2, SpotsAre, OccupiesSIMD
  <2>2. Busy(wf[w]) /\ Doing(w) \notin {"endpgm", "branch", "waitcnt", "barrier"}
    BY <1>1, <2>1, AdvanceIs
  <2>3. wf'[w] = SetReady(wf[w], wf[w].pc + 1) /\ wf[w] \in WaveRecord
    BY <1>1, <1>2
  <2>4. Advanced(wf'[w], w)
    BY <2>2, <2>3, SetReadySame DEF Advanced
  <2> QED BY <2>4 DEF Work
<1>3. CASE w # v
  BY <1>1, <1>3 DEF Work
<1> QED BY <1>2, <1>3

LEMMA BranchWork ==
  ASSUME CUType, PlaceInv, BranchWriteStage, NEW w \in Wave
  PROVE  Work(w, wf'[w])
<1> DEFINE v == stage["branch"].write
           to == setup.jumps[v][wf[v].turns + 1]
<1>1. /\ wf' = [wf EXCEPT ![v] = Branch(wf[v], to)] /\ v # None
      /\ wf[v].turns + 1 <= Len(setup.jumps[v])
      /\ wf \in [Wave -> WaveRecord]
  BY DEF BranchWriteStage, CUType
<1>2. CASE w = v
  <2>1. Occupies(<<"branch", "write">>, w) /\ <<"branch", "write">> \in Spot \ {Bar}
    BY <1>2, SpotsAre, OccupiesStage DEF Stages, Staged
  <2>2. Busy(wf[w]) /\ Doing(w) = "branch"
    BY <2>1, AtPlace DEF Busy, Fits
  <2>3. wf[w].turns + 1 <= Len(setup.jumps[w])
    BY <1>1, <1>2
  <2>4. to \in 1 .. Len(setup.prog[w]) /\ to \in Nat \ {0}
    BY <1>2, <2>3, BranchLeads
  <2> HIDE DEF to
  <2>5. wf'[w] = Branch(wf[w], to) /\ wf[w] \in WaveRecord
    BY <1>1, <1>2
  <2>6. Branch(wf[w], to).state = "ready"
    BY <2>4, <2>5, BranchTo
  <2>7. Branched(wf'[w], w)
    BY <2>2, <2>4, <2>5, <2>6 DEF Branched, RecSame
  <2> QED BY <2>7 DEF Work
<1>3. CASE w # v
  BY <1>1, <1>3 DEF Work
<1> QED BY <1>2, <1>3

LEMMA ExecuteWork ==
  ASSUME CUType, PlaceInv, NEW n \in Nat, ExecuteSMEMLoad(n) \/ ExecuteFlat(n), NEW w \in Wave
  PROVE  Work(w, wf'[w])
<1>1. wf \in [Wave -> WaveRecord] /\ stage \in StageType
  BY DEF CUType, StageType
<1>2. ASSUME NEW v \in Wave, Occupies(<<"scalar", "exec">>, v) \/ Occupies(<<"pipe", "in">>, v),
             UNCHANGED wf \/ \E x : /\ wf' = [wf EXCEPT ![v] = x]
                                    /\ \/ x = SetReady(wf[v], wf[v].pc + 1)
                                       \/ \E k \in {0, 1} : x = WithAccess(SetReady(wf[v], wf[v].pc + 1), k)
      PROVE  Work(w, wf'[w])
  <2>1. Busy(wf[v]) /\ Doing(v) \notin {"endpgm", "branch", "waitcnt", "barrier"}
    <3>1. <<"scalar", "exec">> \in Spot \ {Bar} /\ <<"pipe", "in">> \in Spot \ {Bar}
      BY SpotsAre DEF Staged, Stages
    <3> QED BY <1>2, <3>1, AdvanceIs
  <2>2. CASE UNCHANGED wf
    BY <2>2 DEF Work
  <2>3. CASE w # v
    <3>1. wf'[w] = wf[w]
      BY <1>1, <1>2, <2>3
    <3> QED BY <3>1 DEF Work
  <2>4. CASE w = v /\ ~ UNCHANGED wf
    <3>1. \/ wf'[w] = SetReady(wf[w], wf[w].pc + 1)
          \/ \E k \in {0, 1} : wf'[w] = WithAccess(SetReady(wf[w], wf[w].pc + 1), k)
      BY <1>1, <1>2, <2>4
    <3>2. RecSame(wf'[w], SetReady(wf[w], wf[w].pc + 1)) /\ wf'[w].state = "ready"
      BY <1>1, <3>1, SetReadySame
    <3>3. Advanced(wf'[w], w)
      BY <2>1, <2>4, <3>2 DEF Advanced
    <3> QED BY <3>3 DEF Work
  <2> QED BY <2>2, <2>3, <2>4
<1>3. CASE ExecuteSMEMLoad(n)
  <2> DEFINE v == stage["scalar"].exec
  <2>1. v # None /\ wf' = [wf EXCEPT ![v] = WithAccess(SetReady(wf[v], wf[v].pc + 1), 0)]
    BY <1>3 DEF ExecuteSMEMLoad
  <2>2. v \in Wave
    BY <1>1, <2>1 DEF StageType, Staged
  <2>3. Occupies(<<"scalar", "exec">>, v)
    BY OccupiesStage DEF Staged, Stages
  <2> HIDE DEF v
  <2> QED BY <1>2, <2>1, <2>2, <2>3
<1>4. CASE ExecuteFlat(n)
  <2> DEFINE v == Head(instPipe)
  <2>1. /\ instPipe # <<>> /\ instPipe \in Seq(Wave)
        /\ \/ UNCHANGED wf
           \/ wf' = [wf EXCEPT ![v] = SetReady(wf[v], wf[v].pc + 1)]
           \/ wf' = [wf EXCEPT ![v] = WithAccess(SetReady(wf[v], wf[v].pc + 1), 1)]
    BY <1>4 DEF ExecuteFlat, CUType
  <2>2. v \in Wave /\ Occupies(<<"pipe", "in">>, v)
    BY <2>1, TailIn, OccupiesBuffer
  <2> HIDE DEF v
  <2> QED BY <1>2, <2>1, <2>2
<1> QED BY <1>3, <1>4

LEMMA EvaluateChange ==
  ASSUME CUType, PlaceInv, BarrierRoom, EvaluateInternalInst, NEW w \in Wave
  PROVE  Change(w, wf'[w])
<1>1. PICK e : EvalInv(e, Len(internalExecuting)) /\ wf' = e.waves
  BY EvaluateIs
<1>2. Outcome(e, w) /\ wf[w] \in WaveRecord
  BY <1>1 DEF EvalInv, CUType
<1>3. In(internalExecuting, w) => wf[w].state = "running"
  BY ListIs
<1>4. ASSUME NEW s \in State, wf'[w] = [wf[w] EXCEPT !.state = s], Busy(wf[w])
      PROVE  Kept(wf'[w], wf[w])
  BY <1>2, <1>4 DEF Kept, RecSame, WaveRecord
<1>5. ASSUME wf'[w] = SetReady(wf[w], wf[w].pc + 1), Busy(wf[w]),
             (Doing(w) = "barrier" /\ GroupPasses(w)) \/ (Doing(w) = "waitcnt" /\ Waited(w))
      PROVE  Advanced(wf'[w], w)
  BY <1>2, <1>5, SetReadySame DEF Advanced
<1>6. CASE wf'[w] = wf[w]
  BY <1>6, SameKept DEF Change
<1>7. CASE In(internalExecuting, w) /\ ~ Released(e, w) /\ wf'[w] # wf[w]
  BY <1>1, <1>2, <1>3, <1>4, <1>5, <1>7 DEF Outcome, Busy, Change, State
<1>8. CASE Released(e, w)
  <2>1. wf'[w] = SetReady(wf[w], wf[w].pc + 1) /\ Busy(wf[w]) /\ Doing(w) = "barrier"
    BY <1>1, <1>8 DEF Released, Waves, Busy
  <2>2. ASSUME NEW v \in Waves(GroupOf[w])
        PROVE  Busy(wf[v]) /\ Doing(v) = "barrier" /\ wf'[v].pc = wf[v].pc + 1
    <3>1. v \in Wave /\ wf[v] \in WaveRecord
      BY DEF Waves, CUType
    <3>2. wf'[v] = SetReady(wf[v], wf[v].pc + 1) /\ Busy(wf[v]) /\ Doing(v) = "barrier"
      BY <1>1, <1>8, <2>2 DEF Released, Busy
    <3>3. wf[v].pc + 1 \in Nat \ {0}
      BY <3>1 DEF WaveRecord
    <3> QED BY <3>1, <3>2, <3>3, SetReadyIs
  <2>3. GroupPasses(w)
    BY <2>2 DEF GroupPasses
  <2> QED BY <1>5, <2>1, <2>3 DEF Change
<1> QED BY <1>1, <1>2, <1>6, <1>7, <1>8 DEF Outcome

LEMMA SchedulerChange ==
  ASSUME CUType, BufInv, NEW v \in Wave, DecodeNextInst(v) \/ DoFetch(v) \/ Issue(v), NEW w \in Wave
  PROVE  Change(w, wf'[w])
<1>1. wf \in [Wave -> WaveRecord] /\ wf[v] \in WaveRecord /\ BufferOK(wf[v])
  BY DEF CUType, BufInv
<1>2. CASE w # v
  <2>1. wf'[w] = wf[w]
    BY <1>1, <1>2 DEF DecodeNextInst, DoFetch, Issue
  <2> QED BY <2>1, SameKept DEF Change
<1>3. CASE w = v /\ DecodeNextInst(v)
  <2>1. \/ wf[v].buf = <<>> /\ wf[v].start # Line(wf[v].pc)
        \/ /\ wf[v].state = "ready" /\ Buffered(wf[v])
           /\ wf' = [wf EXCEPT ![v].next = wf[v].pc]
    BY <1>3, DecodedIs DEF DecodeNextInst
  <2>2. wf'[v] = [wf[v] EXCEPT !.next = wf[v].pc] /\ wf[v].state = "ready" /\ Buffered(wf[v])
    BY <1>1, <2>1 DEF BufferOK
  <2>3. Decoded(wf'[v], wf[v])
    BY <1>1, <2>2 DEF Decoded, Buffered, WaveRecord
  <2> QED BY <1>3, <2>3 DEF Change
<1>4. CASE w = v /\ DoFetch(v)
  <2>1. wf' = [wf EXCEPT ![v].start = (IF wf[v].buf = <<>> THEN Line(wf[v].pc) ELSE wf[v].start),
                         ![v].fetching = TRUE]
    BY <1>4 DEF DoFetch
  <2>2. wf[v].buf = <<>> => wf[v].start = Line(wf[v].pc)
    BY <1>1 DEF BufferOK
  <2>3. wf'[v] = [wf[v] EXCEPT !.fetching = TRUE]
    <3>1. wf' = [wf EXCEPT ![v].start = wf[v].start, ![v].fetching = TRUE]
      BY <2>1, <2>2
    <3> QED BY <1>1, <3>1 DEF WaveRecord
  <2>4. Kept(wf'[v], wf[v])
    BY <1>1, <2>3 DEF Kept, RecSame, Busy, WaveRecord
  <2> QED BY <1>4, <2>4 DEF Change
<1>5. CASE w = v /\ Issue(v)
  <2>1. /\ wf' = [wf EXCEPT ![v].inst = wf[v].next, ![v].next = 0, ![v].state = "running"]
        /\ wf[v].next # 0
    BY <1>5 DEF Issue
  <2>2. Issued(wf'[v], wf[v])
    BY <1>1, <2>1 DEF Issued, WaveRecord
  <2> QED BY <1>5, <2>2 DEF Change
<1> QED BY <1>2, <1>3, <1>4, <1>5

LEMMA MemChange ==
  ASSUME CUType, NEW c \in Channel, ProcessInputFromMem(c), NEW w \in Wave
  PROVE  Change(w, wf'[w])
<1>1. wf[w] \in WaveRecord
  BY DEF CUType
<1>2. CASE wf'[w] = wf[w]
  BY <1>2, SameKept DEF Change
<1>3. CASE wf'[w] # wf[w]
  <2>1. PICK info \in Access : wf'[w] = Returned(c, wf[w], info)
    BY <1>3, AnsweredIs
  <2>2. Kept(wf'[w], wf[w]) \/ Fetched(wf'[w], wf[w])
    <3> DEFINE q == wf'[w]
               r == wf[w]
               n == r.start + Len(r.buf)
    <3>1. /\ q.state = r.state /\ q.inst = r.inst /\ q.pc = r.pc /\ q.next = r.next /\ q.start = r.start
          /\ c # "inst" => q.buf = r.buf
          /\ c = "inst" => q.buf = IF info.at = n THEN Append(r.buf, info.at) ELSE r.buf
      BY <1>1, <2>1, ReturnedIs
    <3> HIDE DEF n
    <3>2. q.buf = r.buf \/ q.buf = Append(r.buf, n)
      BY <3>1
    <3> QED BY <3>1, <3>2 DEF Kept, RecSame, Fetched, Busy, n
  <2> QED BY <2>2 DEF Change
<1> QED BY <1>2, <1>3

\* The other actions change states only.
LEMMA StateChange ==
  ASSUME CUType, PlaceInv, SampleInv, NEW w \in Wave,
         \/ \E g \in Group : HandleMapWGReq(g)
         \/ DoFlush \/ StopTimeModel \/ \E v \in Wave : HandleWfCompletionEvent(v)
  PROVE  Kept(wf'[w], wf[w])
<1>1. wf[w] \in WaveRecord /\ wf \in [Wave -> WaveRecord]
  BY DEF CUType
<1>2. ASSUME wf'[w] = wf[w] \/ \E s \in State \ {"running", "barrier"} : wf'[w] = [wf[w] EXCEPT !.state = s]
      PROVE  Kept(wf'[w], wf[w])
  BY <1>1, <1>2 DEF Kept, RecSame, Busy, WaveRecord
<1>3. CASE \E g \in Group : HandleMapWGReq(g)
  <2>1. PICK g \in Group : HandleMapWGReq(g)
    BY <1>3
  <2>2. \E s \in {"sampled", "ready"} :
           wf' = [v \in Wave |-> IF GroupOf[v] = g THEN [wf[v] EXCEPT !.state = s] ELSE wf[v]]
    BY <2>1 DEF HandleMapWGReq
  <2>3. wf'[w] = wf[w] \/ \E s \in {"sampled", "ready"} : wf'[w] = [wf[w] EXCEPT !.state = s]
    BY <2>2
  <2> QED BY <1>2, <2>3 DEF State
<1>4. CASE DoFlush
  <2>1. UNCHANGED wf \/ wf' = [v \in Wave |-> IF v \in pool THEN SetWaveToReady(wf[v]) ELSE wf[v]]
    BY <1>4 DEF DoFlush
  <2>2. wf'[w] = wf[w] \/ wf'[w] = SetWaveToReady(wf[w])
    BY <2>1
  <2> QED BY <1>1, <1>2, <2>2 DEF SetWaveToReady, Kept, RecSame, Busy, WaveRecord
<1>5. CASE StopTimeModel
  <2>1. \E stop : wf' = [v \in Wave |-> IF v \in stop /\ ~ Finished(v)
                                  THEN [wf[v] EXCEPT !.state = "sampled"] ELSE wf[v]]
    BY <1>5 DEF StopTimeModel
  <2>2. wf'[w] = wf[w] \/ wf'[w] = [wf[w] EXCEPT !.state = "sampled"]
    BY <2>1
  <2> QED BY <1>2, <2>2 DEF State
<1>6. CASE \E v \in Wave : HandleWfCompletionEvent(v)
  <2>1. \E v \in Wave : wf' = [wf EXCEPT ![v].state = "completed"]
    BY <1>6 DEF HandleWfCompletionEvent
  <2>2. wf'[w] = wf[w] \/ wf'[w] = [wf[w] EXCEPT !.state = "completed"]
    BY <1>1, <2>1
  <2> QED BY <1>2, <2>2 DEF State
<1> QED BY <1>3, <1>4, <1>5, <1>6

\* The actions that change no record.
LEMMA NoChange ==
  ASSUME \/ DecodeScalar \/ DecodeLDS \/ DecodeVector \/ DecodeVMem
         \/ \E u \in Staged : RunReadStage(u) \/ RunExecStage(u)
         \/ ScalarSendRequest \/ InsertTransactionToPipeline \/ VectorSendRequest
         \/ \E c \in Channel : MemReply(c) \/ SendShadowBufferAccess(c)
         \/ ProcessInputFromCP \/ CheckShadowBuffers \/ FlushBelow \/ Restarted \/ SendFlush
         \/ EnableSampled \/ Report \/ \E w \in Wave : SampledWfCompleted(w)
         \/ UNCHANGED vars
  PROVE  UNCHANGED <<setup, wf, pool>>
  BY DEF DecodeScalar, DecodeLDS, DecodeVector, DecodeVMem, RunReadStage, RunExecStage,
         ScalarSendRequest, InsertTransactionToPipeline, VectorSendRequest, MemReply,
         SendShadowBufferAccess, ProcessInputFromCP, CheckShadowBuffers, FlushBelow, Restarted,
         SendFlush, EnableSampled, Report, SampledWfCompleted, vars, waveVars

LEMMA UnitWork ==
  ASSUME CUType, PlaceInv, UnitStep, NEW w \in Wave
  PROVE  Work(w, wf'[w])
<1>0. ASSUME UNCHANGED wf PROVE Work(w, wf'[w])
  BY <1>0 DEF Work
<1>1. CASE BranchWriteStage
  BY <1>1, BranchWork
<1>2. CASE (\E n \in 1 .. MaxTransactions : ExecuteSMEMLoad(n)) \/ (\E n \in 0 .. MaxTransactions : ExecuteFlat(n))
  <2>1. \A n \in 0 .. MaxTransactions : n \in Nat
    BY LimitAssumption
  <2>2. \A n \in 1 .. MaxTransactions : n \in Nat
    BY LimitAssumption
  <2> QED BY <1>2, <2>1, <2>2, ExecuteWork
<1> QED BY <1>0, <1>1, <1>2, NoChange, WriteWork, SIMDWork DEF UnitStep

LEMMA ChangeStep ==
  ASSUME CUType, PlaceInv, SampleInv, BufInv, BarrierRoom, [Next]_vars, NEW w \in Wave
  PROVE  Change(w, wf'[w])
<1>0. ASSUME UNCHANGED wf PROVE Change(w, wf'[w])
  BY <1>0, SameKept DEF Change
<1>1. CASE SchedulerStep
  BY <1>1, EvaluateChange, SchedulerChange DEF SchedulerStep
<1>2. CASE UnitStep
  BY <1>2, UnitWork, SameKept DEF Work, Change
<1>3. CASE MemStep
  BY <1>0, <1>3, MemChange, NoChange DEF MemStep
<1>4. CASE FlushStep \/ SendFlush
  BY <1>0, <1>4, NoChange, StateChange DEF FlushStep, Change
<1>5. CASE (\E g \in Group : HandleMapWGReq(g)) \/ EnableSampled \/ SampleStep \/ CompletionStep
  BY <1>0, <1>5, NoChange, StateChange DEF SampleStep, CompletionStep, Change
<1>6. CASE UNCHANGED vars
  BY <1>0, <1>6, NoChange
<1> QED BY <1>1, <1>2, <1>3, <1>4, <1>5, <1>6 DEF Next

\* Every change keeps the buffer in order.
LEMMA BufferKept ==
  ASSUME CUType, BufInv, NEW w \in Wave, NEW q \in WaveRecord, Change(w, q)
  PROVE  BufferOK(q) /\ q.pc <= Len(setup.prog[w])
<1> DEFINE r == wf[w]
<1>1. r \in WaveRecord /\ BufferOK(r) /\ r.pc <= Len(setup.prog[w])
  BY DEF CUType, BufInv, PCOK
<1>2. r.pc \in Nat \ {0} /\ r.start \in Nat /\ r.buf \in Seq(Nat)
  BY <1>1 DEF WaveRecord
<1> HIDE DEF r
<1>3. CASE Kept(q, r)
  BY <1>1, <1>3, BufferOKSame DEF Kept, RecSame
<1>4. CASE Fetched(q, r)
  <2>1. /\ q.pc = r.pc /\ q.next = r.next /\ q.inst = r.inst /\ q.start = r.start /\ q.state = r.state
        /\ q.buf = Append(r.buf, r.start + Len(r.buf))
    BY <1>4 DEF Fetched
  <2>2. /\ r.start <= Line(r.pc) /\ Line(r.pc) <= r.start + Len(r.buf) /\ Line(r.pc) \in Nat
        /\ \A i \in DOMAIN r.buf : r.buf[i] = r.start + i - 1
        /\ Busy(r) \/ r.next # 0 => Line(r.pc) < r.start + Len(r.buf)
    BY <1>1, <1>2, LineType DEF BufferOK
  <2>3. /\ Len(q.buf) = Len(r.buf) + 1 /\ q.buf # <<>> /\ Len(r.buf) \in Nat
        /\ DOMAIN q.buf = 1 .. Len(r.buf) + 1 /\ DOMAIN r.buf = 1 .. Len(r.buf)
        /\ q.buf[Len(r.buf) + 1] = r.start + Len(r.buf)
        /\ \A i \in 1 .. Len(r.buf) : q.buf[i] = r.buf[i]
    BY <1>2, <2>1
  <2>4. ASSUME NEW i \in DOMAIN q.buf PROVE q.buf[i] = r.start + i - 1
    <3>1. CASE i = Len(r.buf) + 1
      BY <1>2, <2>3, <3>1
    <3>2. CASE i \in 1 .. Len(r.buf)
      BY <2>2, <2>3, <3>2
    <3> QED BY <2>3, <3>1, <3>2
  <2>5. /\ Line(r.pc) <= r.start + Len(q.buf)
        /\ Busy(r) \/ r.next # 0 => Line(r.pc) < r.start + Len(q.buf)
    BY <1>2, <2>2, <2>3
  <2>6. (Busy(q) <=> Busy(r)) /\ r.next \in {0, r.pc} /\ (Busy(r) => r.next = 0 /\ r.inst = r.pc)
    BY <1>1, <2>1 DEF BufferOK, Busy
  <2>7. BufferOK(q)
    BY <2>1, <2>2, <2>3, <2>4, <2>5, <2>6 DEF BufferOK
  <2> QED BY <1>1, <2>1, <2>7
<1>5. CASE Decoded(q, r)
  BY <1>1, <1>5 DEF Decoded, BufferOK, Busy
<1>6. CASE Issued(q, r)
  BY <1>1, <1>6 DEF Issued, BufferOK, Busy
<1>7. CASE Advanced(q, w)
  <2>1. BufferOK(SetReady(r, r.pc + 1))
    BY <1>1, <1>7, SetReadyNext DEF Advanced, r
  <2>2. BufferOK(q)
    BY <1>7, <2>1, BufferOKSame DEF Advanced, RecSame, Busy, r
  <2>3. q.pc = r.pc + 1
    BY <1>1, <1>7, SetReadySame DEF Advanced, RecSame, r
  <2>4. r.pc + 1 <= Len(setup.prog[w])
    BY <1>7, NextPC DEF Advanced, r
  <2> QED BY <2>2, <2>3, <2>4
<1>8. CASE Branched(q, w)
  <2>1. PICK to \in 1 .. Len(setup.prog[w]) : RecSame(q, Branch(r, to))
    BY <1>8 DEF Branched, r
  <2>2. to \in Nat \ {0} /\ to <= Len(setup.prog[w]) /\ Busy(r) /\ q.state = "ready"
    <3>1. setup.prog[w] \in Seq(Inst)
      BY SetupAssumption DEF CUType
    <3> QED BY <1>8, <2>1, <3>1 DEF Branched, r
  <2>3. BufferOK(Branch(r, to)) /\ Branch(r, to).pc = to
    BY <1>1, <2>2, BranchOK, BranchTo
  <2>4. BufferOK(q) /\ q.pc = to
    BY <2>1, <2>2, <2>3, BufferOKSame DEF RecSame, Busy
  <2> QED BY <2>2, <2>4
<1> QED BY <1>3, <1>4, <1>5, <1>6, <1>7, <1>8 DEF Change, r

\* No step changes the programs.
LEMMA SetupStays ==
  ASSUME [Next]_vars
  PROVE  UNCHANGED setup
<1>1. CASE SchedulerStep
  BY <1>1 DEF SchedulerStep, EvaluateInternalInst, DecodeNextInst, DoFetch, Issue
<1>2. CASE UnitStep
  BY <1>2 DEF UnitStep, DecodeScalar, DecodeLDS, DecodeVector, DecodeVMem, RunReadStage, RunExecStage, RunWriteStage,
              BranchWriteStage, SIMDExec, ExecuteSMEMLoad, ScalarSendRequest, ExecuteFlat,
              InsertTransactionToPipeline, VectorSendRequest, waveVars
<1>3. CASE MemStep
  BY <1>3 DEF MemStep, ProcessInputFromMem, MemReply, waveVars
<1>4. CASE FlushStep \/ SendFlush
  BY <1>4 DEF FlushStep, SendFlush, ProcessInputFromCP, DoFlush, CheckShadowBuffers, SendShadowBufferAccess, FlushBelow, Restarted, waveVars
<1>5. CASE (\E g \in Group : HandleMapWGReq(g)) \/ EnableSampled \/ SampleStep \/ CompletionStep
  BY <1>5 DEF HandleMapWGReq, EnableSampled, SampleStep, StopTimeModel, SampledWfCompleted, CompletionStep, Report,
              HandleWfCompletionEvent, waveVars
<1>6. CASE UNCHANGED vars
  BY <1>6 DEF vars, waveVars
<1> QED BY <1>1, <1>2, <1>3, <1>4, <1>5, <1>6 DEF Next

LEMMA BufStep ==
  ASSUME CUType, PlaceInv, SampleInv, BufInv, BarrierRoom, [Next]_vars
  PROVE  BufInv'
<1> SUFFICES ASSUME NEW w \in Wave PROVE BufferOK(wf'[w]) /\ wf'[w].pc <= Len(setup'.prog[w])
  BY DEF BufInv, PCOK, BufferOK, Busy, Line
<1>1. CUType'
  BY TypeStep
<1>2. wf'[w] \in WaveRecord
  BY <1>1 DEF CUType
<1>3. Change(w, wf'[w])
  BY ChangeStep
<1> QED BY <1>2, <1>3, BufferKept, SetupStays

-----------------------------------------------------------------------------
(* Sampling.                                                               *)

LEMMA SampleKept ==
  ASSUME CUType, SampleInv, pool' \subseteq pool, ctl.stopNew => ctl'.stopNew,
         \A w \in (events \cup predicted)' : w \in events \cup predicted \/ wf'[w].state = "completed",
         \A w \in Wave : \/ wf'[w].state = wf[w].state
                         \/ Busy(wf[w]) /\ wf'[w].state \in {"running", "ready", "completed", "barrier"}
                         \/ wf[w].state = "ready" /\ ~ ctl.stopNew /\ wf'[w].state = "running"
                         \/ wf'[w].state = "completed"
  PROVE  SampleInv'
<1>1. \A w \in pool' : w \in pool /\ w \in Wave
  BY DEF CUType
<1>2. \A w \in events \cup predicted : w \in Wave
  BY DEF CUType
<1>3. \A w \in pool' : wf'[w].state # "dispatching" /\ (wf'[w].state = "sampled" => ctl'.stopNew)
  BY <1>1 DEF SampleInv
<1>4. \A w \in (events \cup predicted)' :
         wf'[w].state \in {"completed", "sampled"} \/ (wf'[w].state = "ready" /\ ctl'.stopNew)
  BY <1>2 DEF SampleInv, Busy
<1> QED BY <1>3, <1>4 DEF SampleInv

\* A step of the scheduler or of a unit, or a response.
LEMMA WorkSamples ==
  ASSUME CUType, PlaceInv, SampleInv, BufInv, BarrierRoom, SchedulerStep \/ UnitStep \/ MemStep
  PROVE  SampleInv'
<1>1. UNCHANGED <<pool, ctl, predicted>>
  BY DEF SchedulerStep, EvaluateInternalInst, DecodeNextInst, DoFetch, Issue, UnitStep,
         DecodeScalar, DecodeLDS, DecodeVector, DecodeVMem, RunReadStage, RunExecStage, RunWriteStage,
         BranchWriteStage, SIMDExec, ExecuteSMEMLoad, ScalarSendRequest, ExecuteFlat,
         InsertTransactionToPipeline, VectorSendRequest, waveVars,
         MemStep, ProcessInputFromMem, MemReply, doneVars
<1>2. CASE EvaluateInternalInst
  <2>1. PICK e : /\ EvalInv(e, Len(internalExecuting)) /\ wf' = e.waves
                 /\ events' = events \cup e.ended
    BY <1>2, EvaluateIs
  <2>2. \A w \in e.ended : w \in Wave /\ wf'[w].state = "completed"
    BY <2>1 DEF EvalInv, Run
  <2>3. ASSUME NEW w \in Wave
        PROVE  \/ wf'[w].state = wf[w].state
               \/ Busy(wf[w]) /\ wf'[w].state \in {"running", "ready", "completed", "barrier"}
    <3>1. Outcome(e, w) /\ wf[w] \in WaveRecord
      BY <2>1 DEF EvalInv, CUType
    <3>2. In(internalExecuting, w) => Busy(wf[w])
      BY ListIs DEF Busy
    <3>3. /\ [wf[w] EXCEPT !.state = "completed"].state = "completed"
          /\ [wf[w] EXCEPT !.state = "barrier"].state = "barrier"
          /\ [wf[w] EXCEPT !.state = "ready"].state = "ready"
          /\ SetReady(wf[w], wf[w].pc + 1).state = "ready"
      BY <3>1, SetReadySame DEF WaveRecord
    <3>4. Released(e, w) => Busy(wf[w]) /\ wf'[w] = SetReady(wf[w], wf[w].pc + 1)
      BY <2>1 DEF Released, Waves, Busy
    <3> QED BY <2>1, <3>1, <3>2, <3>3, <3>4 DEF Outcome
  <2> QED BY <1>1, <2>1, <2>2, <2>3, SampleKept
<1>3. CASE ~ EvaluateInternalInst
  <2>1. UNCHANGED events
    BY <1>3 DEF SchedulerStep, DecodeNextInst, DoFetch, Issue, UnitStep,
         DecodeScalar, DecodeLDS, DecodeVector, DecodeVMem, RunReadStage, RunExecStage, RunWriteStage,
         BranchWriteStage, SIMDExec, ExecuteSMEMLoad, ScalarSendRequest, ExecuteFlat,
         InsertTransactionToPipeline, VectorSendRequest,
         MemStep, ProcessInputFromMem, MemReply, doneVars
  <2>2. ASSUME NEW w \in Wave
        PROVE  \/ wf'[w].state = wf[w].state
               \/ Busy(wf[w]) /\ wf'[w].state = "ready"
               \/ wf[w].state = "ready" /\ ~ ctl.stopNew /\ wf'[w].state = "running"
    <3>1. wf[w] \in WaveRecord /\ wf \in [Wave -> WaveRecord]
      BY DEF CUType
    <3>2. CASE \E v \in Wave : Issue(v)
      <4>1. PICK v \in Wave : Issue(v)
        BY <3>2
      <4>2. /\ wf[v].state = "ready" /\ ~ ctl.stopNew
            /\ wf' = [wf EXCEPT ![v].inst = wf[v].next, ![v].next = 0, ![v].state = "running"]
        BY <4>1 DEF Issue
      <4>3. wf'[w] = wf[w] \/ (w = v /\ wf'[w].state = "running")
        BY <3>1, <4>2 DEF WaveRecord
      <4> QED BY <4>2, <4>3
    <3>3. CASE \E v \in Wave : DecodeNextInst(v) \/ DoFetch(v)
      <4>1. PICK v \in Wave : DecodeNextInst(v) \/ DoFetch(v)
        BY <3>3
      <4> DEFINE n == wf[v].buf[Line(wf[v].pc) - wf[v].start + 1] * LineInsts
                    + ((wf[v].pc - 1) % LineInsts) + 1
                 s == IF wf[v].buf = <<>> THEN Line(wf[v].pc) ELSE wf[v].start
      <4>3. wf' = [wf EXCEPT ![v].start = Line(wf[v].pc)] \/ wf' = [wf EXCEPT ![v].next = n]
            \/ wf' = [wf EXCEPT ![v].start = s, ![v].fetching = TRUE]
        BY <4>1 DEF DecodeNextInst, DoFetch
      <4> HIDE DEF n, s
      <4>4. \/ wf'[w] = wf[w] \/ wf'[w] = [wf[w] EXCEPT !.start = Line(wf[v].pc)]
            \/ wf'[w] = [wf[w] EXCEPT !.next = n]
            \/ wf'[w] = [wf[w] EXCEPT !.start = s, !.fetching = TRUE]
        BY <3>1, <4>3
      <4> QED BY <3>1, <4>4 DEF WaveRecord
    <3>4. CASE MemStep
      <4>1. wf'[w] = wf[w] \/ \E c \in Channel, info \in Access : wf'[w] = Returned(c, wf[w], info)
        BY <3>4, AnsweredIs DEF MemStep, MemReply, waveVars
      <4> QED BY <3>1, <4>1, ReturnedIs
    <3>5. CASE UnitStep
      BY <3>5, UnitWork DEF Work, Advanced, Branched
    <3> QED BY <1>3, <3>2, <3>3, <3>4, <3>5 DEF SchedulerStep
  <2> QED BY <1>1, <2>1, <2>2, SampleKept
<1> QED BY <1>2, <1>3

\* A flush makes the waves of the pools ready, a new work-group enters, waves
\* are stopped, predicted and announced.
LEMMA OtherSamples ==
  ASSUME CUType, SampleInv,
         \/ DoFlush \/ StopTimeModel
         \/ \E g \in Group : HandleMapWGReq(g)
         \/ \E w \in Wave : SampledWfCompleted(w) \/ HandleWfCompletionEvent(w)
  PROVE  SampleInv'
<1>1. wf \in [Wave -> WaveRecord] /\ pool \subseteq Wave /\ events \subseteq Wave /\ predicted \subseteq Wave
  BY DEF CUType
<1>2. CASE DoFlush
  <2>1. UNCHANGED <<pool, events, predicted>> /\ ctl'.stopNew = ctl.stopNew
    BY <1>2 DEF DoFlush, doneVars, CUType
  <2>2. UNCHANGED wf \/ wf' = [v \in Wave |-> IF v \in pool THEN SetWaveToReady(wf[v]) ELSE wf[v]]
    BY <1>2 DEF DoFlush
  <2>3. ASSUME NEW w \in Wave
        PROVE  \/ wf'[w].state = wf[w].state
               \/ w \in pool /\ wf[w].state # "completed" /\ wf'[w].state = "ready"
    BY <1>1, <2>2 DEF SetWaveToReady, WaveRecord
  <2>4. \A w \in pool' : wf'[w].state # "dispatching" /\ (wf'[w].state = "sampled" => ctl'.stopNew)
    BY <1>1, <2>1, <2>3 DEF SampleInv
  <2>5. ASSUME NEW w \in (events \cup predicted)'
        PROVE  wf'[w].state \in {"completed", "sampled"} \/ (wf'[w].state = "ready" /\ ctl'.stopNew)
    BY <1>1, <2>1, <2>3 DEF SampleInv
  <2> QED BY <2>4, <2>5 DEF SampleInv
<1>3. CASE StopTimeModel
  <2>1. /\ UNCHANGED <<pool, events>> /\ ctl'.stopNew
    BY <1>3 DEF StopTimeModel, CUType
  <2>2. PICK stop : /\ wf' = [w \in Wave |-> IF w \in stop /\ ~ Finished(w)
                                  THEN [wf[w] EXCEPT !.state = "sampled"] ELSE wf[w]]
                    /\ predicted' = predicted \cup {w \in stop : ~ Finished(w)}
                    /\ stop \subseteq Wave
    BY <1>3 DEF StopTimeModel
  <2>3. \A w \in Wave : \/ wf'[w].state = wf[w].state
                        \/ wf'[w].state = "sampled"
    BY <1>1, <2>2 DEF WaveRecord
  <2>4. \A w \in stop : ~ Finished(w) => wf'[w].state = "sampled"
    BY <1>1, <2>2 DEF WaveRecord
  <2>5. \A w \in pool' : wf'[w].state # "dispatching" /\ (wf'[w].state = "sampled" => ctl'.stopNew)
    BY <1>1, <2>1, <2>3 DEF SampleInv
  <2>6. ASSUME NEW w \in (events \cup predicted)'
        PROVE  wf'[w].state \in {"completed", "sampled"} \/ (wf'[w].state = "ready" /\ ctl'.stopNew)
    <3>1. CASE w \in events \cup predicted
      BY <1>1, <2>1, <2>3, <3>1 DEF SampleInv
    <3>2. CASE w \in stop /\ ~ Finished(w)
      BY <2>4, <3>2
    <3> QED BY <2>1, <2>2, <3>1, <3>2
  <2> QED BY <2>5, <2>6 DEF SampleInv
<1>4. CASE \E g \in Group : HandleMapWGReq(g)
  <2>1. PICK g \in Group : HandleMapWGReq(g)
    BY <1>4
  <2>2. /\ UNCHANGED <<events, ctl>> /\ \A w \in Waves(g) : wf[w].state = "dispatching"
    BY <2>1 DEF HandleMapWGReq
  <2>3. \A w \in pool \cup events \cup predicted : w \in Wave /\ w \notin Waves(g)
    BY <1>1, <2>2 DEF SampleInv
  <2>4. \E s \in {"sampled", "ready"} :
          /\ wf' = [w \in Wave |-> IF GroupOf[w] = g THEN [wf[w] EXCEPT !.state = s] ELSE wf[w]]
          /\ s = "sampled" => pool' = pool /\ predicted' = predicted \cup Waves(g)
          /\ s = "ready" => pool' = pool \cup Waves(g) /\ predicted' = predicted
    BY <2>1 DEF HandleMapWGReq
  <2>5. PICK s \in {"sampled", "ready"} :
          /\ wf' = [w \in Wave |-> IF GroupOf[w] = g THEN [wf[w] EXCEPT !.state = s] ELSE wf[w]]
          /\ s = "sampled" => pool' = pool /\ predicted' = predicted \cup Waves(g)
          /\ s = "ready" => pool' = pool \cup Waves(g) /\ predicted' = predicted
    BY <2>4
  <2>6. \A w \in Wave : /\ w \in Waves(g) => wf'[w].state = s
                        /\ w \notin Waves(g) => wf'[w] = wf[w]
    BY <1>1, <2>5 DEF WaveRecord, Waves
  <2>7. \A w \in Waves(g) : w \in Wave
    BY DEF Waves
  <2>8. ASSUME NEW w \in pool'
        PROVE  wf'[w].state # "dispatching" /\ (wf'[w].state = "sampled" => ctl'.stopNew)
    BY <2>2, <2>3, <2>5, <2>6, <2>7 DEF SampleInv
  <2>9. ASSUME NEW w \in (events \cup predicted)'
        PROVE  wf'[w].state \in {"completed", "sampled"} \/ (wf'[w].state = "ready" /\ ctl'.stopNew)
    BY <2>2, <2>3, <2>5, <2>6, <2>7 DEF SampleInv
  <2> QED BY <2>8, <2>9 DEF SampleInv
<1>5. CASE \E w \in Wave : SampledWfCompleted(w)
  <2>1. UNCHANGED <<pool, wf, ctl>> /\ (events \cup predicted)' \subseteq events \cup predicted
    BY <1>5 DEF SampledWfCompleted, waveVars
  <2> QED BY <2>1 DEF SampleInv
<1>6. CASE \E w \in Wave : HandleWfCompletionEvent(w)
  <2>1. PICK w \in Wave : HandleWfCompletionEvent(w)
    BY <1>6
  <2>2. /\ wf' = [wf EXCEPT ![w].state = "completed"]
        /\ pool' \subseteq pool /\ events' \subseteq events /\ UNCHANGED predicted
        /\ ctl'.stopNew = ctl.stopNew
    BY <2>1 DEF HandleWfCompletionEvent, CUType
  <2>3. \A v \in Wave : wf'[v].state = wf[v].state \/ wf'[v].state = "completed"
    BY <1>1, <2>2 DEF WaveRecord
  <2> QED BY <1>1, <2>2, <2>3, SampleKept
<1> QED BY <1>2, <1>3, <1>4, <1>5, <1>6

LEMMA SampleInvStep ==
  ASSUME CUType, PlaceInv, SampleInv, BufInv, BarrierRoom, [Next]_vars
  PROVE  SampleInv'
<1>1. CASE SchedulerStep \/ UnitStep \/ MemStep
  BY <1>1, WorkSamples
<1>2. CASE DoFlush \/ SampleStep \/ (\E g \in Group : HandleMapWGReq(g))
           \/ \E w \in Wave : HandleWfCompletionEvent(w)
  BY <1>2, OtherSamples DEF SampleStep
<1>3. ASSUME UNCHANGED <<wf, pool, events, predicted>>, ctl'.stopNew = ctl.stopNew PROVE SampleInv'
  BY <1>3 DEF SampleInv
<1>4. CASE ProcessInputFromCP \/ CheckShadowBuffers \/ (\E c \in Channel : SendShadowBufferAccess(c))
           \/ FlushBelow \/ Restarted \/ SendFlush \/ EnableSampled
  BY <1>3, <1>4 DEF ProcessInputFromCP, CheckShadowBuffers, SendShadowBufferAccess, FlushBelow, Restarted,
                    SendFlush, EnableSampled, waveVars, doneVars, CUType
<1>5. CASE Report \/ UNCHANGED vars
  BY <1>3, <1>5 DEF Report, vars, waveVars, doneVars
<1> QED BY <1>1, <1>2, <1>4, <1>5 DEF Next, FlushStep, CompletionStep

-----------------------------------------------------------------------------
(* The theorems on the places and the program counters.                    *)

CoreInv == CUType /\ PlaceInv /\ SampleInv /\ BufInv

LEMMA InitCore ==
  ASSUME Init
  PROVE  CoreInv
<1>1. /\ wf = [w \in Wave |-> FreshWave] /\ setup \in Setups /\ pool = {} /\ events = {} /\ predicted = {}
  BY DEF Init
<1>2. FreshWave \in WaveRecord /\ FreshWave.state = "dispatching" /\ <<>> \in Seq(Nat)
  BY DEF FreshWave, WaveRecord, State
<1>3. CUType
  <2>1. wf \in [Wave -> WaveRecord]
    BY <1>1, <1>2
  <2>2. [c \in Channel |-> <<>>] \in [Channel -> Seq(Access)] /\ [c \in Channel |-> <<>>] \in [Channel -> Seq(Id)]
    OBVIOUS
  <2>3. /\ inFlight \in [Channel -> Seq(Access)] /\ shadow \in [Channel -> Seq(Access)]
        /\ mem \in [Channel -> Seq(Id)] /\ rsp \in [Channel -> Seq(Id)]
    BY <2>2 DEF Init
  <2>4. /\ stage \in [Staged -> [read : Wave \cup {None}, exec : Wave \cup {None}, write : Wave \cup {None}]]
        /\ toDecode \in [Decode -> Wave \cup {None}] /\ simd \in [SIMD -> Wave \cup {None}]
    BY DEF Init
  <2>5. /\ internalExecuting \in Seq(Wave) /\ barrierBuffer \in Seq(Wave) /\ instPipe \in Seq(Wave)
        /\ readBuf \in Seq(Access) /\ transWaiting \in Seq(Access) /\ transPipe \in Seq(Access)
    BY DEF Init
  <2>6. /\ ctl \in [paused : BOOLEAN, flushing : BOOLEAN, sending : BOOLEAN, handling : BOOLEAN,
                    enabled : BOOLEAN, stopNew : BOOLEAN, allPaused : BOOLEAN]
        /\ cp \in [phase : {"run", "flush", "restart"}, msg : {None, "flush", "restart"},
                   answer : {None, "flushed", "restarted"}, era : Nat]
    BY DEF Init
  <2> QED BY <1>1, <2>1, <2>3, <2>4, <2>5, <2>6 DEF CUType
<1>4. PlaceInv
  <2>1. Once(internalExecuting) /\ Once(barrierBuffer) /\ Once(instPipe)
    BY EmptyIn DEF Init
  <2>2. ASSUME NEW w \in Wave PROVE Placed(w)
    <3>1. \A p \in Spot : ~ Occupies(p, w)
      BY EmptyIn, SpotKinds, NoneAssumption DEF Init, Occupies, InSlot, Content, Decode, Staged, Stages
    <3>2. wf[w].state = "dispatching"
      BY <1>1, <1>2
    <3> QED BY <3>1, <3>2 DEF Placed
  <2> QED BY <2>1, <2>2 DEF PlaceInv
<1>5. SampleInv
  BY <1>1 DEF SampleInv
<1>6. BufInv
  <2> SUFFICES ASSUME NEW w \in Wave PROVE BufferOK(wf[w]) /\ PCOK(w)
    BY DEF BufInv
  <2>1. wf[w] = FreshWave
    BY <1>1
  <2>2. Line(1) = 0
    BY LimitAssumption DEF Line
  <2>3. BufferOK(wf[w])
    BY <2>1, <2>2 DEF BufferOK, Busy, FreshWave
  <2>4. setup.prog[w] \in Seq(Inst) /\ setup.prog[w] # <<>>
    BY <1>1, SetupAssumption
  <2>5. wf[w].pc = 1 /\ Len(setup.prog[w]) \in Nat /\ Len(setup.prog[w]) # 0
    BY <2>1, <2>4 DEF FreshWave
  <2>6. PCOK(w)
    BY <2>5 DEF PCOK
  <2> QED BY <2>3, <2>6
<1> QED BY <1>3, <1>4, <1>5, <1>6 DEF CoreInv

LEMMA CoreStep ==
  ASSUME CoreInv, VectorRoom, BarrierRoom, [Next]_vars
  PROVE  CoreInv'
  BY TypeStep, PlaceStep, BufStep, SampleInvStep DEF CoreInv

\* The invariant holds in every behaviour whose waves find room.
THEOREM CoreInvariant == Spec /\ [](VectorRoom /\ BarrierRoom) => []CoreInv
<1>1. Init => CoreInv
  BY InitCore
<1>2. CoreInv /\ (VectorRoom /\ BarrierRoom) /\ [Next]_vars => CoreInv'
  BY CoreStep
<1> QED BY <1>1, <1>2, PTL DEF Spec

LEMMA AtMostOne ==
  ASSUME NEW S, \A x, y \in S : x = y
  PROVE  Cardinality(S) = IF S = {} THEN 0 ELSE 1
<1>1. CASE S = {}
  BY <1>1, FS_EmptySet
<1>2. CASE S # {}
  <2>1. PICK x : x \in S
    BY <1>2
  <2>2. S = {x}
    BY <2>1
  <2> QED BY <1>2, <2>2, FS_Singleton
<1> QED BY <1>1, <1>2

LEMMA HoldsIs ==
  ASSUME NEW seq, Once(seq), NEW w
  PROVE  Holds(seq, w) = IF In(seq, w) THEN 1 ELSE 0
<1> DEFINE S == {i \in DOMAIN seq : seq[i] = w}
<1>1. \A x, y \in S : x = y
  BY DEF Once
<1>2. S = {} <=> ~ In(seq, w)
  BY DEF In
<1> HIDE DEF S
<1>3. Cardinality(S) = IF S = {} THEN 0 ELSE 1
  BY <1>1, AtMostOne
<1> QED BY <1>2, <1>3 DEF Holds, S

\* The counts that OnePlace adds up, by the places.
LEMMA PlacesAre ==
  ASSUME PlaceInv, NEW w \in Wave
  PROVE  \E s, d, m \in {0, 1} :
           /\ Places(w) = Holds(internalExecuting, w) + Holds(instPipe, w) + s + d + m
           /\ s = 1 <=> \E u \in Staged, t \in Stages : Occupies(<<u, t>>, w)
           /\ d = 1 <=> \E k \in Decode : Occupies(<<k, "at">>, w)
           /\ m = 1 <=> \E k \in SIMD : Occupies(<<"simd", k>>, w)
<1> DEFINE S == {p \in Staged \X {"read", "exec", "write"} : stage[p[1]][p[2]] = w}
           D == {k \in Decode : toDecode[k] = w}
           M == {k \in SIMD : simd[k] = w}
<1>0. \A p, q \in Spot : Occupies(p, w) /\ Occupies(q, w) => p = q
  BY AtPlace DEF Alone
<1>1. /\ \A x, y \in S : x = y
      /\ S # {} <=> \E u \in Staged, t \in Stages : Occupies(<<u, t>>, w)
  <2>1. \A x \in S : \E u \in Staged, t \in Stages : x = <<u, t>> /\ Occupies(<<u, t>>, w)
    BY OccupiesStage DEF Stages
  <2>2. \A u \in Staged, t \in Stages : Occupies(<<u, t>>, w) => <<u, t>> \in S
    BY OccupiesStage DEF Stages
  <2> HIDE DEF S
  <2>3. ASSUME NEW x \in S PROVE x \in Spot /\ Occupies(x, w)
    <3>1. PICK u \in Staged, t \in Stages : x = <<u, t>> /\ Occupies(<<u, t>>, w)
      BY <2>1
    <3>2. <<u, t>> \in Spot
      BY SpotsAre
    <3> QED BY <3>1, <3>2
  <2> QED BY <1>0, <2>1, <2>2, <2>3
<1>2. /\ \A x, y \in D : x = y
      /\ D # {} <=> \E k \in Decode : Occupies(<<k, "at">>, w)
  <2>1. \A k \in Decode : k \in D <=> Occupies(<<k, "at">>, w)
    BY OccupiesDecode
  <2>2. \A x, y \in D : <<x, "at">> = <<y, "at">>
    BY <1>0, <2>1, SpotsAre
  <2> QED BY <2>1, <2>2
<1>3. /\ \A x, y \in M : x = y
      /\ M # {} <=> \E k \in SIMD : Occupies(<<"simd", k>>, w)
  <2>1. \A k \in SIMD : k \in M <=> Occupies(<<"simd", k>>, w)
    BY OccupiesSIMD
  <2>2. \A x, y \in M : <<"simd", x>> = <<"simd", y>>
    BY <1>0, <2>1, SpotsAre
  <2> QED BY <2>1, <2>2
<1>4. Places(w) = Holds(internalExecuting, w) + Holds(instPipe, w) + Cardinality(S) + Cardinality(D) + Cardinality(M)
  BY DEF Places
<1> HIDE DEF S, D, M
<1>5. /\ Cardinality(S) = IF S = {} THEN 0 ELSE 1
      /\ Cardinality(D) = IF D = {} THEN 0 ELSE 1
      /\ Cardinality(M) = IF M = {} THEN 0 ELSE 1
  BY <1>1, <1>2, <1>3, AtMostOne
<1>6. Cardinality(S) \in {0, 1} /\ Cardinality(D) \in {0, 1} /\ Cardinality(M) \in {0, 1}
  BY <1>5
<1>7. (Cardinality(S) = 1 <=> S # {}) /\ (Cardinality(D) = 1 <=> D # {}) /\ (Cardinality(M) = 1 <=> M # {})
  BY <1>5
<1> QED BY <1>1, <1>2, <1>3, <1>4, <1>6, <1>7

LEMMA PlacedOnce ==
  ASSUME PlaceInv
  PROVE  OnePlace
<1> SUFFICES ASSUME NEW w \in Wave
             PROVE  Places(w) + Holds(barrierBuffer, w)
                      = IF wf[w].state = "running" \/ wf[w].state = "barrier" THEN 1 ELSE 0
  BY DEF OnePlace
<1> DEFINE i == Holds(internalExecuting, w)
           p == Holds(instPipe, w)
           b == Holds(barrierBuffer, w)
<1>1. PICK s \in {0, 1}, d \in {0, 1}, m \in {0, 1} :
         /\ Places(w) = i + p + s + d + m
         /\ s = 1 <=> \E u \in Staged, t \in Stages : Occupies(<<u, t>>, w)
         /\ d = 1 <=> \E k \in Decode : Occupies(<<k, "at">>, w)
         /\ m = 1 <=> \E k \in SIMD : Occupies(<<"simd", k>>, w)
  BY PlacesAre
<1>2. /\ i \in {0, 1} /\ (i = 1 <=> Occupies(<<"int", "in">>, w))
      /\ p \in {0, 1} /\ (p = 1 <=> Occupies(<<"pipe", "in">>, w))
      /\ b \in {0, 1} /\ (b = 1 <=> Occupies(Bar, w))
  BY HoldsIs, OccupiesBuffer DEF PlaceInv
<1> HIDE DEF i, p, b
<1>3. Placed(w)
  BY DEF PlaceInv
<1>4. CASE wf[w].state \notin {"running", "barrier"} /\ \A q \in Spot : ~ Occupies(q, w)
  <2>1. i = 0 /\ p = 0 /\ b = 0 /\ s = 0 /\ d = 0 /\ m = 0
    BY <1>1, <1>2, <1>4, SpotsAre
  <2> QED BY <1>1, <1>4, <2>1 DEF b
<1>5. ASSUME NEW q \in Spot, Alone(w, q), wf[w].state \in {"running", "barrier"}
      PROVE  Places(w) + b = 1
  <2>1. /\ (i = 1 <=> q = <<"int", "in">>) /\ (p = 1 <=> q = <<"pipe", "in">>) /\ (b = 1 <=> q = Bar)
        /\ s = 1 <=> \E u \in Staged, t \in Stages : q = <<u, t>>
        /\ d = 1 <=> \E k \in Decode : q = <<k, "at">>
        /\ m = 1 <=> \E k \in SIMD : q = <<"simd", k>>
    BY <1>1, <1>2, <1>5, SpotsAre DEF Alone
  <2>2. CASE \E u \in Staged, t \in Stages : q = <<u, t>>
    <3>1. s = 1 /\ i = 0 /\ p = 0 /\ b = 0 /\ d = 0 /\ m = 0
      BY <1>1, <1>2, <2>1, <2>2 DEF Staged, Decode, Bar
    <3> QED BY <1>1, <3>1
  <2>3. CASE \E k \in Decode : q = <<k, "at">>
    <3>1. d = 1 /\ i = 0 /\ p = 0 /\ b = 0 /\ s = 0 /\ m = 0
      BY <1>1, <1>2, <2>1, <2>3 DEF Staged, Decode, Bar
    <3> QED BY <1>1, <3>1
  <2>4. CASE \E k \in SIMD : q = <<"simd", k>>
    <3>1. m = 1 /\ i = 0 /\ p = 0 /\ b = 0 /\ s = 0 /\ d = 0
      BY <1>1, <1>2, <2>1, <2>4 DEF Staged, Decode, Bar
    <3> QED BY <1>1, <3>1
  <2>5. CASE q \in {<<"int", "in">>, <<"pipe", "in">>, Bar}
    <3>1. s = 0 /\ d = 0 /\ m = 0
      BY <1>1, <2>1, <2>5 DEF Staged, Decode, Bar
    <3>2. \/ i = 1 /\ p = 0 /\ b = 0
          \/ i = 0 /\ p = 1 /\ b = 0
          \/ i = 0 /\ p = 0 /\ b = 1
      BY <1>2, <2>1, <2>5 DEF Bar
    <3> QED BY <1>1, <3>1, <3>2
  <2> QED BY <2>2, <2>3, <2>4, <2>5, SpotKinds DEF Bar
<1> QED BY <1>3, <1>4, <1>5, SpotsAre DEF Placed, b

LEMMA BufferedNext ==
  ASSUME CUType, BufInv
  PROVE  NextIsAtPC
<1> SUFFICES ASSUME NEW w \in pool
             PROVE  /\ wf[w].next \in {0, wf[w].pc}
                    /\ \A i \in DOMAIN wf[w].buf : wf[w].buf[i] = wf[w].start + i - 1
                    /\ wf[w].state = "ready" /\ wf[w].buf # <<>>
                         => Line(wf[w].pc) \in wf[w].start .. (wf[w].start + Len(wf[w].buf))
  BY DEF NextIsAtPC
<1>1. w \in Wave /\ wf[w] \in WaveRecord /\ BufferOK(wf[w])
  BY DEF CUType, BufInv
<1>2. Line(wf[w].pc) \in Nat /\ wf[w].start \in Nat /\ Len(wf[w].buf) \in Nat
  BY SMTT(60), <1>1, LineType DEF WaveRecord
<1> QED BY <1>1, <1>2 DEF BufferOK

\* A wave at work is in exactly one place of the pipeline or in the barrier
\* buffer, and any other wave is in none, whatever flushes, barriers and
\* sampling do, as long as waves find room.
THEOREM OnePlaceHolds == Spec /\ [](VectorRoom /\ BarrierRoom) => []OnePlace
<1>1. CoreInv => OnePlace
  BY PlacedOnce DEF CoreInv
<1> QED BY <1>1, CoreInvariant, PTL

\* The instruction that waits to be issued is the one at the program counter,
\* and the decoder finds its line in the buffer or at its end.
THEOREM NextIsAtPCHolds == Spec /\ [](VectorRoom /\ BarrierRoom) => []NextIsAtPC
<1>1. CoreInv => NextIsAtPC
  BY BufferedNext DEF CoreInv
<1> QED BY <1>1, CoreInvariant, PTL

-----------------------------------------------------------------------------
(* Sequences of accesses.                                                  *)

LEMMA MoveHead ==
  ASSUME NEW S, NEW a \in Seq(S), NEW b \in Seq(S), b # <<>>
  PROVE  Append(a, Head(b)) \o Tail(b) = a \o b
<1> DEFINE l == Append(a, Head(b))
           t == Tail(b)
<1>1. /\ l \in Seq(S) /\ Len(l) = Len(a) + 1 /\ l[Len(a) + 1] = Head(b) /\ Head(b) = b[1]
      /\ \A i \in 1 .. Len(a) : l[i] = a[i]
      /\ t \in Seq(S) /\ Len(t) = Len(b) - 1 /\ \A i \in 1 .. Len(t) : t[i] = b[i + 1]
      /\ Len(a) \in Nat /\ Len(b) \in Nat
  OBVIOUS
<1> HIDE DEF l, t
<1>2. /\ l \o t \in Seq(S) /\ a \o b \in Seq(S) /\ Len(l \o t) = Len(a) + Len(b) /\ Len(a \o b) = Len(a) + Len(b)
      /\ \A i \in 1 .. Len(a) + Len(b) : (a \o b)[i] = IF i <= Len(a) THEN a[i] ELSE b[i - Len(a)]
      /\ \A i \in 1 .. Len(a) + Len(b) : (l \o t)[i] = IF i <= Len(a) + 1 THEN l[i] ELSE t[i - (Len(a) + 1)]
  <2>1. /\ l \o t \in Seq(S) /\ Len(l \o t) = Len(l) + Len(t)
        /\ \A i \in 1 .. Len(l) + Len(t) : (l \o t)[i] = IF i <= Len(l) THEN l[i] ELSE t[i - Len(l)]
    BY <1>1, ConcatProperties
  <2>2. Len(l) + Len(t) = Len(a) + Len(b)
    BY <1>1
  <2>3. /\ l \o t \in Seq(S) /\ Len(l \o t) = Len(a) + Len(b)
        /\ \A i \in 1 .. Len(a) + Len(b) : (l \o t)[i] = IF i <= Len(a) + 1 THEN l[i] ELSE t[i - (Len(a) + 1)]
    BY <1>1, <2>1, <2>2
  <2> QED BY <2>3, ConcatProperties
<1>3. ASSUME NEW i \in 1 .. Len(l \o t) PROVE (l \o t)[i] = (a \o b)[i]
  <2>1. i \in 1 .. Len(a) + Len(b)
    BY <1>2
  <2>2. CASE i <= Len(a)
    BY <1>1, <1>2, <2>1, <2>2
  <2>3. CASE i = Len(a) + 1
    BY <1>1, <1>2, <2>1, <2>3
  <2>4. CASE i > Len(a) + 1
    <3>1. i - (Len(a) + 1) \in 1 .. Len(t) /\ (i - (Len(a) + 1)) + 1 = i - Len(a)
      BY <1>1, <2>1, <2>4
    <3>2. (l \o t)[i] = t[i - (Len(a) + 1)] /\ (a \o b)[i] = b[i - Len(a)]
      BY <1>1, <1>2, <2>1, <2>4
    <3>3. t[i - (Len(a) + 1)] = b[(i - (Len(a) + 1)) + 1]
      BY <1>1, <3>1
    <3> QED BY <3>1, <3>2, <3>3
  <2> QED BY <1>1, <2>1, <2>2, <2>3, <2>4
<1>4. l \o t = a \o b
  BY <1>2, <1>3, SeqEqual
<1> QED BY <1>4 DEF l, t

LEMMA TailConcat ==
  ASSUME NEW S, NEW a \in Seq(S), NEW b \in Seq(S), a # <<>>
  PROVE  Tail(a \o b) = Tail(a) \o b /\ Head(a \o b) = Head(a) /\ a \o b # <<>>
<1> DEFINE c == a \o b
           t == Tail(a)
<1>1. /\ c \in Seq(S) /\ Len(c) = Len(a) + Len(b) /\ Len(a) \in Nat /\ Len(b) \in Nat /\ Len(a) >= 1
      /\ \A i \in 1 .. Len(a) + Len(b) : c[i] = IF i <= Len(a) THEN a[i] ELSE b[i - Len(a)]
      /\ t \in Seq(S) /\ Len(t) = Len(a) - 1 /\ \A i \in 1 .. Len(a) - 1 : t[i] = a[i + 1]
  OBVIOUS
<1>2. c # <<>> /\ Head(c) = Head(a)
  BY <1>1
<1> HIDE DEF c, t
<1>3. /\ Tail(c) \in Seq(S) /\ Len(Tail(c)) = Len(a) + Len(b) - 1
      /\ \A i \in 1 .. Len(a) + Len(b) - 1 : Tail(c)[i] = c[i + 1]
  BY <1>1, <1>2
<1>4. /\ t \o b \in Seq(S) /\ Len(t \o b) = Len(a) - 1 + Len(b)
      /\ \A i \in 1 .. Len(a) - 1 + Len(b) : (t \o b)[i] = IF i <= Len(a) - 1 THEN t[i] ELSE b[i - (Len(a) - 1)]
  <2>0. t \in Seq(S)
    BY <1>1
  <2>1. /\ t \o b \in Seq(S) /\ Len(t \o b) = Len(t) + Len(b)
        /\ \A i \in 1 .. Len(t) + Len(b) : (t \o b)[i] = IF i <= Len(t) THEN t[i] ELSE b[i - Len(t)]
    BY <2>0, ConcatProperties
  <2> QED BY <1>1, <2>1
<1>5. ASSUME NEW i \in 1 .. Len(Tail(c)) PROVE Tail(c)[i] = (t \o b)[i]
  <2>1. i \in 1 .. Len(a) + Len(b) - 1 /\ i + 1 \in 1 .. Len(a) + Len(b) /\ i \in 1 .. Len(a) - 1 + Len(b)
        /\ (i + 1) - Len(a) = i - (Len(a) - 1)
    BY <1>1, <1>3
  <2>2. Tail(c)[i] = IF i + 1 <= Len(a) THEN a[i + 1] ELSE b[(i + 1) - Len(a)]
    BY <1>1, <1>3, <2>1
  <2>3. CASE i + 1 <= Len(a)
    <3>1. i <= Len(a) - 1 /\ i \in 1 .. Len(a) - 1
      BY <1>1, <2>1, <2>3
    <3> QED BY <1>1, <1>4, <2>1, <2>2, <2>3, <3>1
  <2>4. CASE ~ (i + 1 <= Len(a))
    <3>1. ~ (i <= Len(a) - 1)
      BY <1>1, <2>1, <2>4
    <3> QED BY <1>4, <2>1, <2>2, <2>4, <3>1
  <2> QED BY <2>3, <2>4
<1>6. Tail(c) = t \o b
  <2>1. Len(Tail(c)) = Len(t \o b)
    BY <1>1, <1>3, <1>4
  <2> QED BY <1>3, <1>4, <1>5, <2>1, SeqEqual
<1> QED BY <1>2, <1>6 DEF c, t

LEMMA AppendConcat ==
  ASSUME NEW S, NEW a \in Seq(S), NEW b \in Seq(S), NEW x \in S
  PROVE  a \o Append(b, x) = Append(a \o b, x)
<1>1. Append(b, x) = b \o <<x>> /\ Append(a \o b, x) = (a \o b) \o <<x>>
  BY AppendIsConcat, ConcatProperties
<1>2. <<x>> \in Seq(S)
  OBVIOUS
<1> QED BY <1>1, <1>2, ConcatAssociative

LEMMA InConcat ==
  ASSUME NEW S, NEW a \in Seq(S), NEW b \in Seq(S), NEW x
  PROVE  In(a \o b, x) <=> In(a, x) \/ In(b, x)
<1> DEFINE c == a \o b
<1>1. /\ Len(a) \in Nat /\ Len(b) \in Nat /\ DOMAIN a = 1 .. Len(a) /\ DOMAIN b = 1 .. Len(b)
      /\ DOMAIN c = 1 .. Len(a) + Len(b)
      /\ \A i \in 1 .. Len(a) + Len(b) : c[i] = IF i <= Len(a) THEN a[i] ELSE b[i - Len(a)]
  OBVIOUS
<1> HIDE DEF c
<1>2. In(a, x) => In(c, x)
  BY <1>1 DEF In
<1>3. In(b, x) => In(c, x)
  <2> SUFFICES ASSUME NEW i \in DOMAIN b, b[i] = x PROVE In(c, x)
    BY DEF In
  <2>1. Len(a) + i \in DOMAIN c /\ c[Len(a) + i] = b[i]
    BY <1>1
  <2> QED BY <2>1 DEF In
<1>4. In(c, x) => In(a, x) \/ In(b, x)
  <2> SUFFICES ASSUME NEW i \in DOMAIN c, c[i] = x PROVE In(a, x) \/ In(b, x)
    BY DEF In
  <2>1. CASE i <= Len(a)
    BY <1>1, <2>1 DEF In
  <2>2. CASE ~ (i <= Len(a))
    <3>1. i - Len(a) \in DOMAIN b /\ b[i - Len(a)] = x
      BY <1>1, <2>2
    <3> QED BY <3>1 DEF In
  <2> QED BY <2>1, <2>2
<1> QED BY <1>2, <1>3, <1>4 DEF c

\* The identifiers of accesses.
Ids(seq) == [i \in DOMAIN seq |-> seq[i].id]

LEMMA IdsIs ==
  ASSUME NEW s \in Seq(Access)
  PROVE  /\ Ids(s) \in Seq(Id) /\ Len(Ids(s)) = Len(s)
         /\ \A i \in 1 .. Len(s) : Ids(s)[i] = s[i].id
<1>1. DOMAIN s = 1 .. Len(s) /\ Len(s) \in Nat /\ \A i \in 1 .. Len(s) : s[i].id \in Id
  <2>1. DOMAIN s = 1 .. Len(s) /\ Len(s) \in Nat /\ \A i \in 1 .. Len(s) : s[i] \in Access
    OBVIOUS
  <2> QED BY <2>1 DEF Access
<1>2. Ids(s) = [i \in 1 .. Len(s) |-> s[i].id]
  BY <1>1 DEF Ids
<1>3. Ids(s) \in [1 .. Len(s) -> Id]
  BY <1>1, <1>2
<1>4. Ids(s) \in Seq(Id)
  BY <1>1, <1>3
<1> QED BY <1>1, <1>2, <1>4

LEMMA IdsConcat ==
  ASSUME NEW s \in Seq(Access), NEW t \in Seq(Access)
  PROVE  Ids(s \o t) = Ids(s) \o Ids(t)
<1> DEFINE c == s \o t
<1>1. /\ c \in Seq(Access) /\ Len(c) = Len(s) + Len(t) /\ Len(s) \in Nat /\ Len(t) \in Nat
      /\ \A i \in 1 .. Len(s) + Len(t) : c[i] = IF i <= Len(s) THEN s[i] ELSE t[i - Len(s)]
  OBVIOUS
<1> HIDE DEF c
<1>2. /\ Ids(c) \in Seq(Id) /\ Len(Ids(c)) = Len(s) + Len(t) /\ \A i \in 1 .. Len(s) + Len(t) : Ids(c)[i] = c[i].id
      /\ Ids(s) \in Seq(Id) /\ Len(Ids(s)) = Len(s) /\ \A i \in 1 .. Len(s) : Ids(s)[i] = s[i].id
      /\ Ids(t) \in Seq(Id) /\ Len(Ids(t)) = Len(t) /\ \A i \in 1 .. Len(t) : Ids(t)[i] = t[i].id
  BY <1>1, IdsIs
<1>3. /\ Ids(s) \o Ids(t) \in Seq(Id) /\ Len(Ids(s) \o Ids(t)) = Len(s) + Len(t)
      /\ \A i \in 1 .. Len(s) + Len(t) :
           (Ids(s) \o Ids(t))[i] = IF i <= Len(s) THEN Ids(s)[i] ELSE Ids(t)[i - Len(s)]
  <2> DEFINE p == Ids(s)
             q == Ids(t)
  <2>1. p \in Seq(Id) /\ q \in Seq(Id) /\ Len(p) = Len(s) /\ Len(q) = Len(t)
    BY <1>2
  <2> HIDE DEF p, q
  <2>2. /\ p \o q \in Seq(Id) /\ Len(p \o q) = Len(s) + Len(t)
        /\ \A i \in 1 .. Len(s) + Len(t) : (p \o q)[i] = IF i <= Len(s) THEN p[i] ELSE q[i - Len(s)]
    BY <2>1, <1>1
  <2> QED BY <2>2 DEF p, q
<1>4. ASSUME NEW i \in 1 .. Len(Ids(c)) PROVE Ids(c)[i] = (Ids(s) \o Ids(t))[i]
  <2>1. i \in 1 .. Len(s) + Len(t)
    BY <1>2
  <2>2. CASE i <= Len(s)
    BY <1>1, <1>2, <1>3, <2>1, <2>2
  <2>3. CASE ~ (i <= Len(s))
    <3>1. i - Len(s) \in 1 .. Len(t)
      BY <1>1, <2>1, <2>3
    <3> QED BY <1>1, <1>2, <1>3, <2>1, <2>3, <3>1
  <2> QED BY <2>2, <2>3
<1>5. Ids(c) = Ids(s) \o Ids(t)
  <2>1. Len(Ids(c)) = Len(Ids(s) \o Ids(t))
    BY <1>2, <1>3
  <2> QED BY <1>2, <1>3, <1>4, <2>1, SeqEqual
<1> QED BY <1>5 DEF c

LEMMA IdsEmpty == Ids(<<>>) = <<>>
  BY DEF Ids

LEMMA IdsTail ==
  ASSUME NEW s \in Seq(Access), s # <<>>
  PROVE  Ids(Tail(s)) = Tail(Ids(s)) /\ Head(Ids(s)) = Head(s).id /\ Ids(s) # <<>>
<1>1. /\ Tail(s) \in Seq(Access) /\ Len(Tail(s)) = Len(s) - 1 /\ Len(s) \in Nat /\ Len(s) >= 1
      /\ \A i \in 1 .. Len(s) - 1 : Tail(s)[i] = s[i + 1]
      /\ Head(s) = s[1]
  OBVIOUS
<1>2. /\ Ids(s) \in Seq(Id) /\ Len(Ids(s)) = Len(s) /\ \A i \in 1 .. Len(s) : Ids(s)[i] = s[i].id
      /\ Ids(Tail(s)) \in Seq(Id) /\ Len(Ids(Tail(s))) = Len(s) - 1
      /\ \A i \in 1 .. Len(s) - 1 : Ids(Tail(s))[i] = Tail(s)[i].id
  BY <1>1, IdsIs
<1> DEFINE d == Ids(s)
<1>3. d \in Seq(Id) /\ Len(d) = Len(s)
  BY <1>2
<1> HIDE DEF d
<1>4. /\ d # <<>> /\ Head(d) = d[1] /\ Tail(d) \in Seq(Id) /\ Len(Tail(d)) = Len(s) - 1
      /\ \A i \in 1 .. Len(s) - 1 : Tail(d)[i] = d[i + 1]
  BY <1>1, <1>3
<1>5. ASSUME NEW i \in 1 .. Len(Ids(Tail(s))) PROVE Ids(Tail(s))[i] = Tail(d)[i]
  <2>1. i \in 1 .. Len(s) - 1 /\ i + 1 \in 1 .. Len(s)
    BY <1>1, <1>2
  <2> QED BY <1>1, <1>2, <1>4, <2>1 DEF d
<1>6. Ids(Tail(s)) = Tail(d)
  <2>1. Len(Ids(Tail(s))) = Len(Tail(d))
    BY <1>2, <1>4
  <2> QED BY <1>2, <1>4, <1>5, <2>1, SeqEqual
<1>7. Head(d) = Head(s).id
  <2>1. 1 \in 1 .. Len(s)
    BY <1>1
  <2> QED BY <1>1, <1>2, <1>4, <2>1 DEF d
<1> QED BY <1>4, <1>6, <1>7 DEF d

-----------------------------------------------------------------------------
(* The protocol of a flush and a restart.                                  *)

\* The flags of the unit in each phase of the command processor.
CtlInv ==
  \/ /\ cp.phase = "run" /\ cp.msg = None /\ cp.answer = None
     /\ ~ ctl.flushing /\ (ctl.sending <=> ctl.paused)
  \/ /\ cp.phase = "flush" /\ cp.msg = "flush" /\ cp.answer = None
     /\ ~ ctl.flushing /\ (ctl.sending <=> ctl.paused)
  \/ /\ cp.phase = "flush" /\ cp.msg = None /\ cp.answer = None
     /\ ctl.flushing /\ (ctl.sending => ctl.paused)
  \/ /\ cp.phase = "flush" /\ cp.msg = None /\ cp.answer = "flushed"
     /\ ~ ctl.flushing /\ ctl.paused /\ ~ ctl.sending
  \/ /\ cp.phase = "restart" /\ cp.msg = "restart" /\ cp.answer = None
     /\ ~ ctl.flushing /\ ctl.paused /\ ~ ctl.sending
  \/ /\ cp.phase = "restart" /\ cp.msg = None /\ cp.answer = "restarted"
     /\ ~ ctl.flushing /\ (ctl.sending <=> ctl.paused)

\* Only a unit that is paused has accesses set aside.
ShadowInv == ~ ctl.paused => \A c \in Channel : shadow[c] = <<>>

SameFlags ==
  /\ cp' = cp /\ ctl'.paused = ctl.paused /\ ctl'.flushing = ctl.flushing
  /\ ctl'.sending = ctl.sending

ProtocolStep ==
  ProcessInputFromCP \/ DoFlush \/ CheckShadowBuffers \/ SendFlush \/ FlushBelow \/ Restarted

LEMMA FlagsStay ==
  ASSUME CUType, [Next]_vars
  PROVE  ProtocolStep \/ SameFlags
<1>1. ctl \in CtlType
  BY DEF CUType, CtlType
<1>2. CASE SchedulerStep \/ UnitStep \/ MemStep
  BY <1>2 DEF SchedulerStep, EvaluateInternalInst, DecodeNextInst, DoFetch, Issue, UnitStep,
         DecodeScalar, DecodeLDS, DecodeVector, DecodeVMem, RunReadStage, RunExecStage, RunWriteStage,
         BranchWriteStage, SIMDExec, ExecuteSMEMLoad, ScalarSendRequest, ExecuteFlat,
         InsertTransactionToPipeline, VectorSendRequest, MemStep, ProcessInputFromMem, MemReply, SameFlags
<1>3. CASE (\E c \in Channel : SendShadowBufferAccess(c)) \/ (\E g \in Group : HandleMapWGReq(g))
           \/ (\E w \in Wave : SampledWfCompleted(w)) \/ Report \/ UNCHANGED vars
  BY <1>3 DEF SendShadowBufferAccess, HandleMapWGReq, SampledWfCompleted, Report, vars, SameFlags
<1>4. CASE EnableSampled \/ StopTimeModel
  <2>1. \/ ctl' = [ctl EXCEPT !.enabled = TRUE]
        \/ \E b : ctl' = [ctl EXCEPT !.stopNew = TRUE, !.allPaused = b]
    BY <1>4 DEF EnableSampled, StopTimeModel
  <2>2. UNCHANGED cp
    BY <1>4 DEF EnableSampled, StopTimeModel
  <2> QED BY <1>1, <2>1, <2>2 DEF SameFlags, CtlType
<1>5. CASE \E w \in Wave : HandleWfCompletionEvent(w)
  BY <1>1, <1>5 DEF HandleWfCompletionEvent, SameFlags, CtlType
<1> QED BY <1>2, <1>3, <1>4, <1>5 DEF Next, FlushStep, SampleStep, CompletionStep, ProtocolStep

LEMMA CtlStep ==
  ASSUME CUType, CtlInv, [Next]_vars
  PROVE  CtlInv'
<1>1. ctl \in CtlType /\ cp \in CpType
  BY DEF CUType, CtlType, CpType
<1>0. None \notin {"flush", "restart", "flushed", "restarted"}
  BY NoneAssumption
<1>2. CASE SameFlags
  BY <1>2 DEF SameFlags, CtlInv
<1>3. CASE ProcessInputFromCP
  BY <1>0, <1>1, <1>3 DEF ProcessInputFromCP, CtlInv, CtlType, CpType
<1>4. CASE DoFlush
  BY <1>0, <1>1, <1>4 DEF DoFlush, CtlInv, CtlType, CpType
<1>5. CASE CheckShadowBuffers
  BY <1>0, <1>1, <1>5 DEF CheckShadowBuffers, CtlInv, CtlType, CpType
<1>6. CASE SendFlush
  BY <1>0, <1>1, <1>6 DEF SendFlush, CtlInv, CtlType, CpType
<1>7. CASE FlushBelow
  BY <1>0, <1>1, <1>7 DEF FlushBelow, CtlInv, CtlType, CpType
<1>8. CASE Restarted
  BY <1>0, <1>1, <1>8 DEF Restarted, CtlInv, CtlType, CpType
<1> QED BY <1>2, <1>3, <1>4, <1>5, <1>6, <1>7, <1>8, FlagsStay DEF ProtocolStep

\* The accesses set aside change in a flush and when they are sent again.
LEMMA ShadowStays ==
  ASSUME [Next]_vars, ~ DoFlush, \A c \in Channel : ~ SendShadowBufferAccess(c)
  PROVE  UNCHANGED shadow
<1>1. CASE SchedulerStep \/ UnitStep \/ MemStep
  BY <1>1 DEF SchedulerStep, EvaluateInternalInst, DecodeNextInst, DoFetch, Issue, UnitStep,
         DecodeScalar, DecodeLDS, DecodeVector, DecodeVMem, RunReadStage, RunExecStage, RunWriteStage,
         BranchWriteStage, SIMDExec, ExecuteSMEMLoad, ScalarSendRequest, ExecuteFlat,
         InsertTransactionToPipeline, VectorSendRequest, MemStep, ProcessInputFromMem, MemReply, memVars
<1>2. CASE FlushStep \/ SendFlush \/ EnableSampled \/ SampleStep \/ CompletionStep \/ UNCHANGED vars
  BY <1>2 DEF FlushStep, ProcessInputFromCP, CheckShadowBuffers, FlushBelow, Restarted, SendFlush,
         EnableSampled, SampleStep, StopTimeModel, SampledWfCompleted, CompletionStep, Report,
         HandleWfCompletionEvent, memVars, vars
<1>3. CASE \E g \in Group : HandleMapWGReq(g)
  BY <1>3 DEF HandleMapWGReq, memVars
<1> QED BY <1>1, <1>2, <1>3 DEF Next

LEMMA ShadowStep ==
  ASSUME CUType, CtlInv, ShadowInv, [Next]_vars
  PROVE  ShadowInv'
<1>1. ctl \in CtlType /\ cp \in CpType
  BY DEF CUType, CtlType, CpType
<1>2. CASE DoFlush
  <2>1. ctl.handling => UNCHANGED shadow /\ ctl'.paused = ctl.paused
    BY <1>1, <1>2 DEF DoFlush, CtlType
  <2>2. ~ ctl.handling => ctl'.paused
    BY <1>1, <1>2 DEF DoFlush, CtlType
  <2> QED BY <2>1, <2>2 DEF ShadowInv
<1>3. CASE \E c \in Channel : SendShadowBufferAccess(c)
  <2>1. ctl.sending /\ UNCHANGED <<ctl, cp>>
    BY <1>3 DEF SendShadowBufferAccess
  <2>2. ctl.paused
    BY <2>1, <1>1 DEF CtlInv, CtlType
  <2> QED BY <2>1, <2>2 DEF ShadowInv
<1>4. CASE ~ DoFlush /\ \A c \in Channel : ~ SendShadowBufferAccess(c)
  <2>1. UNCHANGED shadow
    BY <1>4, ShadowStays
  <2>2. CASE SameFlags
    BY <2>1, <2>2 DEF SameFlags, ShadowInv
  <2>3. CASE ProtocolStep
    <3>1. CASE CheckShadowBuffers
      BY <2>1, <3>1 DEF CheckShadowBuffers, AllSent, ShadowInv
    <3>2. CASE ProcessInputFromCP
      <4>1. ctl'.paused = ctl.paused
        BY <1>1, <3>2 DEF ProcessInputFromCP, CtlType
      <4> QED BY <2>1, <4>1 DEF ShadowInv
    <3>3. CASE SendFlush \/ FlushBelow \/ Restarted
      BY <2>1, <3>3 DEF SendFlush, FlushBelow, Restarted, ShadowInv
    <3> QED BY <1>4, <2>3, <3>1, <3>2, <3>3 DEF ProtocolStep
  <2> QED BY <2>2, <2>3, FlagsStay
<1> QED BY <1>2, <1>3, <1>4

-----------------------------------------------------------------------------
(* Counting the accesses under way.                                        *)

Lasts(s, w) == {i \in DOMAIN s : s[i].wave = w /\ s[i].last}

\* The accesses of the wave are of its first f instructions, and from each on
\* the last ones of its own instruction and of all later ones are there.
Ordered(s, w, f) ==
  \A i \in DOMAIN s :
    s[i].wave = w =>
      /\ s[i].at <= f
      /\ \A k \in s[i].at .. f : \E j \in i .. Len(s) : s[j].wave = w /\ s[j].last /\ s[j].at = k

\* The same accesses, perhaps under new identifiers.
Same(s, t) ==
  /\ Len(s) = Len(t)
  /\ \A i \in DOMAIN t : s[i].wave = t[i].wave /\ s[i].at = t[i].at /\ s[i].last = t[i].last

\* The accesses that an instruction of the wave makes.
Made(t, w, at) ==
  \A i \in DOMAIN t : t[i].wave = w /\ t[i].at = at /\ (t[i].last <=> i = Len(t))

LEMMA LastsFinite ==
  ASSUME NEW s \in Seq(Access), NEW w
  PROVE  IsFiniteSet(Lasts(s, w)) /\ Cardinality(Lasts(s, w)) \in Nat
<1>1. Lasts(s, w) \in SUBSET (1 .. Len(s)) /\ Len(s) \in Int
  BY DEF Lasts
<1>2. IsFiniteSet(1 .. Len(s))
  BY <1>1, FS_Interval
<1>3. IsFiniteSet(Lasts(s, w))
  BY <1>1, <1>2, FS_Subset
<1> QED BY <1>3, FS_CardinalityType

LEMMA SameLasts ==
  ASSUME NEW s \in Seq(Access), NEW t \in Seq(Access), Same(s, t)
  PROVE  /\ \A w : Lasts(s, w) = Lasts(t, w)
         /\ \A w, f : Ordered(t, w, f) => Ordered(s, w, f)
<1>1. DOMAIN s = DOMAIN t /\ DOMAIN t = 1 .. Len(t) /\ Len(t) \in Nat /\ Len(s) = Len(t)
  BY DEF Same
<1>2. \A w : Lasts(s, w) = Lasts(t, w)
  BY <1>1 DEF Same, Lasts
<1>3. ASSUME NEW w, NEW f, Ordered(t, w, f) PROVE Ordered(s, w, f)
  <2> SUFFICES ASSUME NEW i \in DOMAIN s, s[i].wave = w
               PROVE  /\ s[i].at <= f
                      /\ \A k \in s[i].at .. f : \E j \in i .. Len(s) : s[j].wave = w /\ s[j].last /\ s[j].at = k
    BY DEF Ordered
  <2>1. t[i].wave = w /\ t[i].at = s[i].at
    BY <1>1 DEF Same
  <2>2. s[i].at <= f
    BY <1>1, <1>3, <2>1 DEF Ordered
  <2>3. ASSUME NEW k \in s[i].at .. f
        PROVE  \E j \in i .. Len(s) : s[j].wave = w /\ s[j].last /\ s[j].at = k
    <3>1. PICK j \in i .. Len(t) : t[j].wave = w /\ t[j].last /\ t[j].at = k
      BY <1>1, <1>3, <2>1 DEF Ordered
    <3>2. j \in DOMAIN t
      BY <1>1
    <3> QED BY <1>1, <3>1, <3>2 DEF Same
  <2> QED BY <2>2, <2>3
<1> QED BY <1>2, <1>3

\* The accesses of an instruction add one to the count.
LEMMA LastsMade ==
  ASSUME CUType, NEW s \in Seq(Access), NEW t \in Seq(Access), NEW v \in Wave, NEW at \in Nat,
         t # <<>>, Made(t, v, at)
  PROVE  \A w : Cardinality(Lasts(s \o t, w)) = Cardinality(Lasts(s, w)) + IF w = v THEN 1 ELSE 0
<1> DEFINE c == s \o t
           n == Len(s) + Len(t)
<1>1. /\ c \in Seq(Access) /\ Len(c) = n /\ DOMAIN c = 1 .. n /\ DOMAIN s = 1 .. Len(s) /\ DOMAIN t = 1 .. Len(t)
      /\ Len(s) \in Nat /\ Len(t) \in Nat /\ Len(t) >= 1 /\ n \in Nat
      /\ \A i \in 1 .. n : c[i] = IF i <= Len(s) THEN s[i] ELSE t[i - Len(s)]
  OBVIOUS
<1> HIDE DEF c
<1>2. \A i \in 1 .. Len(s) : i \in 1 .. n /\ c[i] = s[i]
  BY <1>1
<1>3. ASSUME NEW i \in 1 .. n, i > Len(s) PROVE c[i].wave = v /\ (c[i].last <=> i = n)
  <2>1. i - Len(s) \in DOMAIN t /\ c[i] = t[i - Len(s)] /\ (i - Len(s) = Len(t) <=> i = n)
    BY <1>1, <1>3
  <2> QED BY <2>1 DEF Made
<1>4. n \in 1 .. n /\ n > Len(s)
  BY <1>1
<1> HIDE DEF n
<1>5. ASSUME NEW w PROVE Cardinality(Lasts(c, w)) = Cardinality(Lasts(s, w)) + IF w = v THEN 1 ELSE 0
  <2>1. \A i \in 1 .. n : i \in Lasts(c, w) <=> i \in Lasts(s, w) \/ (i = n /\ w = v)
    <3> SUFFICES ASSUME NEW i \in 1 .. n PROVE i \in Lasts(c, w) <=> i \in Lasts(s, w) \/ (i = n /\ w = v)
      OBVIOUS
    <3>1. CASE i <= Len(s)
      <4>1. i \in 1 .. Len(s) /\ i # n
        BY <1>1, <1>4, <3>1
      <4> QED BY <1>1, <1>2, <4>1 DEF Lasts
    <3>2. CASE ~ (i <= Len(s))
      <4>1. i > Len(s) /\ i \notin DOMAIN s
        BY <1>1, <3>2
      <4> QED BY <1>1, <1>3, <4>1 DEF Lasts
    <3> QED BY <3>1, <3>2
  <2>2. Lasts(c, w) \subseteq 1 .. n /\ Lasts(s, w) \subseteq 1 .. n /\ n \notin Lasts(s, w)
    BY <1>1, <1>2, <1>4 DEF Lasts
  <2>3. IsFiniteSet(Lasts(s, w))
    BY LastsFinite
  <2>4. CASE w = v
    <3>1. Lasts(c, w) = Lasts(s, w) \cup {n}
      BY <1>4, <2>1, <2>2, <2>4
    <3> QED BY <2>2, <2>3, <2>4, <3>1, FS_AddElement
  <2>5. CASE w # v
    <3>1. Lasts(c, w) = Lasts(s, w)
      BY <2>1, <2>2, <2>5
    <3>2. Cardinality(Lasts(s, w)) \in Nat
      BY LastsFinite
    <3> QED BY <2>5, <3>1, <3>2
  <2> QED BY <2>4, <2>5
<1> QED BY <1>5 DEF c

\* They are those of the newest instruction.
LEMMA OrderedMade ==
  ASSUME NEW s \in Seq(Access), NEW t \in Seq(Access), NEW v \in Wave, NEW f \in Nat,
         t # <<>>, Made(t, v, f + 1)
  PROVE  /\ Ordered(s, v, f) => Ordered(s \o t, v, f + 1)
         /\ \A w, g : w # v /\ Ordered(s, w, g) => Ordered(s \o t, w, g)
<1> DEFINE at == f + 1
<1> DEFINE c == s \o t
           n == Len(s) + Len(t)
<1>1. /\ c \in Seq(Access) /\ Len(c) = n /\ DOMAIN c = 1 .. n /\ DOMAIN s = 1 .. Len(s) /\ DOMAIN t = 1 .. Len(t)
      /\ Len(s) \in Nat /\ Len(t) \in Nat /\ Len(t) >= 1 /\ n \in Nat
      /\ \A i \in 1 .. n : c[i] = IF i <= Len(s) THEN s[i] ELSE t[i - Len(s)]
  OBVIOUS
<1> HIDE DEF c
<1>2. \A i \in 1 .. Len(s) : i \in 1 .. n /\ c[i] = s[i]
  BY <1>1
<1>3. ASSUME NEW i \in 1 .. n, i > Len(s) PROVE c[i].wave = v /\ c[i].at = at /\ (c[i].last <=> i = n)
  <2>1. i - Len(s) \in DOMAIN t /\ c[i] = t[i - Len(s)] /\ (i - Len(s) = Len(t) <=> i = n)
    BY <1>1, <1>3
  <2> QED BY <2>1 DEF Made
<1>4. n \in 1 .. n /\ n > Len(s)
  BY <1>1
<1> HIDE DEF n
<1>5. \A i \in 1 .. Len(s) : \A j \in i .. Len(s) : j \in i .. n /\ c[j] = s[j]
  BY <1>1, <1>2, <1>4
<1>6. ASSUME Ordered(s, v, f), NEW i \in 1 .. n, c[i].wave = v
      PROVE  /\ c[i].at <= at
             /\ \A k \in c[i].at .. at : \E j \in i .. n : c[j].wave = v /\ c[j].last /\ c[j].at = k
  <2>1. n \in i .. n /\ c[n].wave = v /\ c[n].last /\ c[n].at = at
    BY <1>1, <1>3, <1>4
  <2>2. CASE i <= Len(s)
    <3>1. i \in 1 .. Len(s) /\ i \in DOMAIN s /\ c[i] = s[i] /\ s[i].at \in Nat
      <4>1. i \in 1 .. Len(s) /\ i \in DOMAIN s /\ c[i] = s[i]
        BY <1>1, <1>2, <2>2
      <4>2. s[i] \in Access
        BY <4>1
      <4> QED BY <4>1, <4>2 DEF Access
    <3>2. /\ s[i].at <= f
          /\ \A k \in s[i].at .. f : \E j \in i .. Len(s) : s[j].wave = v /\ s[j].last /\ s[j].at = k
      BY <1>6, <3>1 DEF Ordered
    <3>3. \A k \in s[i].at .. f : \E j \in i .. n : c[j].wave = v /\ c[j].last /\ c[j].at = k
      <4> SUFFICES ASSUME NEW k \in s[i].at .. f
                   PROVE  \E j \in i .. n : c[j].wave = v /\ c[j].last /\ c[j].at = k
        OBVIOUS
      <4>1. PICK j \in i .. Len(s) : s[j].wave = v /\ s[j].last /\ s[j].at = k
        BY <3>2
      <4> QED BY <1>5, <3>1, <4>1
    <3>4. \A k \in c[i].at .. at : k \in s[i].at .. f \/ k = at
      BY <3>1
    <3> QED BY <2>1, <3>1, <3>2, <3>3, <3>4
  <2>3. CASE ~ (i <= Len(s))
    <3>1. c[i].at = at
      BY <1>1, <1>3, <2>3
    <3>2. \A k \in c[i].at .. at : k = at
      BY <3>1
    <3> QED BY <2>1, <3>1, <3>2
  <2> QED BY <2>2, <2>3
<1>7. ASSUME NEW w, NEW g, w # v, Ordered(s, w, g), NEW i \in 1 .. n, c[i].wave = w
      PROVE  /\ c[i].at <= g
             /\ \A k \in c[i].at .. g : \E j \in i .. n : c[j].wave = w /\ c[j].last /\ c[j].at = k
  <2>1. i \in 1 .. Len(s) /\ i \in DOMAIN s
    BY <1>1, <1>3, <1>7
  <2>2. c[i] = s[i]
    BY <1>2, <2>1
  <2>3. /\ s[i].at <= g
        /\ \A k \in s[i].at .. g : \E j \in i .. Len(s) : s[j].wave = w /\ s[j].last /\ s[j].at = k
    BY <1>7, <2>1, <2>2 DEF Ordered
  <2>4. \A k \in s[i].at .. g : \E j \in i .. n : c[j].wave = w /\ c[j].last /\ c[j].at = k
    <3> SUFFICES ASSUME NEW k \in s[i].at .. g
                 PROVE  \E j \in i .. n : c[j].wave = w /\ c[j].last /\ c[j].at = k
      OBVIOUS
    <3>1. PICK j \in i .. Len(s) : s[j].wave = w /\ s[j].last /\ s[j].at = k
      BY <2>3
    <3> QED BY <1>5, <2>1, <3>1
  <2> QED BY <2>2, <2>3, <2>4
<1> HIDE DEF at
<1>8. ASSUME Ordered(s, v, f) PROVE Ordered(c, v, at)
  <2>1. DOMAIN c = 1 .. n /\ Len(c) = n
    BY <1>1
  <2> QED BY <1>6, <1>8, <2>1, ZenonT(60) DEF Ordered
<1>9. ASSUME NEW w, NEW g, w # v, Ordered(s, w, g) PROVE Ordered(c, w, g)
  <2>1. DOMAIN c = 1 .. n /\ Len(c) = n
    BY <1>1
  <2>2. ASSUME NEW i \in 1 .. n, c[i].wave = w
        PROVE  /\ c[i].at <= g
               /\ \A k \in c[i].at .. g : \E j \in i .. n : c[j].wave = w /\ c[j].last /\ c[j].at = k
    BY <1>7, <1>9, <2>2
  <2> QED BY <2>1, <2>2, ZenonT(60) DEF Ordered
<1> QED BY <1>8, <1>9 DEF c, at

\* The oldest access returns.
LEMMA LastsTail ==
  ASSUME NEW s \in Seq(Access), s # <<>>
  PROVE  /\ \A w : Cardinality(Lasts(s, w))
                     = Cardinality(Lasts(Tail(s), w)) + IF Head(s).wave = w /\ Head(s).last THEN 1 ELSE 0
         /\ \A w, f : Ordered(s, w, f) => Ordered(Tail(s), w, f)
<1> DEFINE t == Tail(s)
<1>1. /\ t \in Seq(Access) /\ DOMAIN t = 1 .. Len(s) - 1 /\ DOMAIN s = 1 .. Len(s) /\ Len(t) = Len(s) - 1
      /\ Head(s) = s[1] /\ Len(s) \in Nat /\ Len(s) >= 1
      /\ \A i \in 1 .. Len(s) - 1 : t[i] = s[i + 1]
  OBVIOUS
<1> HIDE DEF t
<1>2. ASSUME NEW w
      PROVE  Cardinality(Lasts(s, w)) = Cardinality(Lasts(t, w)) + IF Head(s).wave = w /\ Head(s).last THEN 1 ELSE 0
  <2> DEFINE S == Lasts(s, w) \ {1}
             f == [i \in Lasts(t, w) |-> i + 1]
  <2>1. \A i \in Lasts(t, w) : i \in Nat /\ i + 1 \in S
    BY <1>1 DEF Lasts
  <2>2. \A k \in S : k - 1 \in Lasts(t, w) /\ (k - 1) + 1 = k
    <3> SUFFICES ASSUME NEW k \in S PROVE k - 1 \in Lasts(t, w) /\ (k - 1) + 1 = k
      OBVIOUS
    <3>1. k \in 1 .. Len(s) /\ k # 1 /\ s[k].wave = w /\ s[k].last
      BY <1>1 DEF Lasts
    <3>2. k - 1 \in 1 .. Len(s) - 1 /\ (k - 1) + 1 = k
      BY <1>1, <3>1
    <3>3. t[k - 1] = s[k]
      BY <1>1, <3>2
    <3> QED BY <1>1, <3>1, <3>2, <3>3 DEF Lasts
  <2> HIDE DEF S
  <2>3. f \in Bijection(Lasts(t, w), S)
    <3>1. f \in [Lasts(t, w) -> S]
      BY <2>1
    <3>2. \A a, b \in Lasts(t, w) : f[a] = f[b] => a = b
      BY <2>1
    <3>3. \A k \in S : \E i \in Lasts(t, w) : f[i] = k
      BY <2>2
    <3> QED BY <3>1, <3>2, <3>3, Fun_IsBij
  <2>4. IsFiniteSet(Lasts(t, w)) /\ IsFiniteSet(Lasts(s, w)) /\ Cardinality(Lasts(s, w)) \in Nat
    BY <1>1, LastsFinite
  <2>5. Cardinality(S) = Cardinality(Lasts(t, w))
    BY <2>3, <2>4, FS_Bijection DEF ExistsBijection
  <2>6. Cardinality(S) = IF 1 \in Lasts(s, w) THEN Cardinality(Lasts(s, w)) - 1 ELSE Cardinality(Lasts(s, w))
    BY <2>4, FS_RemoveElement DEF S
  <2>7. 1 \in Lasts(s, w) <=> Head(s).wave = w /\ Head(s).last
    BY <1>1 DEF Lasts
  <2> QED BY <2>4, <2>5, <2>6, <2>7
<1>3. ASSUME NEW w, NEW f, Ordered(s, w, f) PROVE Ordered(t, w, f)
  <2> SUFFICES ASSUME NEW i \in 1 .. Len(s) - 1, t[i].wave = w
               PROVE  /\ t[i].at <= f
                      /\ \A k \in t[i].at .. f : \E j \in i .. Len(t) : t[j].wave = w /\ t[j].last /\ t[j].at = k
    BY <1>1 DEF Ordered
  <2>1. i + 1 \in DOMAIN s /\ t[i] = s[i + 1]
    BY <1>1
  <2>2. ASSUME NEW k \in t[i].at .. f
        PROVE  \E j \in i .. Len(t) : t[j].wave = w /\ t[j].last /\ t[j].at = k
    <3>1. PICK j \in i + 1 .. Len(s) : s[j].wave = w /\ s[j].last /\ s[j].at = k
      BY <1>3, <2>1 DEF Ordered
    <3>2. j - 1 \in i .. Len(t) /\ j - 1 \in 1 .. Len(s) - 1 /\ (j - 1) + 1 = j
      BY <1>1, <3>1
    <3>3. t[j - 1] = s[j]
      BY <1>1, <3>2
    <3> QED BY <3>1, <3>2, <3>3
  <2>3. t[i].at <= f
    BY <1>3, <2>1 DEF Ordered
  <2> QED BY <2>2, <2>3
<1> QED BY <1>2, <1>3 DEF t

-----------------------------------------------------------------------------
(* How a step changes the accesses under way and the counters.             *)

SameCounts(w) == wf'[w].vm = wf[w].vm /\ wf'[w].lgkm = wf[w].lgkm /\ wf'[w].flats = wf[w].flats

LEMMA AccessesIs ==
  ASSUME CUType, NEW c \in Channel
  PROVE  /\ Accesses(c) \in Seq(Access) /\ inFlight[c] \in Seq(Access) /\ shadow[c] \in Seq(Access)
         /\ ctl.sending => PutBack(c) = Accesses(c)
         /\ ctl.flushing => PutBack(c) = Accesses(c)
         /\ shadow[c] = <<>> => Accesses(c) = inFlight[c]
<1>1. inFlight[c] \in Seq(Access) /\ shadow[c] \in Seq(Access)
  BY DEF CUType
<1>2. inFlight[c] \o shadow[c] \in Seq(Access) /\ (shadow[c] = <<>> => inFlight[c] \o shadow[c] = inFlight[c])
  <2>1. inFlight[c] \o shadow[c] \in Seq(Access)
    BY <1>1, ConcatProperties
  <2>2. inFlight[c] \o <<>> = inFlight[c]
    BY <1>1, ConcatEmptySeq
  <2> QED BY <2>1, <2>2
<1> QED BY <1>1, <1>2 DEF Accesses, PutBack

LEMMA SameItself ==
  ASSUME NEW s
  PROVE  Same(s, s)
  BY DEF Same

\* The steps of the flush protocol keep the accesses; those that are sent again
\* get new identifiers.
LEMMA ProtocolAccesses ==
  ASSUME CUType, CtlInv, ShadowInv, CUType', NEW c \in Channel,
         ProtocolStep \/ \E d \in Channel : SendShadowBufferAccess(d)
  PROVE  Same(Accesses(c)', Accesses(c)) /\ Accesses(c)' \in Seq(Access)
<1>1. ctl \in CtlType /\ cp \in CpType
  BY DEF CUType, CtlType, CpType
<1>2. Accesses(c)' \in Seq(Access)
  <2>1. inFlight'[c] \in Seq(Access) /\ shadow'[c] \in Seq(Access)
    BY DEF CUType
  <2>2. inFlight'[c] \o shadow'[c] \in Seq(Access)
    BY <2>1
  <2> QED BY <2>1, <2>2 DEF Accesses
<1>3. CASE DoFlush
  <2>1. ctl.flushing
    BY <1>3 DEF DoFlush
  <2>2. PutBack(c) = Accesses(c)
    BY <2>1, AccessesIs
  <2>3. CASE ctl.handling
    <3>1. inFlight'[c] = PutBack(c) /\ ctl'.flushing /\ ~ ctl'.sending
      BY <1>1, <1>3, <2>3 DEF DoFlush, CtlType
    <3>2. Accesses(c)' = PutBack(c)
      BY <3>1 DEF Accesses
    <3> QED BY <1>2, <2>2, <3>2, SameItself
  <2>4. CASE ~ ctl.handling
    <3>0. /\ inFlight' = [d \in Channel |-> <<>>] /\ shadow' = [d \in Channel |-> PutBack(d)]
          /\ ctl' = [ctl EXCEPT !.sending = FALSE, !.flushing = FALSE, !.paused = TRUE]
      BY <1>3, <2>4 DEF DoFlush
    <3>1. inFlight'[c] = <<>> /\ shadow'[c] = PutBack(c) /\ ~ ctl'.flushing
      <4>1. inFlight'[c] = <<>> /\ shadow'[c] = PutBack(c)
        BY <3>0
      <4>2. ~ ctl'.flushing
        BY <1>1, <3>0 DEF CtlType
      <4> QED BY <4>1, <4>2
    <3>2. Accesses(c)' = <<>> \o PutBack(c)
      BY <3>1 DEF Accesses
    <3>3. <<>> \o PutBack(c) = PutBack(c)
      BY <2>2, AccessesIs, ConcatEmptySeq
    <3> QED BY <1>2, <2>2, <3>2, <3>3, SameItself
  <2> QED BY <2>3, <2>4
<1>4. CASE ProcessInputFromCP
  <2>1. UNCHANGED <<inFlight, shadow>>
    BY <1>4 DEF ProcessInputFromCP, memVars
  <2>2. CASE cp.msg = "flush"
    <3>1. ctl'.flushing /\ ctl'.sending = ctl.sending /\ ~ ctl.flushing /\ (ctl.sending <=> ctl.paused)
      <4>1. ctl' = [ctl EXCEPT !.flushing = TRUE]
        BY <1>4, <2>2 DEF ProcessInputFromCP
      <4>2. ~ ctl.flushing /\ (ctl.sending <=> ctl.paused)
        BY <2>2, NoneAssumption DEF CtlInv
      <4> QED BY <1>1, <4>1, <4>2 DEF CtlType
    <3>2. ~ ctl.sending => shadow[c] = <<>>
      BY <3>1 DEF ShadowInv
    <3>3. Accesses(c) = inFlight[c] \o shadow[c]
      BY <3>1 DEF Accesses
    <3>4. Accesses(c)' = IF ctl.sending THEN inFlight[c] \o shadow[c] ELSE inFlight[c]
      BY <2>1, <3>1 DEF Accesses
    <3>5. shadow[c] = <<>> => Accesses(c) = inFlight[c]
      BY AccessesIs
    <3> QED BY <1>2, <3>2, <3>3, <3>4, <3>5, SameItself
  <2>3. CASE cp.msg # "flush"
    <3>1. ctl'.flushing = ctl.flushing /\ ~ ctl.flushing
      <4>1. ctl' = [ctl EXCEPT !.sending = TRUE] /\ cp.msg = "restart"
        BY <1>1, <1>4, <2>3 DEF ProcessInputFromCP, CpType
      <4>2. ~ ctl.flushing
        BY <4>1, NoneAssumption DEF CtlInv
      <4> QED BY <1>1, <4>1, <4>2 DEF CtlType
    <3>2. Accesses(c)' = Accesses(c)
      BY <2>1, <3>1 DEF Accesses
    <3> QED BY <1>2, <3>2, SameItself
  <2> QED BY <2>2, <2>3
<1>5. CASE CheckShadowBuffers
  <2>1. UNCHANGED <<inFlight, shadow>> /\ shadow[c] = <<>>
    BY <1>5 DEF CheckShadowBuffers, AllSent, memVars
  <2>2. Accesses(c) = inFlight[c] /\ inFlight[c] \o shadow[c] = inFlight[c]
    BY <2>1, AccessesIs, ConcatEmptySeq
  <2>3. Accesses(c)' = inFlight[c]
    BY <2>1, <2>2 DEF Accesses
  <2> QED BY <1>2, <2>2, <2>3, SameItself
<1>6. CASE SendFlush \/ FlushBelow \/ Restarted
  <2>1. UNCHANGED <<inFlight, shadow, ctl>>
    BY <1>6 DEF SendFlush, FlushBelow, Restarted, memVars
  <2>2. Accesses(c)' = Accesses(c)
    BY <2>1 DEF Accesses
  <2> QED BY <1>2, <2>2, SameItself
<1>7. CASE \E d \in Channel : SendShadowBufferAccess(d)
  <2>1. PICK d \in Channel : SendShadowBufferAccess(d)
    BY <1>7
  <2> DEFINE old == Head(shadow[d])
             info == [old EXCEPT !.id[4] = cp.era]
  <2>2. /\ ctl.sending /\ shadow[d] # <<>> /\ shadow' = [shadow EXCEPT ![d] = Tail(@)]
        /\ inFlight' = [inFlight EXCEPT ![d] = Append(@, info)]
        /\ UNCHANGED ctl
    BY <2>1 DEF SendShadowBufferAccess
  <2>3. /\ old \in Access /\ shadow[d] \in Seq(Access) /\ inFlight[d] \in Seq(Access)
        /\ Tail(shadow[d]) \in Seq(Access)
    <3>1. shadow[d] \in Seq(Access) /\ inFlight[d] \in Seq(Access)
      BY DEF CUType
    <3> QED BY <2>2, <3>1, HeadTailProperties
  <2>4. info.wave = old.wave /\ info.at = old.at /\ info.last = old.last
    BY <2>3 DEF Access
  <2>5. Accesses(c) = inFlight[c] \o shadow[c] /\ Accesses(c)' = inFlight'[c] \o shadow'[c]
    BY <2>2 DEF Accesses
  <2>6. CASE d # c
    <3>1. inFlight'[c] = inFlight[c] /\ shadow'[c] = shadow[c]
      BY <2>2, <2>6 DEF CUType
    <3> QED BY <1>2, <2>5, <3>1, SameItself
  <2>7. CASE d = c
    <3> DEFINE a == inFlight[c]
               b == shadow[c]
               t == Tail(b)
               p == Append(a, info)
               q == Append(a, old)
    <3>1. inFlight'[c] = p /\ shadow'[c] = t
      BY <2>2, <2>7 DEF CUType
    <3>2. q \o t = a \o b
      BY <2>2, <2>3, <2>7, MoveHead
    <3>3. info \in Access
      <4>1. inFlight'[c] \in Seq(Access)
        BY DEF CUType
      <4>2. p[Len(a) + 1] = info /\ Len(a) + 1 \in DOMAIN p
        BY <2>3, <2>7
      <4> QED BY <3>1, <4>1, <4>2
    <3>4. /\ p \in Seq(Access) /\ q \in Seq(Access) /\ t \in Seq(Access) /\ Len(p) = Len(q) /\ Len(p) = Len(a) + 1
          /\ Len(a) \in Nat /\ Len(t) \in Nat
          /\ \A i \in 1 .. Len(p) : p[i] = q[i] \/ (p[i] = info /\ q[i] = old)
      <4> HIDE DEF info, old
      <4> QED BY <2>3, <2>7, <3>3
    <3> HIDE DEF info, old, p, q, t
    <3>5. /\ Len(p \o t) = Len(p) + Len(t) /\ Len(q \o t) = Len(p) + Len(t)
          /\ \A i \in 1 .. Len(p) + Len(t) : (p \o t)[i] = IF i <= Len(p) THEN p[i] ELSE t[i - Len(p)]
          /\ \A i \in 1 .. Len(p) + Len(t) : (q \o t)[i] = IF i <= Len(p) THEN q[i] ELSE t[i - Len(p)]
          /\ q \o t \in Seq(Access)
      <4>1. p \in Seq(Access) /\ q \in Seq(Access) /\ t \in Seq(Access)
        BY <3>4
      <4>2. /\ Len(p \o t) = Len(p) + Len(t)
            /\ \A i \in 1 .. Len(p) + Len(t) : (p \o t)[i] = IF i <= Len(p) THEN p[i] ELSE t[i - Len(p)]
        BY <4>1, ConcatProperties
      <4>3. /\ Len(q \o t) = Len(q) + Len(t) /\ q \o t \in Seq(Access)
            /\ \A i \in 1 .. Len(q) + Len(t) : (q \o t)[i] = IF i <= Len(q) THEN q[i] ELSE t[i - Len(q)]
        BY <4>1, ConcatProperties
      <4> QED BY <3>4, <4>2, <4>3
    <3>6. DOMAIN (q \o t) = 1 .. Len(p) + Len(t)
      BY <3>4, <3>5
    <3>7. Same(p \o t, q \o t)
      <4>1. ASSUME NEW i \in 1 .. Len(p) + Len(t)
            PROVE  (p \o t)[i] = (q \o t)[i] \/ ((p \o t)[i] = info /\ (q \o t)[i] = old)
        <5>1. CASE i <= Len(p)
          <6>1. i \in 1 .. Len(p)
            BY <3>4, <5>1
          <6> QED BY <3>4, <3>5, <5>1, <6>1
        <5>2. CASE ~ (i <= Len(p))
          BY <3>5, <5>2
        <5> QED BY <5>1, <5>2
      <4> QED BY <2>4, <3>5, <3>6, <4>1 DEF Same
    <3> QED BY <1>2, <2>5, <3>1, <3>2, <3>7
  <2> QED BY <2>6, <2>7
<1> QED BY <1>3, <1>4, <1>5, <1>6, <1>7 DEF ProtocolStep

Executes ==
  \/ \E n \in 1 .. MaxTransactions : ExecuteSMEMLoad(n)
  \/ \E n \in 0 .. MaxTransactions : ExecuteFlat(n)

\* Only the executions and the responses change the counters of a wave.
LEMMA CountsStay ==
  ASSUME CUType, PlaceInv, SampleInv, BarrierRoom, [Next]_vars, ~ Executes,
         \A c \in Channel : ~ ProcessInputFromMem(c), NEW w \in Wave
  PROVE  SameCounts(w)
<1>1. wf \in [Wave -> WaveRecord] /\ wf[w] \in WaveRecord
  BY DEF CUType
<1>2. ASSUME wf'[w] = wf[w] \/ \E s : wf'[w] = [wf[w] EXCEPT !.state = s] PROVE SameCounts(w)
  BY <1>1, <1>2 DEF SameCounts, WaveRecord
<1>3. ASSUME wf'[w] = SetReady(wf[w], wf[w].pc + 1) PROVE SameCounts(w)
  <2>1. wf[w].pc + 1 \in Nat \ {0}
    BY <1>1 DEF WaveRecord
  <2> QED BY <1>1, <1>3, <2>1, SetReadyCounts DEF SameCounts
<1>4. CASE SchedulerStep
  <2>1. CASE EvaluateInternalInst
    <3>1. PICK e : EvalInv(e, Len(internalExecuting)) /\ wf' = e.waves
      BY <2>1, EvaluateIs
    <3>2. Outcome(e, w)
      BY <3>1 DEF EvalInv
    <3>3. Released(e, w) => wf'[w] = SetReady(wf[w], wf[w].pc + 1)
      BY <3>1 DEF Released, Waves
    <3> QED BY <1>2, <1>3, <3>1, <3>2, <3>3 DEF Outcome
  <2>2. CASE \E v \in Wave : DecodeNextInst(v) \/ DoFetch(v) \/ Issue(v)
    <3>1. PICK v \in Wave : DecodeNextInst(v) \/ DoFetch(v) \/ Issue(v)
      BY <2>2
    <3>2. CASE DecodeNextInst(v)
      <4>1. (\E s : wf' = [wf EXCEPT ![v].start = s]) \/ \E n : wf' = [wf EXCEPT ![v].next = n]
        BY <3>2 DEF DecodeNextInst
      <4>2. ASSUME NEW s, wf' = [wf EXCEPT ![v].start = s] PROVE SameCounts(w)
        BY <1>1, <4>2 DEF SameCounts, WaveRecord
      <4>3. ASSUME NEW n, wf' = [wf EXCEPT ![v].next = n] PROVE SameCounts(w)
        BY <1>1, <4>3 DEF SameCounts, WaveRecord
      <4> QED BY <4>1, <4>2, <4>3
    <3>3. CASE DoFetch(v)
      <4>1. \E s : wf' = [wf EXCEPT ![v].start = s, ![v].fetching = TRUE]
        BY <3>3 DEF DoFetch
      <4> QED BY SMTT(60), <1>1, <4>1 DEF SameCounts, WaveRecord
    <3>4. CASE Issue(v)
      <4>1. wf' = [wf EXCEPT ![v].inst = wf[v].next, ![v].next = 0, ![v].state = "running"]
        BY <3>4 DEF Issue
      <4> QED BY <1>1, <4>1 DEF SameCounts, WaveRecord
    <3> QED BY <3>1, <3>2, <3>3, <3>4
  <2> QED BY <1>4, <2>1, <2>2 DEF SchedulerStep
<1>5. CASE UnitStep
  <2>1. CASE \E u \in Staged : RunWriteStage(u)
    <3>1. PICK u \in Staged : RunWriteStage(u)
      BY <2>1
    <3>2. wf' = [wf EXCEPT ![stage[u].write] = SetReady(@, @.pc + 1)]
      BY <3>1 DEF RunWriteStage
    <3>3. wf'[w] = wf[w] \/ wf'[w] = SetReady(wf[w], wf[w].pc + 1)
      BY <1>1, <3>2
    <3> QED BY <1>2, <1>3, <3>3
  <2>2. CASE \E s \in SIMD : SIMDExec(s)
    <3>1. PICK s \in SIMD : SIMDExec(s)
      BY <2>2
    <3>2. wf' = [wf EXCEPT ![simd[s]] = SetReady(@, @.pc + 1)]
      BY <3>1 DEF SIMDExec
    <3>3. wf'[w] = wf[w] \/ wf'[w] = SetReady(wf[w], wf[w].pc + 1)
      BY <1>1, <3>2
    <3> QED BY <1>2, <1>3, <3>3
  <2>3. CASE BranchWriteStage
    <3> DEFINE v == stage["branch"].write
               to == setup.jumps[v][wf[v].turns + 1]
    <3>1. /\ wf' = [wf EXCEPT ![v] = Branch(wf[v], to)] /\ v # None
          /\ wf[v].turns + 1 <= Len(setup.jumps[v])
      BY <2>3 DEF BranchWriteStage
    <3>2. CASE w = v
      <4>1. wf[w].turns + 1 <= Len(setup.jumps[w])
        BY <3>1, <3>2
      <4>2. to \in Nat \ {0}
        BY <3>2, <4>1, BranchLeads
      <4> HIDE DEF to
      <4>3. wf'[w] = Branch(wf[w], to)
        BY <1>1, <3>1, <3>2
      <4> QED BY <1>1, <4>2, <4>3, BranchTo DEF SameCounts
    <3>3. CASE w # v
      BY <1>1, <1>2, <3>1, <3>3
    <3> QED BY <3>2, <3>3
  <2>4. CASE UNCHANGED wf
    BY <1>2, <2>4
  <2>5. \/ \E u \in Staged : RunWriteStage(u)
        \/ \E s \in SIMD : SIMDExec(s)
        \/ BranchWriteStage
        \/ UNCHANGED wf
    BY <1>5, NoChange DEF UnitStep, Executes
  <2> QED BY <2>1, <2>2, <2>3, <2>4, <2>5
<1>6. CASE DoFlush \/ StopTimeModel \/ (\E v \in Wave : HandleWfCompletionEvent(v))
           \/ \E g \in Group : HandleMapWGReq(g)
  <2>1. CASE DoFlush
    <3>1. UNCHANGED wf \/ wf' = [v \in Wave |-> IF v \in pool THEN SetWaveToReady(wf[v]) ELSE wf[v]]
      BY <2>1 DEF DoFlush
    <3>2. wf'[w] = wf[w] \/ wf'[w] = SetWaveToReady(wf[w])
      BY <3>1
    <3> QED BY <1>1, <3>2 DEF SetWaveToReady, SameCounts, WaveRecord
  <2>2. CASE StopTimeModel
    <3>1. \E stop : wf' = [v \in Wave |-> IF v \in stop /\ ~ Finished(v)
                                  THEN [wf[v] EXCEPT !.state = "sampled"] ELSE wf[v]]
      BY <2>2 DEF StopTimeModel
    <3>2. wf'[w] = wf[w] \/ wf'[w] = [wf[w] EXCEPT !.state = "sampled"]
      BY <3>1
    <3> QED BY <1>2, <3>2
  <2>3. CASE \E v \in Wave : HandleWfCompletionEvent(v)
    <3>1. \E v \in Wave : wf' = [wf EXCEPT ![v].state = "completed"]
      BY <2>3 DEF HandleWfCompletionEvent
    <3>2. wf'[w] = wf[w] \/ wf'[w] = [wf[w] EXCEPT !.state = "completed"]
      BY <1>1, <3>1
    <3> QED BY <1>2, <3>2
  <2>4. CASE \E g \in Group : HandleMapWGReq(g)
    <3>1. \E g \in Group, s \in {"sampled", "ready"} :
             wf' = [v \in Wave |-> IF GroupOf[v] = g THEN [wf[v] EXCEPT !.state = s] ELSE wf[v]]
      BY <2>4 DEF HandleMapWGReq
    <3>2. wf'[w] = wf[w] \/ \E s \in {"sampled", "ready"} : wf'[w] = [wf[w] EXCEPT !.state = s]
      BY <3>1
    <3> QED BY <1>2, <3>2
  <2> QED BY <1>6, <2>1, <2>2, <2>3, <2>4
<1>7. CASE UNCHANGED wf
  BY <1>2, <1>7
<1> QED BY <1>4, <1>5, <1>6, <1>7, NoChange DEF Next, MemStep, FlushStep, SampleStep, CompletionStep

\* They alone, with the fetches and the flush protocol, change the accesses in flight.
LEMMA InFlightStays ==
  ASSUME [Next]_vars, ~ Executes, \A c \in Channel : ~ ProcessInputFromMem(c),
         ~ DoFlush, \A c \in Channel : ~ SendShadowBufferAccess(c), \A w \in Wave : ~ DoFetch(w)
  PROVE  UNCHANGED inFlight
<1>1. CASE SchedulerStep
  BY <1>1 DEF SchedulerStep, EvaluateInternalInst, DecodeNextInst, Issue, memVars
<1>2. CASE UnitStep
  BY <1>2 DEF Executes, UnitStep,
         DecodeScalar, DecodeLDS, DecodeVector, DecodeVMem, RunReadStage, RunExecStage, RunWriteStage,
         BranchWriteStage, SIMDExec, ScalarSendRequest,
         InsertTransactionToPipeline, VectorSendRequest, memVars
<1>3. CASE MemStep
  BY <1>3 DEF MemStep, MemReply
<1>4. CASE FlushStep \/ SendFlush \/ EnableSampled \/ SampleStep \/ CompletionStep \/ UNCHANGED vars
  BY <1>4 DEF FlushStep, ProcessInputFromCP, CheckShadowBuffers, FlushBelow, Restarted, SendFlush,
         EnableSampled, SampleStep, StopTimeModel, SampledWfCompleted, CompletionStep, Report,
         HandleWfCompletionEvent, memVars, vars
<1>5. CASE \E g \in Group : HandleMapWGReq(g)
  BY <1>5 DEF HandleMapWGReq, memVars
<1> QED BY <1>1, <1>2, <1>3, <1>4, <1>5 DEF Next

\* A step that neither executes nor answers keeps the accesses of a memory of data.
LEMMA QuietAccesses ==
  ASSUME CUType, CtlInv, ShadowInv, CUType', [Next]_vars, ~ Executes,
         \A c \in Channel : ~ ProcessInputFromMem(c), NEW c \in {"scalar", "vector"}
  PROVE  Same(Accesses(c)', Accesses(c)) /\ Accesses(c)' \in Seq(Access)
<1>0. c \in Channel
  BY DEF Channel
<1>1. CASE ProtocolStep \/ \E d \in Channel : SendShadowBufferAccess(d)
  BY <1>0, <1>1, ProtocolAccesses
<1>2. CASE ~ ProtocolStep /\ \A d \in Channel : ~ SendShadowBufferAccess(d)
  <2>1. SameFlags /\ UNCHANGED shadow
    BY <1>2, FlagsStay, ShadowStays DEF ProtocolStep
  <2>2. inFlight'[c] = inFlight[c]
    <3>1. CASE \E w \in Wave : DoFetch(w)
      <4>1. PICK w \in Wave : DoFetch(w)
        BY <3>1
      <4>2. \E x : inFlight' = [inFlight EXCEPT !["inst"] = x]
        BY <4>1 DEF DoFetch
      <4> QED BY <1>0, <4>2 DEF CUType
    <3>2. CASE \A w \in Wave : ~ DoFetch(w)
      BY <1>2, <3>2, InFlightStays DEF ProtocolStep
    <3> QED BY <3>1, <3>2
  <2>3. Accesses(c)' = Accesses(c)
    BY <2>1, <2>2 DEF Accesses, SameFlags
  <2> QED BY <1>0, <2>3, AccessesIs, SameItself
<1> QED BY <1>1, <1>2

\* The counters that S_WAITCNT and S_ENDPGM read, and the order in which the
\* vector accesses come back.
CountInv ==
  /\ \A w \in Wave :
       /\ wf[w].vm = Cardinality(Lasts(Accesses("vector"), w))
       /\ wf[w].lgkm = Cardinality(Lasts(Accesses("vector"), w)) + Cardinality(Lasts(Accesses("scalar"), w))
  /\ \A w \in Wave : Ordered(Accesses("vector"), w, wf[w].flats)

LEMMA PartsMade ==
  ASSUME CUType, NEW w \in Wave, NEW at \in Nat, NEW n \in Nat
  PROVE  /\ Parts(w, at, n) \in Seq(Access) /\ Len(Parts(w, at, n)) = n /\ Made(Parts(w, at, n), w, at)
         /\ \A i \in DOMAIN Parts(w, at, n) : Parts(w, at, n)[i].id[4] = cp.era
<1>1. Parts(w, at, n) \in Seq(Access) /\ Len(Parts(w, at, n)) = n
  BY PartsType
<1>2. DOMAIN Parts(w, at, n) = 1 .. n /\ \A i \in 1 .. n : Parts(w, at, n)[i] = Info(w, at, i, i = n, cp.era)
  BY DEF Parts
<1>3. ASSUME NEW i \in 1 .. n
      PROVE  /\ Parts(w, at, n)[i].wave = w /\ Parts(w, at, n)[i].at = at /\ Parts(w, at, n)[i].last = (i = n)
             /\ Parts(w, at, n)[i].id[4] = cp.era
  <2>1. Info(w, at, i, i = n, cp.era)
          = [wave |-> w, at |-> at, last |-> (i = n), id |-> <<w, at, i, cp.era>>]
    BY DEF Info
  <2>2. Parts(w, at, n)[i] = Info(w, at, i, i = n, cp.era)
    BY <1>2
  <2> QED BY <2>1, <2>2
<1>4. Made(Parts(w, at, n), w, at)
  BY <1>1, <1>2, <1>3 DEF Made
<1> QED BY <1>1, <1>2, <1>3, <1>4

\* The accesses when an instruction of the memories is executed.
LEMMA ExecuteAccesses ==
  ASSUME CUType, CUType', ShadowInv, NEW c \in {"scalar", "vector"}, NEW d \in {"scalar", "vector"}, d # c,
         NEW t \in Seq(Access), ~ ctl.paused, UNCHANGED <<ctl, shadow>>,
         inFlight' = [inFlight EXCEPT ![c] = @ \o t]
  PROVE  /\ Accesses(c)' = Accesses(c) \o t /\ Accesses(d)' = Accesses(d)
         /\ Accesses(c) \in Seq(Access) /\ Accesses(d) \in Seq(Access)
<1>0. c \in Channel /\ d \in Channel
  BY DEF Channel
<1>1. /\ inFlight[c] \in Seq(Access) /\ Accesses(c) = inFlight[c] /\ Accesses(d) = inFlight[d]
      /\ Accesses(c)' = inFlight'[c] /\ Accesses(d)' = inFlight'[d]
      /\ Accesses(c) \in Seq(Access) /\ Accesses(d) \in Seq(Access)
  <2>1. \A k \in {c, d} : shadow[k] = <<>> /\ shadow'[k] = <<>>
    BY <1>0 DEF ShadowInv
  <2>2. \A k \in {c, d} : Accesses(k) = inFlight[k] /\ Accesses(k) \in Seq(Access)
    BY <1>0, <2>1, AccessesIs
  <2>3. \A k \in {c, d} : inFlight'[k] \in Seq(Access)
    BY <1>0 DEF CUType
  <2>4. \A k \in {c, d} : inFlight'[k] \o <<>> = inFlight'[k]
    BY <2>3, ConcatEmptySeq
  <2>5. \A k \in {c, d} : Accesses(k)' = inFlight'[k]
    BY <2>1, <2>4 DEF Accesses
  <2> QED BY <1>0, <2>2, <2>5
<1>2. Accesses(c)' = Accesses(c) \o t /\ Accesses(d)' = Accesses(d)
  <2>1. inFlight'[c] = inFlight[c] \o t /\ inFlight'[d] = inFlight[d]
    BY <1>0 DEF CUType
  <2> QED BY <1>1, <2>1
<1> QED BY <1>1, <1>2

\* The counters when an instruction of the memories is executed.
LEMMA ExecuteCounts ==
  ASSUME CUType, CUType', ShadowInv, CountInv, NEW c \in {"scalar", "vector"}, NEW d \in {"scalar", "vector"}, d # c,
         NEW v \in Wave, NEW t \in Seq(Access), t # <<>>, NEW at \in Nat, Made(t, v, at),
         c = "vector" => at = wf[v].flats + 1, ~ ctl.paused, UNCHANGED <<ctl, shadow>>,
         inFlight' = [inFlight EXCEPT ![c] = @ \o t],
         wf' = [wf EXCEPT ![v] = WithAccess(SetReady(wf[v], wf[v].pc + 1), IF c = "vector" THEN 1 ELSE 0)]
  PROVE  CountInv'
<1>2. /\ Accesses(c)' = Accesses(c) \o t /\ Accesses(d)' = Accesses(d)
      /\ Accesses(c) \in Seq(Access) /\ Accesses(d) \in Seq(Access)
  BY ExecuteAccesses
<1>3. \A w : Cardinality(Lasts(Accesses(c)', w)) = Cardinality(Lasts(Accesses(c), w)) + IF w = v THEN 1 ELSE 0
  BY <1>2, LastsMade
<1>4. \A w : Cardinality(Lasts(Accesses(d)', w)) = Cardinality(Lasts(Accesses(d), w))
  BY <1>2
<1>5. \A w : Cardinality(Lasts(Accesses(c), w)) \in Nat /\ Cardinality(Lasts(Accesses(d), w)) \in Nat
  BY <1>2, LastsFinite
<1>6. /\ wf'[v].vm = wf[v].vm + (IF c = "vector" THEN 1 ELSE 0) /\ wf'[v].lgkm = wf[v].lgkm + 1
      /\ wf'[v].flats = wf[v].flats + (IF c = "vector" THEN 1 ELSE 0)
      /\ \A w \in Wave \ {v} : wf'[w] = wf[w]
  <2> DEFINE s == SetReady(wf[v], wf[v].pc + 1)
  <2>1. wf \in [Wave -> WaveRecord] /\ wf[v] \in WaveRecord
    BY DEF CUType
  <2>2. wf[v].pc + 1 \in Nat \ {0}
    BY <2>1 DEF WaveRecord
  <2>3. s \in WaveRecord /\ s.vm = wf[v].vm /\ s.lgkm = wf[v].lgkm /\ s.flats = wf[v].flats
    BY <2>1, <2>2, SetReadyIs, SetReadyCounts
  <2> HIDE DEF s
  <2>4. wf'[v] = WithAccess(s, IF c = "vector" THEN 1 ELSE 0)
    BY <2>1 DEF s
  <2>5. \A k : WithAccess(s, k).vm = s.vm + k /\ WithAccess(s, k).lgkm = s.lgkm + 1
               /\ WithAccess(s, k).flats = s.flats + k
    BY <2>3 DEF WithAccess, WaveRecord
  <2> QED BY <2>1, <2>3, <2>4, <2>5
<1>7. ASSUME NEW w \in Wave
      PROVE  /\ wf'[w].vm = Cardinality(Lasts(Accesses("vector")', w))
             /\ wf'[w].lgkm = Cardinality(Lasts(Accesses("vector")', w)) + Cardinality(Lasts(Accesses("scalar")', w))
  <2> DEFINE C(k) == Cardinality(Lasts(Accesses(k), w))
             E(k) == Cardinality(Lasts(Accesses(k)', w))
  <2>1. wf[w].vm = C("vector") /\ wf[w].lgkm = C("vector") + C("scalar")
    BY DEF CountInv
  <2>2. E(c) = C(c) + (IF w = v THEN 1 ELSE 0) /\ E(d) = C(d) /\ C(c) \in Nat /\ C(d) \in Nat
    BY <1>3, <1>4, <1>5
  <2>3. wf'[w].vm = wf[w].vm + (IF w = v /\ c = "vector" THEN 1 ELSE 0)
        /\ wf'[w].lgkm = wf[w].lgkm + (IF w = v THEN 1 ELSE 0)
    <3>1. wf[w].vm \in Int /\ wf[w].lgkm \in Int
      BY DEF CUType, WaveRecord
    <3> QED BY <1>6, <3>1
  <2> HIDE DEF C, E
  <2>4. wf'[w].vm = E("vector") /\ wf'[w].lgkm = E("vector") + E("scalar")
    <3>1. CASE c = "vector"
      <4>1. d = "scalar"
        BY <3>1
      <4> QED BY <2>1, <2>2, <2>3, <3>1, <4>1
    <3>2. CASE c = "scalar"
      <4>1. d = "vector"
        BY <3>2
      <4> QED BY <2>1, <2>2, <2>3, <3>2, <4>1
    <3> QED BY <3>1, <3>2
  <2> QED BY <2>4 DEF E
<1>8. ASSUME NEW w \in Wave PROVE Ordered(Accesses("vector")', w, wf'[w].flats)
  <2>1. Ordered(Accesses("vector"), w, wf[w].flats)
    BY DEF CountInv
  <2>2. CASE c = "vector"
    <3>1. wf[v].flats \in Nat
      BY DEF CUType, WaveRecord
    <3>2. /\ Ordered(Accesses(c), v, wf[v].flats) => Ordered(Accesses(c)', v, wf[v].flats + 1)
          /\ w # v /\ Ordered(Accesses(c), w, wf[w].flats) => Ordered(Accesses(c)', w, wf[w].flats)
      BY <1>2, <2>2, <3>1, OrderedMade
    <3> QED BY <1>6, <2>1, <2>2, <3>2
  <2>3. CASE c = "scalar"
    <3>1. wf'[w].flats = wf[w].flats
      <4>1. wf[v].flats \in Nat
        BY DEF CUType, WaveRecord
      <4> QED BY <1>6, <2>3, <4>1
    <3>2. d = "vector"
      BY <2>3
    <3> QED BY <1>2, <2>1, <3>1, <3>2
  <2> QED BY <2>2, <2>3
<1> QED BY <1>7, <1>8 DEF CountInv

\* The accesses of the other memory of data stay.
LEMMA OtherAccesses ==
  ASSUME CUType, NEW c \in Channel, NEW d \in Channel \ {c}, UNCHANGED <<ctl, shadow>>,
         UNCHANGED inFlight \/ \E x : inFlight' = [inFlight EXCEPT ![c] = x]
  PROVE  Accesses(d)' = Accesses(d)
<1>1. inFlight'[d] = inFlight[d]
  BY DEF CUType
<1> QED BY <1>1 DEF Accesses

\* The oldest access of a channel leaves.
LEMMA OldestLeaves ==
  ASSUME CUType, NEW c \in Channel, inFlight[c] # <<>>, UNCHANGED <<ctl, shadow>>,
         inFlight' = [inFlight EXCEPT ![c] = Tail(@)]
  PROVE  Accesses(c) # <<>> /\ Accesses(c)' = Tail(Accesses(c)) /\ Head(Accesses(c)) = Head(inFlight[c])
<1>1. inFlight[c] \in Seq(Access) /\ shadow[c] \in Seq(Access) /\ inFlight'[c] = Tail(inFlight[c])
  BY DEF CUType
<1>2. /\ Tail(inFlight[c] \o shadow[c]) = Tail(inFlight[c]) \o shadow[c]
      /\ Head(inFlight[c] \o shadow[c]) = Head(inFlight[c]) /\ inFlight[c] \o shadow[c] # <<>>
  BY <1>1, TailConcat
<1> QED BY <1>1, <1>2 DEF Accesses

LEMMA ReturnedCounts ==
  ASSUME NEW r \in WaveRecord, NEW info \in Access
  PROVE  /\ Returned("inst", r, info).vm = r.vm /\ Returned("inst", r, info).lgkm = r.lgkm
         /\ Returned("scalar", r, info).vm = r.vm
         /\ Returned("scalar", r, info).lgkm = r.lgkm - (IF info.last THEN 1 ELSE 0)
         /\ Returned("vector", r, info).vm = r.vm - (IF info.last THEN 1 ELSE 0)
         /\ Returned("vector", r, info).lgkm = r.lgkm - (IF info.last THEN 1 ELSE 0)
         /\ \A c \in Channel : Returned(c, r, info).flats = r.flats
<1>1. r.vm \in Int /\ r.lgkm \in Int /\ info.last \in BOOLEAN
  BY DEF WaveRecord, Access
<1>2. Returned("inst", r, info) = FetchReturned(r, info.at)
  BY DEF Returned
<1>3. Returned("scalar", r, info) = IF info.last THEN [r EXCEPT !.lgkm = r.lgkm - 1] ELSE r
  BY DEF Returned
<1>4. Returned("vector", r, info) = IF info.last THEN [r EXCEPT !.vm = r.vm - 1, !.lgkm = r.lgkm - 1] ELSE r
  BY DEF Returned
<1>5. FetchReturned(r, info.at).vm = r.vm /\ FetchReturned(r, info.at).lgkm = r.lgkm
      /\ FetchReturned(r, info.at).flats = r.flats
  BY DEF FetchReturned, WaveRecord
<1>6. CASE info.last
  <2> DEFINE a == r.vm - 1
             b == r.lgkm - 1
  <2> HIDE DEF a, b
  <2>1. /\ [r EXCEPT !.lgkm = b].lgkm = b /\ [r EXCEPT !.lgkm = b].vm = r.vm
        /\ [r EXCEPT !.vm = a, !.lgkm = b].lgkm = b /\ [r EXCEPT !.vm = a, !.lgkm = b].vm = a
        /\ [r EXCEPT !.lgkm = b].flats = r.flats /\ [r EXCEPT !.vm = a, !.lgkm = b].flats = r.flats
    BY DEF WaveRecord
  <2>2. /\ Returned("scalar", r, info) = [r EXCEPT !.lgkm = b]
        /\ Returned("vector", r, info) = [r EXCEPT !.vm = a, !.lgkm = b]
    BY <1>3, <1>4, <1>6 DEF a, b
  <2> QED BY <1>2, <1>5, <1>6, <2>1, <2>2 DEF a, b, Channel
<1>7. CASE ~ info.last
  BY <1>1, <1>2, <1>3, <1>4, <1>5, <1>7 DEF Channel
<1> QED BY <1>6, <1>7

LEMMA AnswerCounts ==
  ASSUME CUType, CUType', CountInv, NEW c \in Channel, ProcessInputFromMem(c)
  PROVE  CountInv'
<1> DEFINE info == Head(inFlight[c])
<1>1. UNCHANGED <<ctl, shadow>>
  BY DEF ProcessInputFromMem
<1>2. CASE ~ Answers(c)
  <2>1. UNCHANGED <<inFlight, wf>>
    BY <1>2 DEF ProcessInputFromMem
  <2>2. Accesses("vector")' = Accesses("vector") /\ Accesses("scalar")' = Accesses("scalar")
    BY <1>1, <2>1 DEF Accesses
  <2> QED BY <2>1, <2>2 DEF CountInv
<1>3. CASE Answers(c)
  <2>1. /\ inFlight[c] # <<>> /\ inFlight' = [inFlight EXCEPT ![c] = Tail(@)]
        /\ wf' = [wf EXCEPT ![info.wave] = Returned(c, @, info)]
    BY <1>3 DEF ProcessInputFromMem, Answers
  <2>2. wf \in [Wave -> WaveRecord] /\ inFlight[c] \in Seq(Access) /\ info \in Access /\ info.wave \in Wave
    <3>1. wf \in [Wave -> WaveRecord] /\ inFlight[c] \in Seq(Access)
      BY DEF CUType
    <3>2. info \in Access
      BY <2>1, <3>1, HeadTailProperties
    <3> QED BY <3>1, <3>2 DEF Access
  <2>3. \A d \in Channel \ {c} : Accesses(d)' = Accesses(d)
    BY <1>1, <2>1, OtherAccesses
  <2>4. Accesses(c) # <<>> /\ Accesses(c)' = Tail(Accesses(c)) /\ Head(Accesses(c)) = info
    BY <1>1, <2>1, OldestLeaves
  <2>5. /\ wf'[info.wave] = Returned(c, wf[info.wave], info)
        /\ \A w \in Wave \ {info.wave} : wf'[w] = wf[w]
        /\ wf[info.wave] \in WaveRecord
    <3> HIDE DEF info
    <3> QED BY <2>1, <2>2
  <2> HIDE DEF info
  <2>6. CASE c = "inst"
    <3>1. Accesses("vector")' = Accesses("vector") /\ Accesses("scalar")' = Accesses("scalar")
      BY <2>3, <2>6 DEF Channel
    <3>2. \A w \in Wave : wf'[w].vm = wf[w].vm /\ wf'[w].lgkm = wf[w].lgkm /\ wf'[w].flats = wf[w].flats
      BY <2>2, <2>5, <2>6, ReturnedCounts
    <3> QED BY <3>1, <3>2 DEF CountInv
  <2>7. ASSUME NEW d \in Channel, c \in {"scalar", "vector"}, d \in {"scalar", "vector"}, d # c PROVE CountInv'
    <3>1. Accesses(d)' = Accesses(d) /\ Accesses(c) \in Seq(Access) /\ Accesses(d) \in Seq(Access)
      BY <2>3, <2>7, AccessesIs
    <3>2. /\ \A w : Cardinality(Lasts(Accesses(c), w))
                      = Cardinality(Lasts(Accesses(c)', w)) + IF info.wave = w /\ info.last THEN 1 ELSE 0
          /\ \A w, f : Ordered(Accesses(c), w, f) => Ordered(Accesses(c)', w, f)
      BY <2>4, <3>1, LastsTail
    <3>3. \A w : /\ Cardinality(Lasts(Accesses(c), w)) \in Nat /\ Cardinality(Lasts(Accesses(d), w)) \in Nat
                 /\ Cardinality(Lasts(Accesses(c)', w)) \in Nat
      BY <2>4, <3>1, LastsFinite, HeadTailProperties
    <3>4. ASSUME NEW w \in Wave
          PROVE  /\ wf'[w].vm = Cardinality(Lasts(Accesses("vector")', w))
                 /\ wf'[w].lgkm = Cardinality(Lasts(Accesses("vector")', w)) + Cardinality(Lasts(Accesses("scalar")', w))
      <4> DEFINE C(k) == Cardinality(Lasts(Accesses(k), w))
                 E(k) == Cardinality(Lasts(Accesses(k)', w))
                 one == IF info.wave = w /\ info.last THEN 1 ELSE 0
      <4>1. wf[w].vm = C("vector") /\ wf[w].lgkm = C("vector") + C("scalar")
        BY DEF CountInv
      <4>2. C(c) = E(c) + one /\ E(d) = C(d) /\ C(c) \in Nat /\ C(d) \in Nat /\ E(c) \in Nat
        BY <3>1, <3>2, <3>3
      <4>3. /\ wf'[w].vm = wf[w].vm - (IF c = "vector" THEN one ELSE 0)
            /\ wf'[w].lgkm = wf[w].lgkm - one
        <5>1. wf[w].vm \in Int /\ wf[w].lgkm \in Int
          BY DEF CUType, WaveRecord
        <5>2. CASE info.wave = w
          BY <2>2, <2>5, <2>7, <5>1, <5>2, ReturnedCounts
        <5>3. CASE info.wave # w
          BY <2>5, <5>1, <5>3
        <5> QED BY <5>2, <5>3
      <4>4. one \in {0, 1}
        OBVIOUS
      <4> HIDE DEF C, E, one
      <4>5. wf'[w].vm = E("vector") /\ wf'[w].lgkm = E("vector") + E("scalar")
        <5>1. CASE c = "vector" /\ d = "scalar"
          BY <4>1, <4>2, <4>3, <4>4, <5>1
        <5>2. CASE c = "scalar" /\ d = "vector"
          BY <4>1, <4>2, <4>3, <4>4, <5>2
        <5> QED BY <2>7, <5>1, <5>2
      <4> QED BY <4>5 DEF E
    <3>5. ASSUME NEW w \in Wave PROVE Ordered(Accesses("vector")', w, wf'[w].flats)
      <4>1. wf'[w].flats = wf[w].flats
        BY <2>2, <2>5, ReturnedCounts
      <4>2. Ordered(Accesses("vector"), w, wf[w].flats)
        BY DEF CountInv
      <4> QED BY <2>7, <3>1, <3>2, <4>1, <4>2
    <3> QED BY <3>4, <3>5 DEF CountInv
  <2> QED BY <2>6, <2>7 DEF Channel
<1> QED BY <1>2, <1>3

\* An instruction of the memories is executed.
LEMMA ScalarExecutes ==
  ASSUME CUType, CUType', ShadowInv, CountInv, NEW n \in 1 .. MaxTransactions, ExecuteSMEMLoad(n)
  PROVE  CountInv'
<1> DEFINE v == stage["scalar"].exec
           at == wf[v].smems + 1
           t == Parts(v, at, n)
<1>1. /\ ~ ctl.paused /\ UNCHANGED <<ctl, shadow>> /\ v # None
      /\ inFlight' = [inFlight EXCEPT !["scalar"] = @ \o t]
      /\ wf' = [wf EXCEPT ![v] = WithAccess(SetReady(@, @.pc + 1), 0)]
  BY DEF ExecuteSMEMLoad, Runs
<1>2. v \in Wave /\ n \in Nat /\ n # 0 /\ wf \in [Wave -> WaveRecord]
  <2>1. stage["scalar"] \in [read : Wave \cup {None}, exec : Wave \cup {None}, write : Wave \cup {None}]
    BY DEF CUType, Staged
  <2>2. n \in Nat /\ n # 0
    BY LimitAssumption
  <2>3. wf \in [Wave -> WaveRecord]
    BY DEF CUType
  <2> QED BY <1>1, <2>1, <2>2, <2>3
<1>3. wf' = [wf EXCEPT ![v] = WithAccess(SetReady(wf[v], wf[v].pc + 1), 0)]
  BY <1>1, <1>2
<1>4. t \in Seq(Access) /\ Len(t) = n /\ Made(t, v, at) /\ at \in Nat
  <2>1. at \in Nat
    BY <1>2 DEF WaveRecord
  <2> HIDE DEF at, v
  <2> QED BY <1>2, <2>1, PartsMade
<1>5. t # <<>>
  BY <1>2, <1>4
<1> HIDE DEF v, at, t
<1> QED BY <1>1, <1>2, <1>3, <1>4, <1>5, ExecuteCounts

LEMMA VectorExecutes ==
  ASSUME CUType, CUType', ShadowInv, CountInv, NEW n \in 0 .. MaxTransactions, ExecuteFlat(n)
  PROVE  CountInv'
<1> DEFINE v == Head(instPipe)
           at == wf[v].flats + 1
           t == Parts(v, at, n)
<1>1. ~ ctl.paused /\ UNCHANGED <<ctl, shadow>> /\ instPipe # <<>>
  BY DEF ExecuteFlat, Runs
<1>2. v \in Wave /\ n \in Nat /\ wf \in [Wave -> WaveRecord]
  <2>1. instPipe \in Seq(Wave) /\ n \in Nat /\ wf \in [Wave -> WaveRecord]
    BY LimitAssumption DEF CUType
  <2>2. v \in Wave
    BY <1>1, <2>1, HeadTailProperties
  <2> QED BY <2>1, <2>2
<1>3. t \in Seq(Access) /\ Len(t) = n /\ Made(t, v, at) /\ at \in Nat /\ at = wf[v].flats + 1
  <2>1. at \in Nat /\ at = wf[v].flats + 1
    BY <1>2 DEF WaveRecord
  <2> HIDE DEF at, v
  <2> QED BY <1>2, <2>1, PartsMade
<1>4. \/ UNCHANGED <<wf, inFlight>>
      \/ /\ wf' = [wf EXCEPT ![v] = IF n = 0 THEN SetReady(@, @.pc + 1)
                                              ELSE WithAccess(SetReady(@, @.pc + 1), 1)]
         /\ inFlight' = [inFlight EXCEPT !["vector"] = @ \o t]
  BY DEF ExecuteFlat
<1> HIDE DEF v, at, t
<1>5. ASSUME UNCHANGED inFlight, \A w \in Wave : SameCounts(w) PROVE CountInv'
  <2>1. Accesses("vector")' = Accesses("vector") /\ Accesses("scalar")' = Accesses("scalar")
    BY <1>1, <1>5 DEF Accesses
  <2> QED BY <1>5, <2>1 DEF CountInv, SameCounts
<1>6. CASE UNCHANGED <<wf, inFlight>>
  BY <1>5, <1>6 DEF SameCounts
<1>7. CASE /\ n = 0
           /\ wf' = [wf EXCEPT ![v] = SetReady(@, @.pc + 1)]
           /\ inFlight' = [inFlight EXCEPT !["vector"] = @ \o t]
  <2>1. t = <<>>
    BY <1>3, <1>7
  <2>2. inFlight["vector"] \in Seq(Access) /\ inFlight["vector"] \o <<>> = inFlight["vector"]
    <3>1. inFlight["vector"] \in Seq(Access)
      BY DEF CUType, Channel
    <3> QED BY <3>1, ConcatEmptySeq
  <2>3. inFlight' = inFlight
    <3>1. inFlight' = [inFlight EXCEPT !["vector"] = inFlight["vector"]]
      BY <1>7, <2>1, <2>2
    <3> QED BY <3>1 DEF CUType
  <2>4. wf[v] \in WaveRecord /\ wf[v].pc + 1 \in Nat \ {0} /\ wf' = [wf EXCEPT ![v] = SetReady(wf[v], wf[v].pc + 1)]
    <3>1. wf[v] \in WaveRecord
      BY <1>2
    <3> QED BY <1>2, <1>7, <3>1 DEF WaveRecord
  <2>5. \A w \in Wave : wf'[w] = wf[w] \/ (w = v /\ wf'[w] = SetReady(wf[v], wf[v].pc + 1))
    BY <1>2, <2>4
  <2>6. \A w \in Wave : SameCounts(w)
    BY <2>4, <2>5, SetReadyCounts DEF SameCounts
  <2> QED BY <1>5, <2>3, <2>6
<1>8. CASE /\ n # 0
           /\ wf' = [wf EXCEPT ![v] = WithAccess(SetReady(@, @.pc + 1), 1)]
           /\ inFlight' = [inFlight EXCEPT !["vector"] = @ \o t]
  <2>1. t # <<>> /\ wf' = [wf EXCEPT ![v] = WithAccess(SetReady(wf[v], wf[v].pc + 1), 1)]
    BY <1>2, <1>3, <1>8
  <2> QED BY <1>1, <1>2, <1>3, <1>8, <2>1, ExecuteCounts
<1> QED BY <1>4, <1>6, <1>7, <1>8

\* No step but these changes the counters or the accesses, except to give the
\* accesses that are sent again new identifiers.
LEMMA CountStep ==
  ASSUME CUType, CUType', PlaceInv, SampleInv, CtlInv, ShadowInv, CountInv, BarrierRoom, [Next]_vars
  PROVE  CountInv'
<1>1. CASE \E n \in 1 .. MaxTransactions : ExecuteSMEMLoad(n)
  BY <1>1, ScalarExecutes
<1>2. CASE \E n \in 0 .. MaxTransactions : ExecuteFlat(n)
  BY <1>2, VectorExecutes
<1>3. CASE \E c \in Channel : ProcessInputFromMem(c)
  BY <1>3, AnswerCounts
<1>4. CASE ~ Executes /\ \A c \in Channel : ~ ProcessInputFromMem(c)
  <2>1. \A w \in Wave : SameCounts(w)
    BY <1>4, CountsStay
  <2>2. \A c \in {"scalar", "vector"} :
          /\ Same(Accesses(c)', Accesses(c)) /\ Accesses(c)' \in Seq(Access) /\ Accesses(c) \in Seq(Access)
    BY <1>4, QuietAccesses, AccessesIs DEF Channel
  <2>3. \A c \in {"scalar", "vector"} :
          /\ \A w : Lasts(Accesses(c)', w) = Lasts(Accesses(c), w)
          /\ \A w, f : Ordered(Accesses(c), w, f) => Ordered(Accesses(c)', w, f)
    BY <2>2, SameLasts
  <2> QED BY <2>1, <2>3 DEF CountInv, SameCounts
<1> QED BY <1>1, <1>2, <1>3, <1>4 DEF Executes

LEMMA InitCount ==
  ASSUME Init
  PROVE  CtlInv /\ ShadowInv /\ CountInv
<1>1. \A c \in Channel : inFlight[c] = <<>> /\ shadow[c] = <<>>
  BY DEF Init
<1>2. CtlInv /\ ShadowInv
  BY <1>1 DEF Init, CtlInv, ShadowInv
<1>3. \A c \in {"scalar", "vector"} : Accesses(c) = <<>>
  BY <1>1, ConcatEmptySeq DEF Accesses, Channel
<1>4. \A w : Lasts(<<>>, w) = {}
  BY DEF Lasts
<1>5. Cardinality({}) = 0
  BY FS_EmptySet
<1>6. \A w \in Wave : wf[w].vm = 0 /\ wf[w].lgkm = 0
  BY DEF Init, FreshWave
<1>7. \A w, f : Ordered(<<>>, w, f)
  BY DEF Ordered
<1>8. /\ Accesses("vector") = <<>> /\ Accesses("scalar") = <<>>
      /\ \A w : Cardinality(Lasts(<<>>, w)) = 0
  BY <1>3, <1>4, <1>5
<1> QED BY <1>2, <1>6, <1>7, <1>8 DEF CountInv

\* The counts that S_WAITCNT and S_ENDPGM read are those of the accesses.
CountsMatch ==
  \A w \in Wave : /\ wf[w].vm = LastOf("vector", w)
                  /\ wf[w].lgkm = LastOf("vector", w) + LastOf("scalar", w)

LEMMA Counted ==
  ASSUME CountInv
  PROVE  CountsMatch
  BY DEF CountInv, CountsMatch, LastOf, Lasts

-----------------------------------------------------------------------------
(* Barriers and waits.                                                     *)

\* The vector accesses come back in order, so that a count of n leaves those of
\* the last n instructions.
LEMMA OnlyLastIs ==
  ASSUME CUType, CountInv, NEW w \in Wave, NEW n \in Nat, wf[w].vm <= n
  PROVE  OnlyLast(w, n)
<1> DEFINE s == Accesses("vector")
           f == wf[w].flats
<1> SUFFICES ASSUME NEW i \in DOMAIN s, s[i].wave = w PROVE s[i].at > f - n
  BY DEF OnlyLast
<1>1. s \in Seq(Access) /\ f \in Nat /\ s[i].at \in Nat
  <2>1. s \in Seq(Access) /\ f \in Nat
    BY AccessesIs DEF CUType, WaveRecord, Channel
  <2>2. s[i] \in Access
    BY <2>1
  <2> QED BY <2>1, <2>2 DEF Access
<1>2. /\ wf[w].vm = Cardinality(Lasts(s, w))
      /\ Ordered(s, w, f)
  BY DEF CountInv
<1> HIDE DEF s, f
<1> DEFINE I == s[i].at .. f
           last(k) == CHOOSE j \in i .. Len(s) : s[j].wave = w /\ s[j].last /\ s[j].at = k
           g == [k \in I |-> last(k)]
<1>3. s[i].at <= f /\ \A k \in I : \E j \in i .. Len(s) : s[j].wave = w /\ s[j].last /\ s[j].at = k
  BY <1>2 DEF Ordered
<1>4. ASSUME NEW k \in I PROVE last(k) \in i .. Len(s) /\ s[last(k)].wave = w /\ s[last(k)].last /\ s[last(k)].at = k
  <2>1. \E j \in i .. Len(s) : s[j].wave = w /\ s[j].last /\ s[j].at = k
    BY <1>3
  <2> QED BY <2>1
<1>5. ASSUME NEW k \in I PROVE last(k) \in Lasts(s, w)
  <2> HIDE DEF last
  <2>1. last(k) \in DOMAIN s
    BY <1>1, <1>4
  <2> QED BY <1>4, <2>1 DEF Lasts
<1>6. g \in Injection(I, Lasts(s, w))
  <2>1. g \in [I -> Lasts(s, w)]
    <3> HIDE DEF last, I
    <3> QED BY <1>5
  <2>2. \A a, b \in I : g[a] = g[b] => a = b
    <3> HIDE DEF last, I
    <3> QED BY <1>4
  <2> HIDE DEF g
  <2> QED BY <2>1, <2>2, Fun_IsInj
<1>7. IsFiniteSet(Lasts(s, w)) /\ Cardinality(Lasts(s, w)) \in Nat
  BY <1>1, LastsFinite
<1>8. Cardinality(I) <= Cardinality(Lasts(s, w))
  <2> HIDE DEF g, I
  <2> QED BY <1>6, <1>7, FS_Injection
<1>9. Cardinality(I) = f - s[i].at + 1
  BY SMTT(60), <1>1, <1>3, FS_Interval
<1> QED BY <1>1, <1>2, <1>7, <1>8, <1>9

\* The wave has waited until few enough accesses are left.
LEMMA WaitIsOver ==
  ASSUME CUType, BufInv, CountInv, NEW w \in Wave, wf[w].inst = wf[w].pc, Waited(w)
  PROVE  BehindWait(w, InstAt(w, wf[w].pc))
<1> DEFINE inst == InstAt(w, wf[w].pc)
<1>1. inst \in Inst
  <2>1. wf[w].pc \in 1 .. Len(setup.prog[w]) /\ setup.prog[w] \in Seq(Inst)
    BY NextKind, SetupAssumption DEF CUType
  <2> QED BY <2>1 DEF InstAt
<1>2. ~ (wf[w].lgkm > inst.lgkmcnt) /\ ~ (wf[w].vm > inst.vmcnt)
  BY DEF Waited, Outstanding
<1> HIDE DEF inst
<1>3. inst.vmcnt \in Nat /\ inst.lgkmcnt \in Nat /\ wf[w].vm \in Int /\ wf[w].lgkm \in Int
  BY <1>1 DEF Inst, CUType, WaveRecord
<1>4. OnlyLast(w, inst.vmcnt)
  BY <1>2, <1>3, OnlyLastIs
<1>5. wf[w].lgkm = LastOf("vector", w) + LastOf("scalar", w)
  BY Counted DEF CountsMatch
<1>6. BehindWait(w, inst)
  BY <1>2, <1>3, <1>4, <1>5 DEF BehindWait
<1> QED BY <1>6 DEF inst

SyncInv == CoreInv /\ CtlInv /\ ShadowInv /\ CountInv

LEMMA CountedStep ==
  ASSUME CoreInv, CtlInv, ShadowInv, CountInv, VectorRoom, BarrierRoom, [Next]_vars
  PROVE  CoreInv' /\ CtlInv' /\ ShadowInv' /\ CountInv'
<1>1. CoreInv'
  BY CoreStep
<1>2. CtlInv' /\ ShadowInv'
  BY CtlStep, ShadowStep DEF CoreInv
<1>3. CountInv'
  BY <1>1, CountStep DEF CoreInv
<1> QED BY <1>1, <1>2, <1>3

\* A wave goes on only when it has executed its instruction, which is the one
\* at its program counter.
LEMMA SyncStep ==
  ASSUME SyncInv, BarrierRoom, [Next]_vars
  PROVE  InSync
<1> SUFFICES ASSUME NEW w \in Wave
             PROVE  /\ Leaves(w, "barrier") => BehindBarrier(w)
                    /\ Leaves(w, "waitcnt") => BehindWait(w, InstAt(w, wf[w].pc))
  BY DEF InSync
<1>1. CUType /\ PlaceInv /\ SampleInv /\ BufInv /\ CountInv
  BY DEF SyncInv, CoreInv
<1>2. Change(w, wf'[w])
  BY <1>1, ChangeStep
<1>3. ASSUME NEW v \in Wave, Busy(wf[v]) PROVE wf[v].inst = wf[v].pc /\ Doing(v) = KindAt(v, wf[v].pc)
  BY <1>1, <1>3 DEF BufInv, BufferOK, Doing
<1>4. ASSUME wf'[w].pc # wf[w].pc, KindAt(w, wf[w].pc) # "branch" PROVE Advanced(wf'[w], w)
  <2>1. ~ Branched(wf'[w], w)
    BY <1>3, <1>4 DEF Branched
  <2> QED BY <1>2, <1>4, <2>1 DEF Change, Kept, RecSame, Fetched, Decoded, Issued
<1>5. ASSUME Leaves(w, "barrier") PROVE BehindBarrier(w)
  <2>1. Busy(wf[w]) /\ (Doing(w) = "barrier" => GroupPasses(w))
    BY <1>4, <1>5 DEF Leaves, Advanced
  <2>2. GroupPasses(w)
    BY <1>3, <1>5, <2>1 DEF Leaves
  <2>3. ASSUME NEW v \in Waves(GroupOf[w]) PROVE Leaves(v, "barrier")
    <3>1. v \in Wave /\ Busy(wf[v]) /\ Doing(v) = "barrier" /\ wf'[v].pc = wf[v].pc + 1
      BY <2>2 DEF GroupPasses, Waves
    <3>2. wf[v].pc \in Nat
      BY <1>1, <3>1 DEF CUType, WaveRecord
    <3> QED BY <1>3, <3>1, <3>2 DEF Leaves
  <2> QED BY <2>3 DEF BehindBarrier
<1>6. ASSUME Leaves(w, "waitcnt") PROVE BehindWait(w, InstAt(w, wf[w].pc))
  <2>1. Busy(wf[w]) /\ (Doing(w) = "waitcnt" => Waited(w))
    BY <1>4, <1>6 DEF Leaves, Advanced
  <2>2. Waited(w) /\ wf[w].inst = wf[w].pc
    BY <1>3, <1>6, <2>1 DEF Leaves
  <2> QED BY <1>1, <2>2, WaitIsOver
<1> QED BY <1>5, <1>6

\* A wave goes on behind a barrier only together with its whole group, and
\* behind a wait only when no more accesses than it allows for are under way,
\* which are those of the latest instructions: evalSBarrier and evalSWaitCnt,
\* through every order of the waves, the answers, flushes and restarts, in
\* programs that branch and loop in any way.
THEOREM SyncHoldsHolds == Spec /\ [](VectorRoom /\ BarrierRoom) => SyncHolds
<1>1. Init => SyncInv
  BY InitCore, InitCount DEF SyncInv
<1>2. SyncInv /\ (VectorRoom /\ BarrierRoom) /\ [Next]_vars => SyncInv'
  BY CountedStep DEF SyncInv
<1>3. SyncInv /\ (VectorRoom /\ BarrierRoom) /\ [Next]_vars => [InSync]_vars
  BY SyncStep
<1> QED BY <1>1, <1>2, <1>3, PTL DEF Spec, SyncHolds

-----------------------------------------------------------------------------
(* Requests and the accesses that wait for them.                           *)

\* The identifiers are of this era, or of earlier ones.
Of(s, e)     == \A i \in DOMAIN s : s[i][4] = e
Before(s, e) == \A i \in DOMAIN s : s[i][4] < e

\* The requests under way are those waited for, behind those of earlier eras.
Linked(out, ids, e) == \E old \in Seq(Id) : out = old \o ids /\ Before(old, e) /\ Of(ids, e)

LEMMA ConcatIs ==
  ASSUME NEW S, NEW a \in Seq(S), NEW b \in Seq(S)
  PROVE  /\ a \o b \in Seq(S) /\ DOMAIN a = 1 .. Len(a) /\ DOMAIN b = 1 .. Len(b)
         /\ DOMAIN (a \o b) = 1 .. Len(a) + Len(b) /\ Len(a) \in Nat /\ Len(b) \in Nat
         /\ \A i \in DOMAIN a : i \in DOMAIN (a \o b) /\ (a \o b)[i] = a[i]
         /\ \A i \in DOMAIN b : Len(a) + i \in DOMAIN (a \o b) /\ (a \o b)[Len(a) + i] = b[i]
         /\ \A k \in DOMAIN (a \o b) : \/ k \in DOMAIN a /\ (a \o b)[k] = a[k]
                                       \/ k - Len(a) \in DOMAIN b /\ (a \o b)[k] = b[k - Len(a)]
<1> DEFINE c == a \o b
<1>1. /\ c \in Seq(S) /\ Len(c) = Len(a) + Len(b) /\ Len(a) \in Nat /\ Len(b) \in Nat
      /\ DOMAIN a = 1 .. Len(a) /\ DOMAIN b = 1 .. Len(b) /\ DOMAIN c = 1 .. Len(a) + Len(b)
      /\ \A i \in 1 .. Len(a) + Len(b) : c[i] = IF i <= Len(a) THEN a[i] ELSE b[i - Len(a)]
  OBVIOUS
<1> HIDE DEF c
<1>2. ASSUME NEW i \in DOMAIN a PROVE i \in DOMAIN c /\ c[i] = a[i]
  BY <1>1
<1>3. ASSUME NEW i \in DOMAIN b PROVE Len(a) + i \in DOMAIN c /\ c[Len(a) + i] = b[i]
  <2>1. Len(a) + i \in 1 .. Len(a) + Len(b) /\ ~ (Len(a) + i <= Len(a)) /\ (Len(a) + i) - Len(a) = i
    BY <1>1
  <2> QED BY <1>1, <2>1
<1>4. ASSUME NEW k \in DOMAIN c
      PROVE  \/ k \in DOMAIN a /\ c[k] = a[k]
             \/ k - Len(a) \in DOMAIN b /\ c[k] = b[k - Len(a)]
  BY <1>1
<1> QED BY <1>1, <1>2, <1>3, <1>4 DEF c

LEMMA OfConcat ==
  ASSUME NEW a \in Seq(Id), NEW b \in Seq(Id), NEW e, Of(a, e), Of(b, e)
  PROVE  Of(a \o b, e)
  BY ConcatIs DEF Of

LEMMA OfTail ==
  ASSUME NEW a \in Seq(Id), NEW e, a # <<>>
  PROVE  /\ Of(a, e) => Of(Tail(a), e) /\ Head(a)[4] = e
         /\ Before(a, e) => Before(Tail(a), e) /\ Head(a)[4] < e
<1>1. /\ \A i \in DOMAIN Tail(a) : i + 1 \in DOMAIN a /\ Tail(a)[i] = a[i + 1]
      /\ 1 \in DOMAIN a /\ Head(a) = a[1]
  OBVIOUS
<1> QED BY <1>1 DEF Of, Before

LEMMA OfEmpty ==
  ASSUME NEW e
  PROVE  Of(<<>>, e) /\ Before(<<>>, e)
  BY DEF Of, Before

LEMMA LinkedMore ==
  ASSUME NEW out \in Seq(Id), NEW ids \in Seq(Id), NEW x \in Seq(Id), NEW e, Linked(out, ids, e), Of(x, e)
  PROVE  Linked(out \o x, ids \o x, e)
<1>1. PICK old \in Seq(Id) : out = old \o ids /\ Before(old, e) /\ Of(ids, e)
  BY DEF Linked
<1>2. (old \o ids) \o x = old \o (ids \o x)
  BY ConcatAssociative
<1>3. Of(ids \o x, e)
  BY <1>1, OfConcat
<1> QED BY <1>1, <1>2, <1>3 DEF Linked

LEMMA LinkedStart ==
  ASSUME NEW out \in Seq(Id), NEW e, Before(out, e)
  PROVE  Linked(out, <<>>, e)
<1>1. out \o <<>> = out
  BY ConcatEmptySeq
<1> QED BY <1>1, OfEmpty DEF Linked

\* The oldest response answers the oldest access, or a request of an earlier era.
LEMMA LinkedTail ==
  ASSUME NEW out \in Seq(Id), NEW ids \in Seq(Id), NEW e \in Nat, Linked(out, ids, e), out # <<>>
  PROVE  Linked(Tail(out), IF ids # <<>> /\ Head(ids) = Head(out) THEN Tail(ids) ELSE ids, e)
<1>1. PICK old \in Seq(Id) : out = old \o ids /\ Before(old, e) /\ Of(ids, e)
  BY DEF Linked
<1>2. CASE old = <<>>
  <2>1. out = ids
    BY <1>1, <1>2, ConcatEmptySeq
  <2>2. Tail(ids) \in Seq(Id) /\ Tail(ids) = <<>> \o Tail(ids)
    <3>1. Tail(ids) \in Seq(Id)
      BY <2>1
    <3> QED BY <3>1, ConcatEmptySeq
  <2>3. Of(Tail(ids), e)
    BY <1>1, <2>1, OfTail
  <2>4. Linked(Tail(ids), Tail(ids), e)
    <3>1. <<>> \in Seq(Id) /\ Before(<<>>, e)
      BY OfEmpty
    <3> QED BY <2>2, <2>3, <3>1 DEF Linked
  <2> QED BY <2>1, <2>4
<1>3. CASE old # <<>>
  <2>1. Tail(out) = Tail(old) \o ids /\ Head(out) = Head(old)
    BY <1>1, <1>3, TailConcat
  <2>2. Tail(old) \in Seq(Id) /\ Before(Tail(old), e) /\ Head(old)[4] < e /\ Head(old) \in Id
    BY <1>1, <1>3, OfTail, HeadTailProperties
  <2>3. ids # <<>> => Head(ids)[4] = e
    BY <1>1, OfTail
  <2>4. ~ (ids # <<>> /\ Head(ids) = Head(out))
    <3> SUFFICES ASSUME ids # <<>>, Head(ids) = Head(out) PROVE FALSE
      OBVIOUS
    <3>1. e < e
      BY <2>1, <2>2, <2>3
    <3> QED BY <3>1
  <2> QED BY <1>1, <2>1, <2>2, <2>4 DEF Linked
<1> QED BY <1>2, <1>3

LEMMA LinkedIn ==
  ASSUME NEW out \in Seq(Id), NEW ids \in Seq(Id), NEW e \in Nat, Linked(out, ids, e)
  PROVE  /\ \A i \in DOMAIN ids : In(out, ids[i])
         /\ \A k \in DOMAIN out : out[k][4] = e => In(ids, out[k])
<1>1. PICK old \in Seq(Id) : out = old \o ids /\ Before(old, e) /\ Of(ids, e)
  BY DEF Linked
<1>2. ASSUME NEW i \in DOMAIN ids PROVE In(out, ids[i])
  <2>1. Len(old) + i \in DOMAIN (old \o ids) /\ (old \o ids)[Len(old) + i] = ids[i]
    BY ConcatIs
  <2> QED BY <1>1, <2>1 DEF In
<1>3. ASSUME NEW k \in DOMAIN out, out[k][4] = e PROVE In(ids, out[k])
  <2>1. \/ k \in DOMAIN old /\ out[k] = old[k]
        \/ k - Len(old) \in DOMAIN ids /\ out[k] = ids[k - Len(old)]
    BY <1>1, ConcatIs
  <2>2. CASE k \in DOMAIN old /\ out[k] = old[k]
    <3>1. e < e
      BY <1>1, <1>3, <2>2 DEF Before
    <3> QED BY <3>1
  <2>3. CASE k - Len(old) \in DOMAIN ids /\ out[k] = ids[k - Len(old)]
    BY <2>3 DEF In
  <2> QED BY <2>1, <2>2, <2>3
<1> QED BY <1>2, <1>3

\* The requests not sent yet, and all those under way, the oldest first.
Pend(c) == CASE c = "inst" -> <<>> [] c = "scalar" -> readBuf [] c = "vector" -> transPipe \o transWaiting
Out(c)  == rsp[c] \o (mem[c] \o Ids(Pend(c)))

Link(c) ==
  /\ ctl.paused => Pend(c) = <<>>
  /\ Of(mem[c], cp.era) /\ Of(Ids(Pend(c)), cp.era)
  /\ Before(rsp[c], cp.era + 1)
  /\ ~ ctl.paused \/ ctl.sending => Linked(Out(c), Ids(inFlight[c]), cp.era)
  /\ ctl.paused /\ ~ ctl.sending /\ ~ ctl.flushing => inFlight[c] = <<>>
  /\ cp.msg = "restart" => mem[c] = <<>> /\ Before(rsp[c], cp.era)

LinkInv == \A c \in Channel : Link(c)

LEMMA LinkTypes ==
  ASSUME CUType, NEW c \in Channel
  PROVE  /\ rsp[c] \in Seq(Id) /\ mem[c] \in Seq(Id) /\ inFlight[c] \in Seq(Access) /\ shadow[c] \in Seq(Access)
         /\ Pend(c) \in Seq(Access) /\ Ids(Pend(c)) \in Seq(Id) /\ Ids(inFlight[c]) \in Seq(Id)
         /\ mem[c] \o Ids(Pend(c)) \in Seq(Id) /\ Out(c) \in Seq(Id) /\ cp.era \in Nat
<1>1. /\ rsp[c] \in Seq(Id) /\ mem[c] \in Seq(Id) /\ inFlight[c] \in Seq(Access) /\ shadow[c] \in Seq(Access)
      /\ readBuf \in Seq(Access) /\ transPipe \in Seq(Access) /\ transWaiting \in Seq(Access) /\ cp.era \in Nat
  BY DEF CUType
<1>2. transPipe \o transWaiting \in Seq(Access) /\ <<>> \in Seq(Access)
  BY <1>1, ConcatProperties
<1>3. Pend(c) \in Seq(Access)
  BY <1>1, <1>2 DEF Pend, Channel
<1>4. Ids(Pend(c)) \in Seq(Id) /\ Ids(inFlight[c]) \in Seq(Id)
  BY <1>1, <1>3, IdsIs
<1>5. mem[c] \o Ids(Pend(c)) \in Seq(Id)
  BY <1>1, <1>4, ConcatProperties
<1>6. Out(c) \in Seq(Id)
  BY <1>1, <1>5, ConcatProperties DEF Out
<1> QED BY <1>1, <1>3, <1>4, <1>5, <1>6

\* Requests move on towards their answers.
LEMMA LinkMoves ==
  ASSUME NEW c \in Channel, Link(c), SameFlags, inFlight'[c] = inFlight[c], Out(c)' = Out(c),
         ctl.paused => Pend(c)' = <<>>, Of(mem'[c], cp.era), Of(Ids(Pend(c)'), cp.era),
         Before(rsp'[c], cp.era + 1),
         cp.msg = "restart" => mem'[c] = <<>> /\ Before(rsp'[c], cp.era)
  PROVE  Link(c)'
  BY DEF Link, SameFlags

LEMMA LinkSame ==
  ASSUME NEW c \in Channel, Link(c), SameFlags, inFlight'[c] = inFlight[c], mem'[c] = mem[c], rsp'[c] = rsp[c],
         Pend(c)' = Pend(c)
  PROVE  Link(c)'
  BY DEF Link, SameFlags, Out

\* New requests, and the accesses that wait for them.
LEMMA LinkGrows ==
  ASSUME CUType, CtlInv, NEW c \in Channel, Link(c), SameFlags, NEW t \in Seq(Access), Of(Ids(t), cp.era),
         inFlight'[c] = inFlight[c] \o t, Out(c)' = Out(c) \o Ids(t), rsp'[c] = rsp[c],
         ~ ctl.paused \/ ctl.sending, ctl.paused => Pend(c)' = <<>>,
         Of(mem'[c], cp.era), Of(Ids(Pend(c)'), cp.era)
  PROVE  Link(c)'
<1>1. Linked(Out(c), Ids(inFlight[c]), cp.era)
  BY DEF Link
<1>2. /\ Out(c) \in Seq(Id) /\ Ids(inFlight[c]) \in Seq(Id) /\ Ids(t) \in Seq(Id)
      /\ Ids(inFlight[c] \o t) = Ids(inFlight[c]) \o Ids(t)
  BY LinkTypes, IdsIs, IdsConcat
<1>3. Linked(Out(c) \o Ids(t), Ids(inFlight[c]) \o Ids(t), cp.era)
  BY <1>1, <1>2, LinkedMore
<1>4. Linked(Out(c)', Ids(inFlight'[c]), cp.era)
  BY <1>2, <1>3
<1>5. cp.msg # "restart"
  BY NoneAssumption DEF CtlInv
<1>6. ~ (ctl.paused /\ ~ ctl.sending)
  OBVIOUS
<1> QED BY <1>4, <1>5, <1>6 DEF Link, SameFlags

\* A response is taken.
LEMMA LinkTaken ==
  ASSUME CUType, CtlInv, NEW c \in Channel, Link(c), SameFlags, rsp[c] # <<>>, rsp'[c] = Tail(rsp[c]),
         mem'[c] = mem[c], Pend(c)' = Pend(c), ~ ctl.paused \/ ctl.sending,
         inFlight'[c] = IF Answers(c) THEN Tail(inFlight[c]) ELSE inFlight[c]
  PROVE  Link(c)'
<1> DEFINE P == mem[c] \o Ids(Pend(c))
           ids == Ids(inFlight[c])
<1>1. /\ rsp[c] \in Seq(Id) /\ P \in Seq(Id) /\ Out(c) \in Seq(Id) /\ cp.era \in Nat
      /\ inFlight[c] \in Seq(Access) /\ ids \in Seq(Id)
  BY LinkTypes
<1>2. Out(c) = rsp[c] \o P /\ Out(c)' = Tail(rsp[c]) \o P
  BY DEF Out
<1> HIDE DEF P
<1>3. Out(c)' = Tail(Out(c)) /\ Head(Out(c)) = Head(rsp[c]) /\ Out(c) # <<>>
  <2>1. rsp[c] \in Seq(Id) /\ P \in Seq(Id) /\ rsp[c] # <<>>
    BY <1>1
  <2>2. Tail(rsp[c] \o P) = Tail(rsp[c]) \o P /\ Head(rsp[c] \o P) = Head(rsp[c]) /\ rsp[c] \o P # <<>>
    BY <2>1, TailConcat
  <2> QED BY <1>2, <2>2
<1>4. Linked(Out(c), ids, cp.era)
  BY DEF Link
<1>5. Linked(Tail(Out(c)), IF ids # <<>> /\ Head(ids) = Head(Out(c)) THEN Tail(ids) ELSE ids, cp.era)
  <2> HIDE DEF ids
  <2> QED BY <1>1, <1>3, <1>4, LinkedTail
<1>6. /\ inFlight[c] # <<>> => ids # <<>> /\ Head(ids) = Head(inFlight[c]).id /\ Ids(Tail(inFlight[c])) = Tail(ids)
      /\ inFlight[c] = <<>> => ids = <<>>
  BY <1>1, IdsTail, IdsEmpty
<1>7. Ids(inFlight'[c]) = IF ids # <<>> /\ Head(ids) = Head(Out(c)) THEN Tail(ids) ELSE ids
  <2>1. CASE inFlight[c] = <<>>
    BY <1>6, <2>1 DEF Answers
  <2>2. CASE inFlight[c] # <<>>
    <3>1. Answers(c) <=> Head(inFlight[c]).id = Head(rsp[c])
      BY <2>2 DEF Answers
    <3>2. Answers(c) <=> ids # <<>> /\ Head(ids) = Head(Out(c))
      BY <1>3, <1>6, <2>2, <3>1
    <3>3. CASE Answers(c)
      BY <1>6, <2>2, <3>2, <3>3
    <3>4. CASE ~ Answers(c)
      BY <3>2, <3>4
    <3> QED BY <3>3, <3>4
  <2> QED BY <2>1, <2>2
<1>8. Linked(Out(c)', Ids(inFlight'[c]), cp.era)
  BY <1>3, <1>5, <1>7
<1>9. Before(Tail(rsp[c]), cp.era + 1)
  BY <1>1, OfTail DEF Link
<1>10. cp.msg # "restart"
  BY NoneAssumption DEF CtlInv
<1>11. ~ (ctl.paused /\ ~ ctl.sending)
  OBVIOUS
<1> QED BY <1>8, <1>9, <1>10, <1>11 DEF Link, SameFlags

LEMMA OfAppend ==
  ASSUME NEW a \in Seq(Id), NEW x \in Id, NEW e
  PROVE  /\ Of(a, e) /\ x[4] = e => Of(Append(a, x), e)
         /\ Before(a, e) /\ x[4] < e => Before(Append(a, x), e)
<1>1. \A i \in DOMAIN Append(a, x) : (i \in DOMAIN a /\ Append(a, x)[i] = a[i]) \/ Append(a, x)[i] = x
  OBVIOUS
<1> QED BY <1>1 DEF Of, Before

LEMMA MemReplyLinks ==
  ASSUME CUType, CtlInv, LinkInv, NEW d \in Channel, MemReply(d), NEW c \in Channel
  PROVE  Link(c)'
<1>1. /\ mem[d] # <<>> /\ rsp' = [rsp EXCEPT ![d] = Append(@, Head(mem[d]))] /\ mem' = [mem EXCEPT ![d] = Tail(@)]
      /\ UNCHANGED <<inFlight, ctl, cp, readBuf, transPipe, transWaiting>>
  BY DEF MemReply, pipeVars, vmemVars
<1>2. SameFlags /\ Pend(c)' = Pend(c) /\ Link(c)
  BY <1>1 DEF SameFlags, Pend, LinkInv
<1>3. CASE d # c
  <2>1. rsp'[c] = rsp[c] /\ mem'[c] = mem[c]
    BY <1>1, <1>3 DEF CUType
  <2> QED BY <1>1, <1>2, <2>1, LinkSame
<1>4. CASE d = c
  <2> DEFINE a == rsp[c]
             b == mem[c]
             P == Ids(Pend(c))
             x == Head(b)
  <2>1. a \in Seq(Id) /\ b \in Seq(Id) /\ P \in Seq(Id) /\ b # <<>> /\ cp.era \in Nat
    BY <1>1, <1>4, LinkTypes
  <2>2. rsp'[c] = Append(a, x) /\ mem'[c] = Tail(b)
    BY <1>1, <1>4 DEF CUType
  <2>3. Of(b, cp.era) /\ Before(a, cp.era + 1) /\ cp.msg # "restart"
    BY <1>2, <2>1 DEF Link
  <2>4. Out(c) = a \o (b \o P) /\ Out(c)' = Append(a, x) \o (Tail(b) \o P)
    BY <1>2, <2>2 DEF Out
  <2> HIDE DEF a, b, P
  <2>5. x \in Id /\ Tail(b) \in Seq(Id) /\ Of(Tail(b), cp.era) /\ x[4] = cp.era
    BY <2>1, <2>3, OfTail, HeadTailProperties
  <2> HIDE DEF x
  <2>6. Append(a, x) \in Seq(Id) /\ cp.era < cp.era + 1
    BY <2>1, <2>5
  <2>7. Append(a, x) \o (Tail(b) \o P) = a \o (b \o P)
    <3>0. Append(a, x) \in Seq(Id) /\ Tail(b) \in Seq(Id) /\ P \in Seq(Id)
      BY <2>1, <2>5, <2>6
    <3> DEFINE k == Append(a, x)
               t == Tail(b)
    <3> HIDE DEF k, t
    <3>1. k \o (t \o P) = (k \o t) \o P
      <4>1. k \in Seq(Id) /\ t \in Seq(Id) /\ P \in Seq(Id)
        BY <3>0 DEF k, t
      <4> QED BY SMTT(30), <4>1, ConcatAssociative
    <3>2. Append(a, x) \o Tail(b) = a \o b
      BY <2>1, MoveHead DEF x
    <3>3. (a \o b) \o P = a \o (b \o P)
      BY <2>1, ConcatAssociative
    <3> QED BY <3>1, <3>2, <3>3 DEF k, t
  <2>8. Before(Append(a, x), cp.era + 1)
    BY <2>1, <2>3, <2>5, <2>6, OfAppend
  <2> QED BY <1>1, <1>2, <2>2, <2>3, <2>4, <2>5, <2>7, <2>8, LinkMoves DEF Link
<1> QED BY <1>3, <1>4

LEMMA SendMoves ==
  ASSUME CUType, CtlInv, NEW c \in Channel, Link(c), SameFlags, inFlight'[c] = inFlight[c], rsp'[c] = rsp[c],
         Pend(c) # <<>>, mem'[c] = Append(mem[c], Head(Pend(c)).id), Pend(c)' = Tail(Pend(c))
  PROVE  Link(c)'
<1> DEFINE b == mem[c]
           p == Pend(c)
           P == Ids(p)
<1>1. b \in Seq(Id) /\ p \in Seq(Access) /\ P \in Seq(Id) /\ cp.era \in Nat
  BY LinkTypes
<1>2. P # <<>> /\ Head(P) = Head(p).id /\ Ids(Tail(p)) = Tail(P)
  BY <1>1, IdsTail
<1>3. Of(b, cp.era) /\ Of(P, cp.era) /\ ~ ctl.paused
  BY DEF Link
<1> HIDE DEF p, P
<1>4. Head(P) \in Id /\ Of(Tail(P), cp.era) /\ Head(P)[4] = cp.era
  BY <1>1, <1>2, <1>3, OfTail, HeadTailProperties
<1>5. Of(Append(b, Head(P)), cp.era)
  BY <1>1, <1>3, <1>4, OfAppend
<1>6. Append(b, Head(P)) \o Tail(P) = b \o P
  BY <1>1, <1>2, MoveHead
<1>7. mem'[c] = Append(b, Head(P)) /\ Ids(Pend(c)') = Tail(P)
  BY <1>2 DEF p
<1>8. Out(c)' = Out(c)
  BY <1>6, <1>7 DEF Out, P, p
<1>9. cp.msg # "restart"
  BY <1>3, NoneAssumption DEF CtlInv
<1>10. Before(rsp'[c], cp.era + 1)
  BY DEF Link
<1>11. Of(mem'[c], cp.era) /\ Of(Ids(Pend(c)'), cp.era)
  BY <1>4, <1>5, <1>7
<1> QED BY <1>3, <1>8, <1>9, <1>10, <1>11, LinkMoves

\* The pending requests of the channels after a step that changes one of them.
LEMMA PendIs ==
  /\ Pend("inst") = <<>> /\ Pend("scalar") = readBuf /\ Pend("vector") = transPipe \o transWaiting
  /\ Pend("inst")' = <<>> /\ Pend("scalar")' = readBuf' /\ Pend("vector")' = transPipe' \o transWaiting'
  BY DEF Pend

LEMMA SendLinks ==
  ASSUME CUType, CtlInv, LinkInv, ScalarSendRequest \/ VectorSendRequest \/ InsertTransactionToPipeline,
         NEW c \in Channel
  PROVE  Link(c)'
<1>1. /\ readBuf \in Seq(Access) /\ transPipe \in Seq(Access) /\ transWaiting \in Seq(Access)
      /\ mem \in [Channel -> Seq(Id)] /\ Link(c)
  BY DEF CUType, LinkInv
<1>2. CASE ScalarSendRequest
  <2>1. /\ readBuf # <<>> /\ mem' = [mem EXCEPT !["scalar"] = Append(@, Head(readBuf).id)]
        /\ readBuf' = Tail(readBuf)
        /\ UNCHANGED <<transPipe, transWaiting, inFlight, rsp, ctl, cp>>
    BY <1>2 DEF ScalarSendRequest, vmemVars
  <2>2. SameFlags
    BY <2>1 DEF SameFlags
  <2>3. CASE c = "scalar"
    <3>1. mem'[c] = Append(mem[c], Head(Pend(c)).id) /\ Pend(c) # <<>> /\ Pend(c)' = Tail(Pend(c))
      BY <1>1, <2>1, <2>3, PendIs
    <3> QED BY <1>1, <2>1, <2>2, <3>1, SendMoves
  <2>4. CASE c # "scalar"
    <3>1. mem'[c] = mem[c]
      BY <1>1, <2>1, <2>4
    <3>2. Pend(c)' = Pend(c)
      BY <2>1, <2>4, PendIs DEF Channel
    <3> QED BY <1>1, <2>1, <2>2, <3>1, <3>2, LinkSame
  <2> QED BY <2>3, <2>4
<1>3. CASE VectorSendRequest
  <2>1. /\ transPipe # <<>> /\ mem' = [mem EXCEPT !["vector"] = Append(@, Head(transPipe).id)]
        /\ transPipe' = Tail(transPipe)
        /\ UNCHANGED <<readBuf, transWaiting, inFlight, rsp, ctl, cp>>
    BY <1>3 DEF VectorSendRequest
  <2>2. SameFlags
    BY <2>1 DEF SameFlags
  <2>3. CASE c = "vector"
    <3>1. /\ Tail(transPipe \o transWaiting) = Tail(transPipe) \o transWaiting
          /\ Head(transPipe \o transWaiting) = Head(transPipe) /\ transPipe \o transWaiting # <<>>
      BY <1>1, <2>1, TailConcat
    <3>2. Pend(c) = transPipe \o transWaiting /\ Pend(c)' = Tail(transPipe) \o transWaiting
      BY <2>1, <2>3, PendIs
    <3>3. mem'[c] = Append(mem[c], Head(transPipe).id)
      BY <1>1, <2>1, <2>3
    <3>4. mem'[c] = Append(mem[c], Head(Pend(c)).id) /\ Pend(c) # <<>> /\ Pend(c)' = Tail(Pend(c))
      BY <3>1, <3>2, <3>3
    <3> QED BY <1>1, <2>1, <2>2, <3>4, SendMoves
  <2>4. CASE c # "vector"
    <3>1. mem'[c] = mem[c]
      BY <1>1, <2>1, <2>4
    <3>2. Pend(c)' = Pend(c)
      BY <2>1, <2>4, PendIs DEF Channel
    <3> QED BY <1>1, <2>1, <2>2, <3>1, <3>2, LinkSame
  <2> QED BY <2>3, <2>4
<1>4. CASE InsertTransactionToPipeline
  <2>1. /\ transWaiting # <<>> /\ transPipe' = Append(transPipe, Head(transWaiting))
        /\ transWaiting' = Tail(transWaiting)
        /\ UNCHANGED <<readBuf, inFlight, rsp, mem, ctl, cp>>
    BY <1>4 DEF InsertTransactionToPipeline, memVars
  <2>2. Append(transPipe, Head(transWaiting)) \o Tail(transWaiting) = transPipe \o transWaiting
    BY <1>1, <2>1, MoveHead
  <2>3. Pend(c)' = Pend(c)
    BY <2>1, <2>2, PendIs DEF Channel
  <2>4. SameFlags
    BY <2>1 DEF SameFlags
  <2> QED BY <1>1, <2>1, <2>3, <2>4, LinkSame
<1> QED BY <1>2, <1>3, <1>4

\* The accesses of an instruction become requests.
LEMMA PendGrows ==
  ASSUME CUType, CtlInv, NEW c \in Channel, Link(c), SameFlags, NEW t \in Seq(Access), Of(Ids(t), cp.era),
         inFlight'[c] = inFlight[c] \o t, Pend(c)' = Pend(c) \o t, mem'[c] = mem[c], rsp'[c] = rsp[c], ~ ctl.paused
  PROVE  Link(c)'
<1> DEFINE p == Ids(Pend(c))
           s == Ids(t)
           m == mem[c]
           r == rsp[c]
<1>1. r \in Seq(Id) /\ m \in Seq(Id) /\ p \in Seq(Id) /\ Pend(c) \in Seq(Access) /\ s \in Seq(Id) /\ m \o p \in Seq(Id)
  BY LinkTypes, IdsIs
<1>2. Ids(Pend(c)') = p \o s
  BY <1>1, IdsConcat
<1>3. Out(c) = r \o (m \o p) /\ Out(c)' = r \o (m \o (p \o s)) /\ Of(p, cp.era) /\ Of(m, cp.era) /\ Of(s, cp.era)
  BY <1>2 DEF Out, Link
<1> HIDE DEF p, s, m, r
<1>4. r \o (m \o (p \o s)) = (r \o (m \o p)) \o s
  <2>1. m \o (p \o s) = (m \o p) \o s
    <3>1. m \in Seq(Id) /\ p \in Seq(Id) /\ s \in Seq(Id)
      BY <1>1
    <3> QED BY SMTT(30), <3>1, ConcatAssociative
  <2>2. r \o ((m \o p) \o s) = (r \o (m \o p)) \o s
    <3> DEFINE k == m \o p
    <3>1. r \in Seq(Id) /\ k \in Seq(Id) /\ s \in Seq(Id)
      BY <1>1
    <3> HIDE DEF k
    <3>2. r \o (k \o s) = (r \o k) \o s
      BY <3>1, ConcatAssociative
    <3> QED BY <3>2 DEF k
  <2> QED BY <2>1, <2>2
<1>5. Of(p \o s, cp.era)
  BY <1>1, <1>3, OfConcat
<1>6. Out(c)' = Out(c) \o Ids(t) /\ Of(Ids(Pend(c)'), cp.era) /\ Of(mem'[c], cp.era)
  BY <1>2, <1>3, <1>4, <1>5 DEF s, m
<1> QED BY <1>6, LinkGrows

\* A request goes to the memory at once.
LEMMA MemGrows ==
  ASSUME CUType, CtlInv, NEW c \in Channel, Link(c), SameFlags, NEW x \in Access, x.id[4] = cp.era,
         inFlight'[c] = Append(inFlight[c], x), mem'[c] = Append(mem[c], x.id),
         Pend(c) = <<>>, Pend(c)' = <<>>, rsp'[c] = rsp[c], ~ ctl.paused \/ ctl.sending
  PROVE  Link(c)'
<1> DEFINE m == mem[c]
           r == rsp[c]
           y == x.id
<1>1. r \in Seq(Id) /\ m \in Seq(Id) /\ inFlight[c] \in Seq(Access) /\ y \in Id /\ <<x>> \in Seq(Access)
  <2>1. r \in Seq(Id) /\ m \in Seq(Id) /\ inFlight[c] \in Seq(Access)
    BY LinkTypes
  <2>2. y \in Id
    BY DEF Access
  <2>3. <<x>> \in Seq(Access)
    OBVIOUS
  <2> QED BY <2>1, <2>2, <2>3
<1>2. inFlight'[c] = inFlight[c] \o <<x>> /\ Ids(<<x>>) = <<y>>
  <2>1. Append(inFlight[c], x) = inFlight[c] \o <<x>>
    BY <1>1, AppendIsConcat
  <2>2. Ids(<<x>>) = <<y>>
    BY DEF Ids
  <2> QED BY <2>1, <2>2
<1>3. Out(c) = r \o (m \o <<>>) /\ Out(c)' = r \o (Append(m, y) \o <<>>) /\ Of(m, cp.era)
  BY IdsEmpty DEF Out, Link
<1> HIDE DEF m, r, y
<1>4. m \o <<>> = m /\ Append(m, y) \o <<>> = Append(m, y) /\ Append(m, y) \in Seq(Id)
  <2>1. Append(m, y) \in Seq(Id)
    BY <1>1
  <2> QED BY <1>1, <2>1, ConcatEmptySeq
<1>5. r \o Append(m, y) = Append(r \o m, y) /\ Append(r \o m, y) = (r \o m) \o <<y>>
  <2>1. r \o m \in Seq(Id)
    BY <1>1
  <2> QED BY <1>1, <2>1, AppendConcat, AppendIsConcat
<1>6. Out(c)' = Out(c) \o Ids(<<x>>)
  BY <1>2, <1>3, <1>4, <1>5
<1>7. Of(Append(m, y), cp.era)
  BY <1>1, <1>3, OfAppend DEF y
<1>8. Of(Ids(<<x>>), cp.era) /\ Of(<<>>, cp.era)
  <2>1. Of(<<y>>, cp.era)
    BY DEF Of, y
  <2> QED BY <1>2, <2>1, OfEmpty
<1>9. Of(mem'[c], cp.era) /\ Of(Ids(Pend(c)'), cp.era)
  BY <1>7, <1>8, IdsEmpty DEF m, y
<1> QED BY <1>1, <1>2, <1>6, <1>8, <1>9, LinkGrows

LEMMA ExecuteLinks ==
  ASSUME CUType, CtlInv, LinkInv, Executes, NEW c \in Channel
  PROVE  Link(c)'
<1>1. /\ inFlight \in [Channel -> Seq(Access)] /\ transPipe \in Seq(Access) /\ Link(c) /\ cp.era \in Nat
  BY DEF CUType, LinkInv
<1>2. ASSUME NEW v \in Wave, NEW at \in Nat, NEW n \in Nat
      PROVE  Parts(v, at, n) \in Seq(Access) /\ Of(Ids(Parts(v, at, n)), cp.era)
  <2>1. Parts(v, at, n) \in Seq(Access) /\ \A i \in DOMAIN Parts(v, at, n) : Parts(v, at, n)[i].id[4] = cp.era
    BY PartsMade
  <2> QED BY <2>1, IdsIs DEF Of, Ids
<1>3. ASSUME NEW n \in 1 .. MaxTransactions, ExecuteSMEMLoad(n) PROVE Link(c)'
  <2> DEFINE v == stage["scalar"].exec
             at == wf[v].smems + 1
             t == Parts(v, at, n)
  <2>1. /\ ~ ctl.paused /\ v # None /\ readBuf' = readBuf \o t
        /\ inFlight' = [inFlight EXCEPT !["scalar"] = @ \o t]
        /\ UNCHANGED <<transPipe, transWaiting, mem, rsp, ctl, cp>>
    BY <1>3 DEF ExecuteSMEMLoad, Runs, vmemVars
  <2>2. v \in Wave /\ n \in Nat
    <3>1. stage["scalar"] \in [read : Wave \cup {None}, exec : Wave \cup {None}, write : Wave \cup {None}]
      BY DEF CUType, Staged
    <3>2. n \in Nat
      BY LimitAssumption
    <3> QED BY <2>1, <3>1, <3>2
  <2>3. t \in Seq(Access) /\ Of(Ids(t), cp.era)
    <3> HIDE DEF v
    <3>1. wf[v] \in WaveRecord
      BY <2>2 DEF CUType
    <3>2. at \in Nat
      BY <3>1 DEF WaveRecord
    <3> HIDE DEF at
    <3> QED BY <1>2, <2>2, <3>2
  <2> HIDE DEF v, at, t
  <2>4. SameFlags
    BY <2>1 DEF SameFlags
  <2>5. CASE c = "scalar"
    <3>1. inFlight'[c] = inFlight[c] \o t /\ Pend(c)' = Pend(c) \o t
      BY <1>1, <2>1, <2>5, PendIs
    <3> QED BY <1>1, <2>1, <2>3, <2>4, <3>1, PendGrows
  <2>6. CASE c # "scalar"
    <3>1. inFlight'[c] = inFlight[c]
      BY <1>1, <2>1, <2>6
    <3>2. Pend(c)' = Pend(c)
      BY <2>1, <2>6, PendIs DEF Channel
    <3> QED BY <1>1, <2>1, <2>4, <3>1, <3>2, LinkSame
  <2> QED BY <2>5, <2>6
<1>4. ASSUME NEW n \in 0 .. MaxTransactions, ExecuteFlat(n) PROVE Link(c)'
  <2> DEFINE v == Head(instPipe)
             at == wf[v].flats + 1
             t == Parts(v, at, n)
  <2>1. /\ ~ ctl.paused /\ instPipe # <<>> /\ transWaiting = <<>>
        /\ \/ UNCHANGED <<transWaiting, inFlight>>
           \/ transWaiting' = t /\ inFlight' = [inFlight EXCEPT !["vector"] = @ \o t]
        /\ UNCHANGED <<transPipe, readBuf, mem, rsp, ctl, cp>>
    BY <1>4 DEF ExecuteFlat, Runs
  <2>2. v \in Wave /\ n \in Nat
    <3>1. instPipe \in Seq(Wave) /\ n \in Nat
      BY LimitAssumption DEF CUType
    <3> QED BY <2>1, <3>1
  <2>3. t \in Seq(Access) /\ Of(Ids(t), cp.era)
    <3> HIDE DEF v
    <3>1. wf[v] \in WaveRecord
      BY <2>2 DEF CUType
    <3>2. at \in Nat
      BY <3>1 DEF WaveRecord
    <3> HIDE DEF at
    <3> QED BY <1>2, <2>2, <3>2
  <2> HIDE DEF v, at, t
  <2>4. SameFlags
    BY <2>1 DEF SameFlags
  <2>5. CASE c = "vector" /\ transWaiting' = t /\ inFlight' = [inFlight EXCEPT !["vector"] = @ \o t]
    <3>1. transPipe \o transWaiting = transPipe
      BY <1>1, <2>1, ConcatEmptySeq
    <3>2. inFlight'[c] = inFlight[c] \o t
      BY <1>1, <2>5
    <3>3. Pend(c)' = Pend(c) \o t
      BY <2>1, <2>5, <3>1, PendIs
    <3> QED BY <1>1, <2>1, <2>3, <2>4, <3>2, <3>3, PendGrows
  <2>6. CASE c # "vector" \/ UNCHANGED <<transWaiting, inFlight>>
    <3>1. inFlight'[c] = inFlight[c]
      BY <1>1, <2>1, <2>6
    <3>2. Pend(c)' = Pend(c)
      BY <2>1, <2>6, PendIs DEF Channel
    <3> QED BY <1>1, <2>1, <2>4, <3>1, <3>2, LinkSame
  <2> QED BY <2>1, <2>5, <2>6
<1> QED BY <1>3, <1>4 DEF Executes

LEMMA FetchLinks ==
  ASSUME CUType, CtlInv, LinkInv, NEW w \in Wave, DoFetch(w), NEW c \in Channel
  PROVE  Link(c)'
<1> DEFINE start == IF wf[w].buf = <<>> THEN Line(wf[w].pc) ELSE wf[w].start
           at == start + Len(wf[w].buf)
           info == Info(w, at, wf[w].pc, TRUE, cp.era)
<1>1. /\ ~ ctl.paused
      /\ inFlight' = [inFlight EXCEPT !["inst"] = Append(@, info)]
      /\ mem' = [mem EXCEPT !["inst"] = Append(@, info.id)]
      /\ UNCHANGED <<readBuf, transPipe, transWaiting, rsp, ctl, cp>>
  BY DEF DoFetch, SchedulerRuns, pipeVars, vmemVars
<1>2. info \in Access /\ info.id[4] = cp.era
  <2>1. wf[w] \in WaveRecord /\ cp.era \in Nat
    BY DEF CUType
  <2>2. wf[w].pc \in Nat \ {0} /\ wf[w].buf \in Seq(Nat) /\ wf[w].start \in Nat
    BY <2>1 DEF WaveRecord
  <2>3. Line(wf[w].pc) \in Nat /\ Len(wf[w].buf) \in Nat
    BY <2>2, LineType
  <2>4. at \in Nat
    BY <2>2, <2>3
  <2> HIDE DEF at
  <2>5. info \in Access
    BY <2>1, <2>2, <2>4, InfoType
  <2>6. info.id[4] = cp.era
    BY DEF Info
  <2> QED BY <2>5, <2>6
<1> HIDE DEF info
<1>3. SameFlags /\ Pend(c)' = Pend(c) /\ Link(c) /\ inFlight \in [Channel -> Seq(Access)] /\ mem \in [Channel -> Seq(Id)]
  BY <1>1, PendIs DEF SameFlags, Channel, LinkInv, CUType
<1>4. CASE c = "inst"
  <2>1. inFlight'[c] = Append(inFlight[c], info) /\ mem'[c] = Append(mem[c], info.id)
    BY <1>1, <1>3, <1>4
  <2>2. Pend(c) = <<>>
    BY <1>4, PendIs
  <2> QED BY <1>1, <1>2, <1>3, <2>1, <2>2, MemGrows
<1>5. CASE c # "inst"
  <2>1. inFlight'[c] = inFlight[c] /\ mem'[c] = mem[c]
    BY <1>1, <1>3, <1>5
  <2> QED BY <1>1, <1>3, <2>1, LinkSame
<1> QED BY <1>4, <1>5

LEMMA SendShadowLinks ==
  ASSUME CUType, CUType', CtlInv, LinkInv, NEW d \in Channel, SendShadowBufferAccess(d), NEW c \in Channel
  PROVE  Link(c)'
<1> DEFINE old == Head(shadow[d])
           info == [old EXCEPT !.id[4] = cp.era]
<1>1. /\ ctl.sending /\ shadow[d] # <<>>
      /\ inFlight' = [inFlight EXCEPT ![d] = Append(@, info)]
      /\ mem' = [mem EXCEPT ![d] = Append(@, info.id)]
      /\ UNCHANGED <<readBuf, transPipe, transWaiting, rsp, ctl, cp>>
  BY DEF SendShadowBufferAccess, pipeVars, vmemVars
<1>2. old \in Access /\ cp.era \in Nat /\ old.id \in Id
  <2>1. shadow[d] \in Seq(Access) /\ cp.era \in Nat
    BY DEF CUType
  <2>2. old \in Access
    BY <1>1, <2>1, HeadTailProperties
  <2> QED BY <2>1, <2>2 DEF Access
<1> HIDE DEF old
<1>3. info \in Access /\ info.id[4] = cp.era
  <2> DEFINE i == [old.id EXCEPT ![4] = cp.era]
  <2>1. i \in Id /\ i[4] = cp.era
    BY <1>2 DEF Id
  <2>2. info = [old EXCEPT !.id = i]
    BY <1>2 DEF Access
  <2> HIDE DEF i
  <2>3. [old EXCEPT !.id = i] \in Access /\ [old EXCEPT !.id = i].id = i
    BY <1>2, <2>1 DEF Access
  <2> QED BY <2>1, <2>2, <2>3
<1> HIDE DEF info
<1>4. SameFlags /\ Pend(c)' = Pend(c) /\ Link(c) /\ inFlight \in [Channel -> Seq(Access)] /\ mem \in [Channel -> Seq(Id)]
  <2>1. SameFlags /\ Link(c) /\ inFlight \in [Channel -> Seq(Access)] /\ mem \in [Channel -> Seq(Id)]
    BY <1>1 DEF SameFlags, LinkInv, CUType
  <2>2. Pend(c)' = Pend(c)
    BY <1>1, PendIs DEF Channel
  <2> QED BY <2>1, <2>2
<1>5. CASE c = d
  <2>1. inFlight'[c] = Append(inFlight[c], info) /\ mem'[c] = Append(mem[c], info.id)
    BY <1>1, <1>4, <1>5
  <2>2. ctl.paused
    BY <1>1 DEF CtlInv
  <2>3. Pend(c) = <<>>
    BY <1>4, <2>2 DEF Link
  <2> QED BY <1>1, <1>3, <1>4, <2>1, <2>3, MemGrows
<1>6. CASE c # d
  <2>1. inFlight'[c] = inFlight[c] /\ mem'[c] = mem[c]
    BY <1>1, <1>4, <1>6
  <2> QED BY <1>1, <1>4, <2>1, LinkSame
<1> QED BY <1>5, <1>6

LEMMA AnswerLinks ==
  ASSUME CUType, CtlInv, LinkInv, NEW d \in Channel, ProcessInputFromMem(d), NEW c \in Channel
  PROVE  Link(c)'
<1>1. /\ ~ ctl.paused \/ ctl.sending
      /\ rsp[d] # <<>> /\ rsp' = [rsp EXCEPT ![d] = Tail(@)]
      /\ IF Answers(d) THEN inFlight' = [inFlight EXCEPT ![d] = Tail(@)] ELSE UNCHANGED inFlight
      /\ UNCHANGED <<readBuf, transPipe, transWaiting, mem, ctl, cp>>
  BY DEF ProcessInputFromMem, TakesInput, pipeVars, vmemVars
<1>2. SameFlags /\ Pend(c)' = Pend(c) /\ Link(c) /\ inFlight \in [Channel -> Seq(Access)] /\ rsp \in [Channel -> Seq(Id)]
  BY <1>1, PendIs DEF SameFlags, Channel, LinkInv, CUType
<1>3. CASE c = d
  <2>1. rsp'[c] = Tail(rsp[c]) /\ inFlight'[c] = IF Answers(c) THEN Tail(inFlight[c]) ELSE inFlight[c]
    BY <1>1, <1>2, <1>3
  <2> QED BY <1>1, <1>2, <1>3, <2>1, LinkTaken
<1>4. CASE c # d
  <2>1. inFlight'[c] = inFlight[c] /\ rsp'[c] = rsp[c]
    BY <1>1, <1>2, <1>4
  <2> QED BY <1>1, <1>2, <2>1, LinkSame
<1> QED BY <1>3, <1>4

LEMMA OutIs ==
  ASSUME CUType, NEW c \in Channel, mem[c] = <<>>, Pend(c) = <<>>
  PROVE  Out(c) = rsp[c]
<1>1. Out(c) = rsp[c] \o (<<>> \o <<>>) /\ rsp[c] \in Seq(Id) /\ <<>> \in Seq(Id)
  BY IdsEmpty, LinkTypes DEF Out
<1>2. <<>> \o <<>> = <<>> /\ rsp[c] \o <<>> = rsp[c]
  BY <1>1, ConcatEmptySeq
<1> QED BY <1>1, <1>2

LEMMA ProtocolLinks ==
  ASSUME CUType, CUType', CtlInv, LinkInv, ProtocolStep, NEW c \in Channel
  PROVE  Link(c)'
<1>1. ctl \in CtlType /\ cp \in CpType /\ Link(c) /\ rsp[c] \in Seq(Id) /\ cp.era \in Nat
  BY DEF CUType, CtlType, CpType, LinkInv
<1>2. None \notin {"flush", "restart", "flushed", "restarted"}
  BY NoneAssumption
<1>3. ASSUME UNCHANGED <<readBuf, transPipe, transWaiting>> PROVE Pend(c)' = Pend(c)
  BY <1>3, PendIs DEF Channel
<1>4. ASSUME UNCHANGED <<inFlight, mem, rsp>>, Pend(c)' = Pend(c) PROVE Out(c)' = Out(c)
  BY <1>4 DEF Out
<1>5. CASE ProcessInputFromCP
  <2>1. UNCHANGED <<inFlight, mem, rsp, readBuf, transPipe, transWaiting>>
    BY <1>5 DEF ProcessInputFromCP, memVars, pipeVars, vmemVars
  <2>2. Pend(c)' = Pend(c) /\ Out(c)' = Out(c)
    BY <1>3, <1>4, <2>1
  <2>3. CASE cp.msg = "flush"
    <3>1. /\ ctl'.paused = ctl.paused /\ ctl'.sending = ctl.sending /\ ctl'.flushing
          /\ cp'.msg = None /\ cp'.era = cp.era
      BY <1>1, <1>5, <2>3 DEF ProcessInputFromCP, CtlType, CpType
    <3> QED BY <1>1, <1>2, <2>1, <2>2, <3>1 DEF Link
  <2>4. CASE cp.msg = "restart"
    <3>1. /\ ctl'.paused = ctl.paused /\ ctl'.sending /\ ctl'.flushing = ctl.flushing
          /\ cp'.msg = None /\ cp'.era = cp.era
      BY <1>1, <1>2, <1>5, <2>4 DEF ProcessInputFromCP, CtlType, CpType
    <3>2. ctl.paused /\ ~ ctl.sending /\ ~ ctl.flushing
      BY <1>2, <2>4 DEF CtlInv
    <3>3. Pend(c) = <<>> /\ mem[c] = <<>> /\ inFlight[c] = <<>> /\ Before(rsp[c], cp.era)
      BY <1>1, <2>4, <3>2 DEF Link
    <3>4. Linked(rsp[c], <<>>, cp.era)
      BY <1>1, <3>3, LinkedStart
    <3>5. Linked(Out(c)', Ids(inFlight'[c]), cp'.era)
      BY <2>1, <2>2, <3>1, <3>3, <3>4, OutIs, IdsEmpty
    <3> QED BY <1>1, <1>2, <2>1, <2>2, <3>1, <3>5 DEF Link
  <2> QED BY <1>1, <1>5, <2>3, <2>4 DEF ProcessInputFromCP, CpType
<1>6. CASE DoFlush
  <2>1. UNCHANGED <<mem, rsp>> /\ ctl.flushing
    BY <1>6 DEF DoFlush
  <2>2. cp.msg = None
    BY <2>1 DEF CtlInv
  <2>3. CASE ctl.handling
    <3>1. /\ ctl.sending /\ ctl'.paused = ctl.paused /\ ~ ctl'.sending /\ ctl'.flushing
          /\ UNCHANGED <<readBuf, transPipe, transWaiting, cp>>
      BY <1>1, <1>6, <2>3 DEF DoFlush, CtlType, pipeVars, vmemVars
    <3>2. ctl.paused
      BY <2>1, <3>1 DEF CtlInv
    <3>3. Pend(c)' = Pend(c)
      BY <1>3, <3>1
    <3> QED BY <1>1, <1>2, <2>1, <2>2, <3>1, <3>2, <3>3 DEF Link
  <2>4. CASE ~ ctl.handling
    <3>0. /\ inFlight'[c] = <<>> /\ readBuf' = <<>> /\ transPipe' = <<>> /\ transWaiting' = <<>>
          /\ ctl' = [ctl EXCEPT !.sending = FALSE, !.flushing = FALSE, !.paused = TRUE]
          /\ cp' = [cp EXCEPT !.answer = "flushed"]
      BY <1>6, <2>4 DEF DoFlush
    <3>1. /\ ctl'.paused /\ ~ ctl'.sending /\ ~ ctl'.flushing
          /\ cp'.msg = cp.msg /\ cp'.era = cp.era
      <4>1. ctl'.paused /\ ~ ctl'.sending /\ ~ ctl'.flushing
        BY <1>1, <3>0 DEF CtlType
      <4>2. cp'.msg = cp.msg /\ cp'.era = cp.era
        BY <1>1, <3>0 DEF CpType
      <4> QED BY <4>1, <4>2
    <3>2. Pend(c)' = <<>>
      <4>1. <<>> \o <<>> = <<>>
        OBVIOUS
      <4> QED BY <3>0, <4>1, PendIs DEF Channel
    <3>3. Of(Ids(Pend(c)'), cp'.era)
      BY <3>2, IdsEmpty, OfEmpty
    <3> QED BY <1>1, <1>2, <2>1, <2>2, <3>0, <3>1, <3>2, <3>3 DEF Link
  <2> QED BY <2>3, <2>4
<1>7. CASE CheckShadowBuffers
  <2>1. /\ UNCHANGED <<inFlight, mem, rsp, readBuf, transPipe, transWaiting, cp>>
        /\ ctl.sending /\ ~ ctl'.paused
    BY <1>1, <1>7 DEF CheckShadowBuffers, memVars, pipeVars, vmemVars, CtlType
  <2>2. Pend(c)' = Pend(c) /\ Out(c)' = Out(c)
    BY <1>3, <1>4, <2>1
  <2> QED BY <1>1, <2>1, <2>2 DEF Link
<1>8. CASE SendFlush \/ Restarted
  <2>1. /\ UNCHANGED <<inFlight, mem, rsp, readBuf, transPipe, transWaiting, ctl>>
        /\ cp'.era = cp.era /\ cp'.msg \in {cp.msg, "flush"}
    BY <1>1, <1>8 DEF SendFlush, Restarted, memVars, pipeVars, vmemVars, CpType
  <2>2. Pend(c)' = Pend(c) /\ Out(c)' = Out(c)
    BY <1>3, <1>4, <2>1
  <2> QED BY <1>1, <2>1, <2>2 DEF Link
<1>9. CASE FlushBelow
  <2>1. /\ UNCHANGED <<inFlight, rsp, readBuf, transPipe, transWaiting, ctl>> /\ mem'[c] = <<>>
        /\ cp'.era = cp.era + 1 /\ cp.answer = "flushed"
    BY <1>1, <1>9 DEF FlushBelow, pipeVars, vmemVars, CpType
  <2>2. ctl.paused /\ ~ ctl.sending /\ ~ ctl.flushing
    BY <1>2, <2>1 DEF CtlInv
  <2>3. Pend(c)' = <<>> /\ inFlight'[c] = <<>> /\ Before(rsp'[c], cp.era + 1)
    BY <1>1, <1>3, <2>1, <2>2 DEF Link
  <2>4. Before(rsp'[c], (cp.era + 1) + 1)
    <3>1. \A i \in DOMAIN rsp[c] : rsp[c][i][4] \in Nat
      BY <1>1 DEF Id
    <3> QED BY <1>1, <2>1, <2>3, <3>1 DEF Before
  <2>5. Of(mem'[c], cp'.era) /\ Of(Ids(Pend(c)'), cp'.era)
    BY <2>1, <2>3, OfEmpty, IdsEmpty
  <2> QED BY <2>1, <2>2, <2>3, <2>4, <2>5 DEF Link
<1> QED BY <1>5, <1>6, <1>7, <1>8, <1>9 DEF ProtocolStep

LEMMA LinkStep ==
  ASSUME CUType, CUType', CtlInv, LinkInv, [Next]_vars
  PROVE  LinkInv'
<1> SUFFICES ASSUME NEW c \in Channel PROVE Link(c)'
  BY DEF LinkInv
<1>1. CASE ProtocolStep
  BY <1>1, ProtocolLinks
<1>2. CASE Executes \/ ScalarSendRequest \/ VectorSendRequest \/ InsertTransactionToPipeline
  BY <1>2, ExecuteLinks, SendLinks
<1>3. CASE (\E w \in Wave : DoFetch(w)) \/ MemStep \/ \E d \in Channel : SendShadowBufferAccess(d)
  BY <1>3, FetchLinks, AnswerLinks, MemReplyLinks, SendShadowLinks DEF MemStep
<1>4. ASSUME UNCHANGED <<inFlight, mem, rsp, readBuf, transPipe, transWaiting>>, ~ ProtocolStep PROVE Link(c)'
  <2>1. Pend(c)' = Pend(c)
    BY <1>4, PendIs DEF Channel
  <2> QED BY <1>4, <2>1, FlagsStay, LinkSame DEF LinkInv
<1>5. CASE SchedulerStep /\ ~ ProtocolStep /\ \A w \in Wave : ~ DoFetch(w)
  <2>1. UNCHANGED <<inFlight, mem, rsp, readBuf, transPipe, transWaiting>>
    BY <1>5 DEF SchedulerStep, EvaluateInternalInst, DecodeNextInst, Issue, memVars, pipeVars, vmemVars
  <2> QED BY <1>4, <1>5, <2>1
<1>6. CASE /\ UnitStep /\ ~ ProtocolStep /\ ~ Executes
           /\ ~ ScalarSendRequest /\ ~ VectorSendRequest /\ ~ InsertTransactionToPipeline
  <2>1. UNCHANGED <<inFlight, mem, rsp, readBuf, transPipe, transWaiting>>
    BY <1>6 DEF Executes, UnitStep, DecodeScalar, DecodeLDS, DecodeVector, DecodeVMem, RunReadStage,
           RunExecStage, RunWriteStage, BranchWriteStage, SIMDExec, memVars, vmemVars
  <2> QED BY <1>4, <1>6, <2>1
<1>7. CASE /\ ~ ProtocolStep
           /\ \/ \E g \in Group : HandleMapWGReq(g)
              \/ EnableSampled \/ SampleStep \/ CompletionStep \/ UNCHANGED vars
  <2>1. UNCHANGED <<inFlight, mem, rsp, readBuf, transPipe, transWaiting>>
    BY <1>7 DEF HandleMapWGReq, EnableSampled, SampleStep, StopTimeModel, SampledWfCompleted,
           CompletionStep, Report, HandleWfCompletionEvent, vars, memVars, pipeVars, vmemVars
  <2> QED BY <1>4, <1>7, <2>1
<1> QED BY <1>1, <1>2, <1>3, <1>5, <1>6, <1>7 DEF Next, FlushStep, ProtocolStep

-----------------------------------------------------------------------------
(* The theorem on the accesses and their requests.                         *)

MatchInv == CoreInv /\ CtlInv /\ ShadowInv /\ CountInv /\ LinkInv

LEMMA InitMatch ==
  ASSUME Init
  PROVE  MatchInv
<1>1. CoreInv /\ CtlInv /\ ShadowInv /\ CountInv
  BY InitCore, InitCount
<1>2. /\ \A c \in Channel : inFlight[c] = <<>> /\ mem[c] = <<>> /\ rsp[c] = <<>>
      /\ readBuf = <<>> /\ transPipe = <<>> /\ transWaiting = <<>> /\ ~ ctl.paused /\ cp.msg = None
  BY DEF Init
<1>3. ASSUME NEW c \in Channel PROVE Link(c)
  <2>1. Pend(c) = <<>>
    <3>1. <<>> \o <<>> = <<>>
      OBVIOUS
    <3> QED BY <1>2, <3>1, PendIs DEF Channel
  <2>2. Out(c) = <<>>
    BY <1>1, <1>2, <2>1, OutIs DEF CoreInv
  <2>3. Linked(<<>>, <<>>, cp.era)
    <3>1. <<>> \in Seq(Id)
      OBVIOUS
    <3> QED BY <3>1, OfEmpty, LinkedStart
  <2> QED BY <1>2, <2>1, <2>2, <2>3, OfEmpty, IdsEmpty, NoneAssumption DEF Link
<1> QED BY <1>1, <1>3 DEF MatchInv, LinkInv

LEMMA MatchStep ==
  ASSUME MatchInv, VectorRoom, BarrierRoom, [Next]_vars
  PROVE  MatchInv'
<1>1. CoreInv' /\ CtlInv' /\ ShadowInv' /\ CountInv'
  BY CountedStep DEF MatchInv
<1>2. LinkInv'
  BY <1>1, LinkStep DEF MatchInv, CoreInv
<1> QED BY <1>1, <1>2 DEF MatchInv

\* A request that is linked is under way.
LEMMA OutUnderWay ==
  ASSUME CUType, NEW c \in Channel, NEW id, In(Out(c), id)
  PROVE  UnderWay(c, id)
<1> DEFINE P == Ids(Pend(c))
<1>1. rsp[c] \in Seq(Id) /\ mem[c] \in Seq(Id) /\ Pend(c) \in Seq(Access) /\ P \in Seq(Id) /\ mem[c] \o P \in Seq(Id)
  BY LinkTypes
<1>2. Out(c) = rsp[c] \o (mem[c] \o P)
  BY DEF Out
<1> HIDE DEF P
<1>3. In(rsp[c], id) \/ In(mem[c], id) \/ In(P, id)
  <2> DEFINE M == mem[c]
  <2> DEFINE R == rsp[c]
  <2> DEFINE K == M \o P
  <2>1. M \in Seq(Id) /\ R \in Seq(Id) /\ P \in Seq(Id) /\ K \in Seq(Id)
    BY <1>1
  <2>2. In(R \o K, id)
    BY <1>2
  <2> HIDE DEF K
  <2>3. In(R, id) \/ In(K, id)
    BY <2>1, <2>2, InConcat
  <2>4. In(K, id) => In(M, id) \/ In(P, id)
    BY <2>1, InConcat DEF K
  <2> QED BY <2>3, <2>4
<1>4. CASE In(rsp[c], id) \/ In(mem[c], id)
  <2>1. In(mem[c] \o rsp[c], id)
    BY <1>1, <1>4, InConcat
  <2> QED BY <2>1 DEF In, UnderWay
<1>5. CASE In(P, id)
  <2>1. PICK i \in DOMAIN Pend(c) : Pend(c)[i].id = id
    BY <1>5 DEF P, In, Ids
  <2>2. In(Pend(c), Pend(c)[i])
    BY <2>1 DEF In
  <2>3. readBuf \in Seq(Access) /\ transWaiting \in Seq(Access) /\ transPipe \in Seq(Access)
    BY DEF CUType
  <2>4. readBuf \o transWaiting \in Seq(Access)
    BY <2>3, ConcatProperties
  <2>5. \A x : In(Pend(c), x) => In(readBuf, x) \/ In(transWaiting, x) \/ In(transPipe, x)
    <3>1. \A x : In(transPipe \o transWaiting, x) => In(transPipe, x) \/ In(transWaiting, x)
      BY <2>3, InConcat
    <3> QED BY <3>1, EmptyIn, PendIs DEF Channel
  <2>6. In((readBuf \o transWaiting) \o transPipe, Pend(c)[i])
    BY <2>2, <2>3, <2>4, <2>5, InConcat
  <2> QED BY <2>1, <2>6 DEF In, UnderWay
<1> QED BY <1>3, <1>4, <1>5

LEMMA MatchIs ==
  ASSUME MatchInv
  PROVE  OutstandingMatch
<1>1. CountsMatch /\ CUType /\ CtlInv
  BY Counted DEF MatchInv, CoreInv
<1>2. ASSUME NEW c \in Channel, ~ ctl.flushing, NEW i \in DOMAIN inFlight[c]
      PROVE  UnderWay(c, inFlight[c][i].id)
  <2>1. Link(c) /\ Out(c) \in Seq(Id) /\ Ids(inFlight[c]) \in Seq(Id) /\ cp.era \in Nat
    BY <1>1, LinkTypes DEF MatchInv, LinkInv
  <2>2. inFlight[c] # <<>>
    BY <1>2
  <2>3. Linked(Out(c), Ids(inFlight[c]), cp.era)
    BY <1>2, <2>1, <2>2 DEF Link
  <2>4. i \in DOMAIN Ids(inFlight[c]) /\ Ids(inFlight[c])[i] = inFlight[c][i].id
    BY DEF Ids
  <2>5. In(Out(c), inFlight[c][i].id)
    BY <2>1, <2>3, <2>4, LinkedIn
  <2> QED BY <1>1, <2>5, OutUnderWay
<1>3. ASSUME NEW c \in Channel, cp.phase # "flush", NEW i \in DOMAIN mem[c]
      PROVE  WaitedFor(c, mem[c][i])
  <2> DEFINE P == Ids(Pend(c))
  <2>1. /\ Link(c) /\ Out(c) \in Seq(Id) /\ Ids(inFlight[c]) \in Seq(Id) /\ cp.era \in Nat
        /\ rsp[c] \in Seq(Id) /\ mem[c] \in Seq(Id) /\ P \in Seq(Id) /\ mem[c] \o P \in Seq(Id)
    BY <1>1, LinkTypes DEF MatchInv, LinkInv
  <2>2. ~ ctl.paused \/ ctl.sending
    <3>1. cp.msg # "restart"
      BY <1>3, <2>1 DEF Link
    <3> QED BY <1>1, <1>3, <3>1 DEF CtlInv
  <2>3. Linked(Out(c), Ids(inFlight[c]), cp.era)
    BY <2>1, <2>2 DEF Link
  <2>4. In(Out(c), mem[c][i])
    <3> HIDE DEF P
    <3>1. In(mem[c], mem[c][i])
      BY DEF In
    <3>2. In(mem[c] \o P, mem[c][i])
      BY <2>1, <3>1, InConcat
    <3>3. In(rsp[c] \o (mem[c] \o P), mem[c][i])
      BY <2>1, <3>2, InConcat
    <3> QED BY <3>3 DEF Out, P
  <2>5. mem[c][i][4] = cp.era
    BY <2>1 DEF Link, Of
  <2>6. In(Ids(inFlight[c]), mem[c][i])
    BY <2>1, <2>3, <2>4, <2>5, LinkedIn DEF In
  <2> QED BY <2>6 DEF In, Ids, WaitedFor
<1> QED BY <1>1, <1>2, <1>3 DEF OutstandingMatch, CountsMatch

\* The counters that the scheduler reads count the instructions whose accesses
\* are under way, through flushes, shadow buffers and restarts; every access
\* waited for has its request under way, and every request at a memory has an
\* access that waits for it: processInputFromMem, flushPipeline,
\* sendOutShadowBufferReqs.
THEOREM OutstandingMatchHolds == Spec /\ [](VectorRoom /\ BarrierRoom) => []OutstandingMatch
<1>1. Init => MatchInv
  BY InitMatch
<1>2. MatchInv /\ (VectorRoom /\ BarrierRoom) /\ [Next]_vars => MatchInv'
  BY MatchStep
<1>3. MatchInv => OutstandingMatch
  BY MatchIs
<1> QED BY <1>1, <1>2, <1>3, PTL DEF Spec

=============================================================================
