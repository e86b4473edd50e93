------------------------------ MODULE CUResource ------------------------------
(***************************************************************************)
(* The resources of a compute unit as a dispatcher books them              *)
(* (timing/cp/internal/resource): scalar registers, local data share, the  *)
(* vector registers and the wavefront slots of every SIMD.                 *)
(*                                                                         *)
(* A mask is the set of its units that are not free.  The status           *)
(* "to reserve" of a unit lasts for one call of ReserveResourceForWG: it   *)
(* counts as taken inside the call and is free again when the call fails.  *)
(*                                                                         *)
(* A kernel's shape gives the waves of a work-group and the units a wave   *)
(* (of a register file) or the whole group (of the local data share) needs.*)
(***************************************************************************)
EXTENDS Integers, Sequences, FiniteSets

CONSTANTS
  NumSIMD,     \* SIMDs of a compute unit
  SRegUnits,   \* units of the scalar register file
  LDSUnits,    \* units of the local data share
  VRegUnits,   \* units of the vector register file of a SIMD
  WfPoolSize   \* wavefront slots of a SIMD

ASSUME UnitsAssumption ==
  /\ NumSIMD \in Nat \ {0}
  /\ {SRegUnits, LDSUnits, VRegUnits, WfPoolSize} \subseteq Nat

SIMD == 0 .. NumSIMD - 1

Region(offset, length) == offset .. offset + length - 1

IsFree(mask, size, length, o) ==
  /\ o + length <= size
  /\ \A u \in Region(o, length) : u \notin mask

\* The offset of the first region, if there is one; a region of length 0 is
\* at 0, taken or not.
NextRegion(mask, size, length) ==
  IF length = 0 THEN {0}
  ELSE {o \in 0 .. size :
          /\ IsFree(mask, size, length, o)
          /\ \A p \in 0 .. o - 1 : ~ IsFree(mask, size, length, p)}

EmptyCU ==
  [sregMask |-> {}, ldsMask |-> {}, vregMasks |-> [s \in SIMD |-> {}],
   wfPoolFreeCount |-> [s \in SIMD |-> WfPoolSize],
   nextSIMD |-> 0, reservedWGs |-> [w \in {} |-> <<>>]]

\* withinSGPRLimitation: a region of scalar registers for every wave in turn.
\* The set holds the mask and the offsets, or is empty if they do not fit.
SGPRs(cu, shape) ==
  LET take[i \in 0 .. shape.waves] ==
        IF i = 0 THEN {[mask |-> cu.sregMask, at |-> <<>>]}
        ELSE UNION {{[mask |-> st.mask \cup Region(o, shape.sregs),
                      at   |-> Append(st.at, o)] :
                       o \in NextRegion(st.mask, SRegUnits, shape.sregs)} :
                    st \in take[i - 1]}
  IN  take[shape.waves]

\* mutant: a wave tries one SIMD only
TriesOne == {0}

\* how many SIMDs after nextSIMD a wave looks for a place
Tries == 0 .. NumSIMD - 1

\* The j-th SIMD that a wave looks at, after the waves of st, and where it has
\* a slot and a region for the wave.
SIMDAt(st, j) == (st.next + j) % NumSIMD

Gaps(cu, shape, st, j) ==
  IF cu.wfPoolFreeCount[SIMDAt(st, j)] > st.used[SIMDAt(st, j)]
    THEN NextRegion(st.masks[SIMDAt(st, j)], VRegUnits, shape.vregs)
    ELSE {}

Seat(shape, st, s, o) ==
  [masks |-> [st.masks EXCEPT ![s] = @ \cup Region(o, shape.vregs)],
   used  |-> [st.used EXCEPT ![s] = @ + 1],
   next  |-> (s + 1) % NumSIMD,
   at    |-> Append(st.at, [SIMDID |-> s, VGPR |-> o])]

\* A wave goes to the first SIMD, from nextSIMD on, that has a place for it.
WaveSeats(cu, shape, st) ==
  UNION {{Seat(shape, st, SIMDAt(st, j), o) : o \in Gaps(cu, shape, st, j)} :
         j \in {n \in Tries : \A i \in 0 .. n - 1 : Gaps(cu, shape, st, i) = {}}}

\* matchWfWithSIMDs: the waves in turn.  A wave that finds no place changes
\* nothing, so that the waves after it find none either; but nextSIMD stays
\* where it is by then.
MatchWfWithSIMDs(cu, shape) ==
  LET put[i \in 0 .. shape.waves] ==
        IF i = 0
          THEN {[masks |-> cu.vregMasks, used |-> [s \in SIMD |-> 0],
                 next |-> cu.nextSIMD, at |-> <<>>]}
          ELSE UNION {IF WaveSeats(cu, shape, st) = {} THEN {st}
                      ELSE WaveSeats(cu, shape, st) : st \in put[i - 1]}
  IN  put[shape.waves]

\* mutant: a refused work-group keeps the vector registers it was to get
RefusedKeepsVGPRs(cu, simds) ==
  [cu EXCEPT !.vregMasks = simds.masks, !.nextSIMD = simds.next]

\* clearTempReservation
Refused(cu, simds) == [cu EXCEPT !.nextSIMD = simds.next]

\* reserveResources
Reserved(cu, wg, shape, sgprs, lds, simds) ==
  [sregMask  |-> sgprs.mask,
   ldsMask   |-> cu.ldsMask \cup Region(lds, shape.lds),
   vregMasks |-> simds.masks,
   wfPoolFreeCount |->
     [s \in SIMD |-> cu.wfPoolFreeCount[s] - simds.used[s]],
   nextSIMD  |-> simds.next,
   reservedWGs |->
     [w \in DOMAIN cu.reservedWGs \cup {wg} |->
        IF w # wg THEN cu.reservedWGs[w]
        ELSE [i \in 1 .. shape.waves |->
                [SIMDID |-> simds.at[i].SIMDID, VGPR |-> simds.at[i].VGPR,
                 SGPR |-> sgprs.at[i], LDS |-> lds]]]]

\* ReserveResourceForWG: whether the group fits, and the compute unit after.
ReserveResourceForWG(cu, wg, shape) ==
  CHOOSE r \in
    IF \/ SGPRs(cu, shape) = {}
       \/ NextRegion(cu.ldsMask, LDSUnits, shape.lds) = {}
      THEN {[ok |-> FALSE, cu |-> cu]}
      ELSE {IF Len(simds.at) < shape.waves
              THEN [ok |-> FALSE, cu |-> Refused(cu, simds)]
              ELSE [ok |-> TRUE,
                    cu |-> Reserved(cu, wg, shape, sgprs, lds, simds)] :
              sgprs \in SGPRs(cu, shape),
              lds \in NextRegion(cu.ldsMask, LDSUnits, shape.lds),
              simds \in MatchWfWithSIMDs(cu, shape)} : TRUE

OnSIMD(locations, s) == {i \in DOMAIN locations : locations[i].SIMDID = s}

FreeResourcesForWG(cu, wg, shape) ==
  LET locations == cu.reservedWGs[wg]
  IN  [cu EXCEPT
         !.sregMask = @ \ UNION {Region(locations[i].SGPR, shape.sregs) :
                                   i \in DOMAIN locations},
         !.ldsMask = @ \ Region(locations[1].LDS, shape.lds),
         !.vregMasks = [s \in SIMD |->
            cu.vregMasks[s] \ UNION {Region(locations[i].VGPR, shape.vregs) :
                                       i \in OnSIMD(locations, s)}],
         !.wfPoolFreeCount = [s \in SIMD |->
            cu.wfPoolFreeCount[s] + Cardinality(OnSIMD(locations, s))],
         !.reservedWGs = [w \in DOMAIN @ \ {wg} |-> @[w]]]

-----------------------------------------------------------------------------
(* What a mask promises, defined without a search order.                   *)

\* Regions of this length that are free side by side, at most n of them.
Room(mask, size, length, n) ==
  IF length = 0 THEN n
  ELSE LET sets == {R \in SUBSET {o \in 0 .. size :
                                     IsFree(mask, size, length, o)} :
                      /\ Cardinality(R) <= n
                      /\ \A o, p \in R : o < p => o + length <= p}
       IN  CHOOSE m \in 0 .. n :
             /\ \E R \in sets : Cardinality(R) = m
             /\ \A R \in sets : Cardinality(R) <= m

\* Some way to place a work-group of this shape exists.
CanHold(cu, shape) ==
  /\ Room(cu.sregMask, SRegUnits, shape.sregs, shape.waves) = shape.waves
  /\ Room(cu.ldsMask, LDSUnits, shape.lds, 1) = 1
  /\ \E share \in [SIMD -> 0 .. shape.waves] :
       /\ \A s \in SIMD :
            /\ share[s] <= cu.wfPoolFreeCount[s]
            /\ share[s] <= Room(cu.vregMasks[s], VRegUnits, shape.vregs,
                                shape.waves)
       /\ \E order \in [1 .. shape.waves -> SIMD] :
            \A s \in SIMD :
              share[s] = Cardinality({i \in 1 .. shape.waves : order[i] = s})
=============================================================================
