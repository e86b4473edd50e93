------------------------------ MODULE Sampling ------------------------------
(***************************************************************************)
(* The engines of sampled simulation (samples/sampledrunner).  The branch  *)
(* engine measures the basic blocks of the waves that are simulated in     *)
(* detail and switches detail off once blocks that make up enough of the   *)
(* kernel have stable times.  From then on the time engine holds the       *)
(* predicted ends of the waves in a heap and completes each at its time.   *)
(* The IPC engine counts the instructions of a sliding window of cycles.   *)
(*                                                                         *)
(* Times are whole cycles; the quotients of the code are rounded down.     *)
(***************************************************************************)
EXTENDS Integers, Sequences, FiniteSets, FiniteSetsExt, Functions, SequencesExt

CONSTANTS
  Wave, Block,
  Early,           \* the waves that may start before sampling does (a bound)
  Rate,            \* share of each block in the instructions of the kernel, in percent
  ModelTime,       \* time of a block by the interval model
  Coverage,        \* BranchSampledThresholdFlag, in percent
  Boundary,        \* how far from 1 the rate of a stable window is, in percent
  Granulary,       \* length of the long window; the short one is half of it
  Discard,         \* data that an engine leaves out (1024 in the code)
  Ring,            \* cycles of the window of the IPC engine (3000 in the code)
  PeakInsts,       \* instructions of a cycle (a bound)
  Activated,       \* largest number of waves that ran at the same time
  MaxTime,         \* (a bound)
  Modes            \* what an execution exercises: "waves", "ipc"

ASSUME GranularyAssumption == Granulary \in Nat /\ Granulary \div 2 # 0 /\ Ring \in Nat \ {0}
ASSUME BlockAssumption == IsFiniteSet(Block) /\ Rate \in [Block -> Nat]
ASSUME CoverageAssumption == Coverage \in Nat \ {0} /\ Boundary \in Nat
ASSUME TimeAssumption == ModelTime \in Nat /\ MaxTime \in Nat /\ PeakInsts \in Nat
ASSUME ActivatedAssumption == Activated \in Nat \ {0}

VARIABLES
  mode, now,
  engines,     \* the sampled engine of every block
  branch,      \* enabled, and the coverage reached
  runs,        \* waves in detail: their start and the blocks they finished
  heap,        \* predicted waves that have not ended
  ticks,       \* times of the time engine's events
  ends,        \* completion events of the waves
  ended,       \* waves whose completion event was handled, in that order
  submitted,   \* waves that ended in detail or were predicted
  ipc          \* the window of the IPC engine

waveVars == <<runs, heap, ticks, ends, ended, submitted>>
vars == <<mode, now, engines, branch, waveVars, ipc>>

-----------------------------------------------------------------------------
(* Windows of measured times.                                              *)

FreshWindow == [data |-> <<>>, issue |-> 0, finish |-> 0, mix |-> 0, square |-> 0,
                interval |-> 0, enabled |-> FALSE, pred |-> 0]

Within(x, y, percent) == 100 * x <= percent * y /\ -100 * x <= percent * y

\* Analysis: the slope of the regression of the finish over the issue times is
\* near 1.  Equal issue times have no slope.
Analysis(s, g) ==
  LET bottom == g * s.square - s.issue * s.issue
      top    == g * s.mix - s.issue * s.finish
  IN [s EXCEPT !.pred = s.interval \div g,
               !.enabled = bottom # 0 /\ Within(top - bottom, bottom, Boundary)]

Shift(s, i, f, sign) ==
  [s EXCEPT !.issue = @ + sign * i, !.finish = @ + sign * f, !.mix = @ + sign * f * i,
            !.square = @ + sign * i * i, !.interval = @ + sign * (f - i)]

\* mutant: the oldest time leaves the window but not the sums
DropKeepsSums(s) == [s EXCEPT !.data = Tail(@)]

DropOldest(s) == [Shift(s, Head(s.data)[1], Head(s.data)[2], -1) EXCEPT !.data = Tail(@)]

WindowCollect(s, g, i, f) ==
  LET more == [Shift(s, i, f, 1) EXCEPT !.data = Append(@, <<i, f>>)]
  IN IF Len(more.data) = g THEN DropOldest(Analysis(more, g)) ELSE more

-----------------------------------------------------------------------------
(* The engine of one block: a long and a short window.                     *)

FreshEngine == [long |-> FreshWindow, short |-> FreshWindow, idx |-> 0,
                enabled |-> FALSE, pred |-> 0]

EngineCollect(e, i, f) ==
  LET long  == WindowCollect(e.long, Granulary, i, f)
      short == WindowCollect(e.short, Granulary \div 2, i, f)
      next  == [e EXCEPT !.idx = @ + 1, !.long = long, !.short = short]
  IN IF e.enabled THEN e
     ELSE IF e.idx + 1 < Discard THEN [e EXCEPT !.idx = @ + 1]
     ELSE IF long.enabled
       THEN [next EXCEPT !.pred = short.pred,
                         !.enabled = Within(long.pred - short.pred, long.pred + short.pred, Boundary)]
     ELSE IF short.enabled THEN [next EXCEPT !.pred = long.pred]
     ELSE next

\* Update: an engine that is switched on follows the short window.
EngineUpdate(e, i, f) ==
  LET short == WindowCollect(e.short, Granulary \div 2, i, f)
  IN [e EXCEPT !.short = short, !.pred = IF short.enabled THEN short.pred ELSE @]

-----------------------------------------------------------------------------
(* The branch engine.                                                      *)

Running(w) == w \in DOMAIN runs

CollectWfStart(w) ==
  /\ mode = "waves" /\ w \in Early /\ ~ branch.enabled /\ ~ Running(w)
  /\ w \notin {h.wave : h \in heap} \cup ToSet(ended) \cup {e.wave : e \in ends}
  /\ runs' = [v \in DOMAIN runs \cup {w} |-> IF v = w THEN [start |-> now, last |-> now, blocks |-> 0] ELSE runs[v]]
  /\ UNCHANGED <<mode, now, engines, branch, heap, ticks, ends, ended, submitted, ipc>>

\* mutant: a block counts every time its engine takes a measurement
CoveredAgain(b, was, is) == IF is.enabled THEN branch.rate + Rate[b] ELSE branch.rate

\* Flush and Update: a block counts once, when its engine switches on.
Covered(b, was, is) == IF is.enabled /\ ~ was.enabled THEN branch.rate + Rate[b] ELSE branch.rate

FlushBlock(w, b) ==
  /\ Running(w) /\ ~ branch.enabled /\ now > runs[w].last
  /\ \E e \in {IF engines[b].enabled THEN EngineUpdate(engines[b], runs[w].last, now)
                                     ELSE EngineCollect(engines[b], runs[w].last, now)} :
       /\ engines' = [engines EXCEPT ![b] = e]
       /\ branch' = [rate |-> Covered(b, engines[b], e),
                     enabled |-> e.enabled /\ ~ engines[b].enabled /\ Covered(b, engines[b], e) >= Coverage]
  /\ runs' = [runs EXCEPT ![w].last = now, ![w].blocks = @ + 1]
  /\ UNCHANGED <<mode, now, heap, ticks, ends, ended, submitted, ipc>>

\* evalSEndPgm with IncreaseIdx: the completion event comes in the next tick.
EndInDetail(w) ==
  /\ Running(w) /\ runs[w].blocks > 0
  /\ runs' = [v \in DOMAIN runs \ {w} |-> runs[v]]
  /\ ends' = ends \cup {[wave |-> w, at |-> now + 1]}
  /\ submitted' = submitted + 1
  /\ UNCHANGED <<mode, now, engines, branch, heap, ticks, ended, ipc>>

\* Predict, over the blocks of a wave: those it has finished in detail take the
\* time they took, the one that is left takes the predicted time.
Predicted(w, b) ==
  LET rest == IF engines[b].enabled THEN engines[b].pred ELSE ModelTime
  IN IF Running(w) THEN (runs[w].last - runs[w].start) + rest ELSE rest

StartOf(w) == IF Running(w) THEN runs[w].start ELSE now

-----------------------------------------------------------------------------
(* The time engine.                                                        *)

Ends(h) == {x.at : x \in h}
Before(x, y) == x.at < y.at \/ (x.at = y.at /\ x.nr < y.nr)
Order(h) == CHOOSE s \in SetToSeqs(h) : \A i, j \in DOMAIN s : i < j => Before(s[i], s[j])

\* finetuneTime: all the waves of the kernel are known; the gaps between their
\* ends shrink or grow with the number of waves that still run.  If waves ran
\* one at a time, it empties the heap and schedules nothing.
Finetuned(h) ==
  LET s == Order(h)
      at[i \in 1..Len(s)] ==
        IF i = 1 THEN s[1].at
        ELSE at[i - 1] + ((s[i].at - s[i - 1].at) * (Len(s) - i + 1)) \div Activated
  IN IF Activated = 1 THEN {} ELSE {[wave |-> s[i].wave, at |-> Max({at[i], now + 1})] : i \in 1..Len(s)}

\* NewRawSampledWfCompletionEvent, when the new wave is at the top of the heap.
Schedule(h, new) == IF new.at = Min(Ends(h)) /\ \A x \in h \ {new} : x.at > new.at THEN {new.at} ELSE {}

Predict(w, b) ==
  /\ mode = "waves" /\ branch.enabled
  /\ w \notin {h.wave : h \in heap} \cup ToSet(ended) \cup {e.wave : e \in ends}
  /\ \E new \in {[wave |-> w, at |-> Max({StartOf(w) + Predicted(w, b), now + 1}), nr |-> submitted]} :
     /\ new.at < MaxTime - 1
     /\ IF submitted + 1 = Cardinality(Wave)
         THEN /\ ends' = ends \cup Finetuned(heap \cup {new})
              /\ heap' = {} /\ ticks' = {}
         ELSE /\ heap' = heap \cup {new}
              /\ ticks' = ticks \cup Schedule(heap \cup {new}, new)
              /\ UNCHANGED ends
  /\ submitted' = submitted + 1
  /\ runs' = [v \in DOMAIN runs \ {w} |-> runs[v]]
  /\ UNCHANGED <<mode, now, engines, branch, ended, ipc>>

\* mutant: the wave that is next to end gets no event
HandleWithoutNext ==
  /\ now \in ticks
  /\ ends' = ends \cup {[wave |-> h.wave, at |-> now + 1] : h \in {x \in heap : x.at = now}}
  /\ heap' = {h \in heap : h.at # now}
  /\ ticks' = ticks \ {now}
  /\ UNCHANGED <<mode, now, engines, branch, runs, ended, submitted, ipc>>

HandleSampledWfCompletedEvent ==
  /\ now \in ticks
  /\ \E left \in {{h \in heap : h.at # now}} :
       /\ ends' = ends \cup {[wave |-> h.wave, at |-> now + 1] : h \in heap \ left}
       /\ heap' = left
       /\ ticks' = (ticks \ {now}) \cup (IF left = {} THEN {} ELSE {Min(Ends(left))})
  /\ UNCHANGED <<mode, now, engines, branch, runs, ended, submitted, ipc>>

HandleWfCompletionEvent(w) ==
  /\ \E e \in ends : e.wave = w /\ e.at = now /\ ends' = ends \ {e}
  /\ ended' = Append(ended, w)
  /\ UNCHANGED <<mode, now, engines, branch, runs, heap, ticks, submitted, ipc>>

-----------------------------------------------------------------------------
(* The IPC engine.                                                         *)

Slot(c) == c % Ring

ResetIdle(nums, last, cycle) ==
  [s \in DOMAIN nums |-> IF \E c \in last + 1..cycle - 1 : Slot(c) = s THEN 0 ELSE nums[s]]

\* Collect: a new cycle pushes the oldest ones out of the window.
Counted(n) ==
  IF ~ ipc.inited \/ now = ipc.last
    THEN [ipc EXCEPT !.inited = TRUE, !.last = now, !.nums[Slot(now)] = @ + n, !.sum = @ + n]
    ELSE LET kept == ResetIdle(ipc.nums, ipc.last, now)
             lost == SumFunction([s \in DOMAIN kept |-> ipc.nums[s] - kept[s]]) + kept[Slot(now)]
         IN [ipc EXCEPT !.last = now, !.nums = [kept EXCEPT ![Slot(now)] = n], !.sum = @ - lost + n]

IPCCollect(n) ==
  /\ mode = "ipc" /\ ipc.log[now] + n <= PeakInsts
  /\ ipc' = [Counted(n) EXCEPT !.log[now] = @ + n]
  /\ UNCHANGED <<mode, now, engines, branch, waveVars>>

-----------------------------------------------------------------------------
Init ==
  /\ mode \in Modes /\ now = 0
  /\ engines = [b \in Block |-> FreshEngine]
  /\ branch = [rate |-> 0, enabled |-> FALSE]
  /\ runs = <<>> /\ heap = {} /\ ticks = {} /\ ends = {} /\ ended = <<>> /\ submitted = 0
  /\ ipc = [inited |-> FALSE, last |-> 0, sum |-> 0, nums |-> [s \in 0..Ring - 1 |-> 0],
            log |-> [c \in 0..MaxTime |-> 0]]

\* The engine's clock goes on when nothing is left to do at this time.
Advance ==
  /\ now < MaxTime /\ now \notin ticks /\ \A e \in ends : e.at # now
  /\ now' = now + 1
  /\ UNCHANGED <<mode, engines, branch, waveVars, ipc>>

Next ==
  \/ Advance \/ HandleSampledWfCompletedEvent
  \/ \E w \in Wave : CollectWfStart(w) \/ EndInDetail(w) \/ HandleWfCompletionEvent(w)
  \/ \E w \in Wave, b \in Block : FlushBlock(w, b) \/ Predict(w, b)
  \/ \E n \in 1..PeakInsts : IPCCollect(n)

\* The event-driven engine runs until no event is left.
Spec == /\ Init /\ [][Next]_vars
        /\ WF_vars(Advance) /\ WF_vars(HandleSampledWfCompletedEvent)
        /\ \A w \in Wave : WF_vars(HandleWfCompletionEvent(w))

-----------------------------------------------------------------------------
WindowMatches(s) ==
  LET Sum(Op(_)) == SumFunction([i \in DOMAIN s.data |-> Op(s.data[i])])
  IN /\ s.issue = Sum(LAMBDA x : x[1]) /\ s.finish = Sum(LAMBDA x : x[2])
     /\ s.mix = Sum(LAMBDA x : x[1] * x[2]) /\ s.square = Sum(LAMBDA x : x[1] * x[1])
     /\ s.interval = Sum(LAMBDA x : x[2] - x[1])

\* The sums a regression is computed from are those of the window, however
\* often old times have been taken out of them, and the instructions that the
\* IPC engine counts are those of the last Ring cycles, also when no
\* instruction ended in some of them.
SumsMatch ==
  /\ \A b \in Block : WindowMatches(engines[b].long) /\ WindowMatches(engines[b].short)
  /\ ipc.sum = SumFunctionOnSet(ipc.log, {c \in 0..ipc.last : c > ipc.last - Ring})

\* The coverage is that of the blocks whose times are stable, each counted
\* once, and sampling starts when it is enough and not before.
CoverageMatches ==
  /\ branch.rate = SumFunctionOnSet(Rate, {b \in Block : engines[b].enabled})
  /\ branch.enabled <=> branch.rate >= Coverage

\* Every wave that is predicted ends, if more than one wave ran at a time.
PredictedEnds == \A w \in Wave : (\E h \in heap : h.wave = w) ~> w \in ToSet(ended)
=============================================================================
