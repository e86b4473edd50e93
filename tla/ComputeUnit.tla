---------------------------- MODULE ComputeUnit ----------------------------
(***************************************************************************)
(* The control of a compute unit of the timing simulation (timing/cu):     *)
(* wavefronts that fetch, decode and issue instructions, the units that    *)
(* execute them, the accesses in flight to three memories, barriers, the   *)
(* end of waves and of work-groups, the flush and the restart around a TLB *)
(* shoot-down, and the switch to sampled simulation.                       *)
(*                                                                         *)
(* What instructions compute is left out (see Execution); an instruction   *)
(* is its kind, with the limits of a wait; where a branch leads is data of *)
(* the kernel.  A line of the instruction memory holds LineInsts of them.  *)
(* The stages that one Tick runs are separate actions.                     *)
(***************************************************************************)
EXTENDS Integers, Sequences, FiniteSets

CONSTANTS
  Wave, Group, SIMD,
  GroupOf, SimdOf,      \* the group of a wave, the SIMD unit it is placed on
  Setups,               \* groups to run, lines an instruction buffer holds, programs of the
                        \* waves, the targets of their branches, flushes of the command
                        \* processor, and whether sampling is switched on (bounds)
  LineInsts,            \* instructions in a line of 64 bytes
  BarrierBufferSize, InFlightLimit, ReadBufSize,
  MaxTransactions,      \* coalesced transactions of a FLAT instruction
  PipeCap,              \* waves or transactions in a pipeline of the vector unit
  MemCap, RspCap,       \* requests a memory holds, responses a port holds
  AceCap,               \* completion messages the port to the dispatcher holds
  None

ASSUME PlaceAssumption == GroupOf \in [Wave -> Group] /\ SimdOf \in [Wave -> SIMD]
ASSUME NoneAssumption == None \notin Wave \cup {"flush", "restart", "flushed", "restarted"}
ASSUME LimitAssumption == LineInsts \in Nat \ {0} /\ {MaxTransactions, InFlightLimit} \subseteq Nat

Kind    == {"branch", "salu", "smem", "valu", "flat", "lds",
            "barrier", "waitcnt", "endpgm", "nop"}
State   == {"dispatching", "ready", "running", "completed", "barrier", "sampled"}
Channel == {"inst", "scalar", "vector"}
Staged  == {"branch", "scalar", "lds"}          \* units with three stages
Decode  == {"scalarD", "vectorD", "vmemD", "ldsD"}

\* The counts that S_WAITCNT carries matter for that kind only.
Inst == [kind : Kind, vmcnt : Nat, lgkmcnt : Nat]

\* The waves of a group run the same kernel, which ends with S_ENDPGM; each
\* branch a wave executes leads to some instruction of it.
ASSUME SetupAssumption ==
  \A s \in Setups :
    /\ s.groups \subseteq Group /\ s.lines \in Nat /\ s.flushes \in Nat /\ s.sampling \in BOOLEAN
    /\ \A w \in Wave :
         /\ s.prog[w] \in Seq(Inst) /\ s.prog[w] # <<>> /\ s.prog[w][Len(s.prog[w])].kind = "endpgm"
         /\ s.jumps[w] \in Seq(1..Len(s.prog[w]))
         /\ \A v \in Wave : GroupOf[v] = GroupOf[w] => s.prog[v] = s.prog[w]

Waves(g) == {w \in Wave : GroupOf[w] = g}

\* An entry of an in-flight list: `at` is the number of the memory instruction
\* among those of the wave, or the line of a fetch; `last` is the last
\* transaction of its instruction; a request gets a new identifier when it is
\* sent again after a flush.
Info(w, at, part, last, era) ==
  [wave |-> w, at |-> at, last |-> last, id |-> <<w, at, part, era>>]

VARIABLES
  setup,      \* what is run: see Setups
  wf,         \* the waves
  pool,       \* the waves of the pools of all SIMD units
  internalExecuting, barrierBuffer,
  stage,      \* the branch, scalar and LDS units
  toDecode,   \* the decode units
  simd,       \* the SIMD units
  instPipe, transWaiting, transPipe,    \* the vector memory unit
  readBuf,    \* the scalar unit's requests to send
  inFlight, shadow,                     \* lists of accesses, per channel
  mem, rsp,   \* requests the memories hold, responses in the ports
  events,     \* waves with a completion event in the engine's queue
  ctl,        \* flags of the compute unit
  predicted,  \* waves in the heap of the sampled time engine
  cp,         \* the command processor: its phase, its message, the answer
  toACE,      \* completion messages on their way
  reports     \* completion messages each dispatcher has received, by group

waveVars == <<setup, wf, pool>>
schedVars == <<internalExecuting, barrierBuffer>>
unitVars == <<stage, toDecode, simd>>
vmemVars == <<instPipe, transWaiting, transPipe>>
pipeVars == <<unitVars, vmemVars, readBuf>>
memVars == <<inFlight, shadow, mem, rsp>>
doneVars == <<events, predicted, toACE, reports>>
vars == <<waveVars, schedVars, pipeVars, memVars, doneVars, ctl, cp>>

Line(pc) == (pc - 1) \div LineInsts
InstAt(w, pc) == setup.prog[w][pc]
KindAt(w, pc) == InstAt(w, pc).kind

\* setWfInfo and NewWavefront.  The last three fields count the branches and
\* the scalar and vector memory instructions executed so far.
FreshWave == [state |-> "dispatching", pc |-> 1, next |-> 0, inst |-> 0,
              fetching |-> FALSE, start |-> 0, buf |-> <<>>, vm |-> 0, lgkm |-> 0,
              turns |-> 0, smems |-> 0, flats |-> 0]

Init ==
  /\ setup \in Setups
  /\ wf = [w \in Wave |-> FreshWave]
  /\ pool = {}
  /\ internalExecuting = <<>> /\ barrierBuffer = <<>>
  /\ stage = [u \in Staged |-> [read |-> None, exec |-> None, write |-> None]]
  /\ toDecode = [d \in Decode |-> None]
  /\ simd = [s \in SIMD |-> None]
  /\ instPipe = <<>> /\ transWaiting = <<>> /\ transPipe = <<>>
  /\ readBuf = <<>>
  /\ inFlight = [c \in Channel |-> <<>>] /\ shadow = inFlight
  /\ mem = inFlight /\ rsp = inFlight
  /\ events = {} /\ predicted = {} /\ toACE = <<>>
  /\ reports = [g \in Group |-> 0]
  /\ ctl = [paused |-> FALSE, flushing |-> FALSE, sending |-> FALSE,
            handling |-> FALSE, enabled |-> FALSE, stopNew |-> FALSE,
            allPaused |-> FALSE]
  /\ cp = [phase |-> "run", msg |-> None, answer |-> None, era |-> 0]

-----------------------------------------------------------------------------
(* Work-groups arrive.                                                     *)

TakesInput == ~ ctl.paused \/ ctl.sending

\* handleMapWGReq: once sampling is on, the waves are predicted at once and
\* never enter a pool.
HandleMapWGReq(g) ==
  /\ TakesInput /\ g \in setup.groups
  /\ \A w \in Waves(g) : wf[w].state = "dispatching"
  /\ IF ctl.enabled
       THEN /\ wf' = [w \in Wave |-> IF GroupOf[w] = g THEN [wf[w] EXCEPT !.state = "sampled"] ELSE wf[w]]
            /\ predicted' = predicted \cup Waves(g)
            /\ UNCHANGED pool
       ELSE /\ wf' = [w \in Wave |-> IF GroupOf[w] = g THEN [wf[w] EXCEPT !.state = "ready"] ELSE wf[w]]
            /\ pool' = pool \cup Waves(g)
            /\ UNCHANGED predicted
  /\ UNCHANGED <<setup, schedVars, pipeVars, memVars, events, toACE, reports, ctl, cp>>

-----------------------------------------------------------------------------
(* The scheduler: decode, fetch, issue.                                    *)

SchedulerRuns == ~ ctl.paused

Buffered(r) == r.buf # <<>> /\ Line(r.pc) < r.start + Len(r.buf)

DecodeNextInst(w) ==
  /\ SchedulerRuns /\ w \in pool
  /\ LET r == wf[w] IN
       \/ /\ r.buf = <<>>
          /\ r.start # Line(r.pc)
          /\ wf' = [wf EXCEPT ![w].start = Line(r.pc)]
       \/ /\ r.state = "ready" /\ r.next = 0 /\ Buffered(r)
          /\ wf' = [wf EXCEPT ![w].next = r.buf[Line(r.pc) - r.start + 1] * LineInsts
                                            + ((r.pc - 1) % LineInsts) + 1]
  /\ UNCHANGED <<setup, pool, schedVars, pipeVars, memVars, doneVars, ctl, cp>>

\* The fetch arbiter takes the wave that fetched longest ago, here any.
DoFetch(w) ==
  /\ SchedulerRuns /\ w \in pool
  /\ ~ wf[w].fetching /\ wf[w].state # "completed"
  /\ Len(wf[w].buf) < setup.lines
  /\ Len(mem["inst"]) < MemCap
  /\ LET start == IF wf[w].buf = <<>> THEN Line(wf[w].pc) ELSE wf[w].start
         info  == Info(w, start + Len(wf[w].buf), wf[w].pc, TRUE, cp.era)
     IN /\ wf' = [wf EXCEPT ![w].start = start, ![w].fetching = TRUE]
        /\ inFlight' = [inFlight EXCEPT !["inst"] = Append(@, info)]
        /\ mem' = [mem EXCEPT !["inst"] = Append(@, info.id)]
  /\ UNCHANGED <<setup, pool, schedVars, pipeVars, shadow, rsp, doneVars, ctl, cp>>

Special(k) == k \in {"barrier", "waitcnt", "endpgm", "nop"}
DecoderOf(k) == CASE k \in {"salu", "smem"} -> "scalarD" [] k = "valu" -> "vectorD"
                  [] k = "flat" -> "vmemD" [] k = "lds" -> "ldsD"

\* DoIssue: to the scheduler itself, to the branch unit, or to a decode unit
\* that is free.  The issue arbiter takes turns among the SIMD units.
Issue(w) ==
  /\ SchedulerRuns /\ ~ ctl.stopNew /\ w \in pool
  /\ wf[w].state = "ready" /\ wf[w].next # 0
  /\ wf' = [wf EXCEPT ![w].inst = wf[w].next, ![w].next = 0, ![w].state = "running"]
  /\ LET k == KindAt(w, wf[w].next) IN
       \/ /\ Special(k)
          /\ internalExecuting' = Append(internalExecuting, w)
          /\ UNCHANGED <<stage, toDecode>>
       \/ /\ k = "branch" /\ stage["branch"].read = None
          /\ stage' = [stage EXCEPT !["branch"].read = w]
          /\ UNCHANGED <<internalExecuting, toDecode>>
       \/ /\ ~ Special(k) /\ k # "branch" /\ toDecode[DecoderOf(k)] = None
          /\ toDecode' = [toDecode EXCEPT ![DecoderOf(k)] = w]
          /\ UNCHANGED <<internalExecuting, stage>>
  /\ UNCHANGED <<setup, pool, barrierBuffer, simd, vmemVars, readBuf, memVars, doneVars, ctl, cp>>

\* UpdatePCAndSetReady, with removeStaleInstBuffer.
SetReady(r, pc) ==
  LET stale == IF r.buf = <<>> \/ Line(pc) < r.start THEN 0 ELSE Line(pc) - r.start IN
  [r EXCEPT !.state = "ready", !.pc = pc,
            !.buf = SubSeq(@, stale + 1, Len(@)), !.start = @ + stale]

\* The waves of a buffer, in order, but those of a set.  (A recursive function:
\* the proofs of ComputeUnitProofs reason about it by induction.)
Without(seq, ws) ==
  LET keep[i \in 0 .. Len(seq)] ==
        IF i = 0 THEN <<>>
        ELSE IF seq[i] \in ws THEN keep[i - 1] ELSE Append(keep[i - 1], seq[i])
  IN  keep[Len(seq)]

-----------------------------------------------------------------------------
(* The scheduler: instructions it executes itself.  One Tick evaluates the  *)
(* whole list in order; an entry sees what the ones before it did.          *)

\* A wave ends when its memory accesses are done; the event comes a tick later.
EvalSEndPgm(e, w) ==
  IF e.waves[w].vm > 0 \/ e.waves[w].lgkm > 0
    THEN [e EXCEPT !.kept = Append(@, w)]
    ELSE [e EXCEPT !.waves[w].state = "completed", !.ended = @ \cup {w}]

PassBarrier(e, g) ==
  [e EXCEPT !.barrier = Without(@, Waves(g)),
            !.waves = [w \in Wave |-> IF GroupOf[w] = g
                                        THEN SetReady(e.waves[w], e.waves[w].pc + 1)
                                        ELSE e.waves[w]]]

EvalSBarrier(e, w) ==
  LET at == [e EXCEPT !.waves[w].state = "barrier"]
      g  == GroupOf[w]
  IN IF \A v \in Waves(g) : at.waves[v].state = "barrier" THEN PassBarrier(at, g)
     ELSE IF Len(e.barrier) < BarrierBufferSize THEN [at EXCEPT !.barrier = Append(@, w)]
     ELSE [at EXCEPT !.kept = Append(@, w)]

\* mutant: the count of vector accesses is compared with the other limit
Exceeds(r, inst) == r.lgkm > inst.lgkmcnt \/ r.vm > inst.lgkmcnt

\* More accesses are outstanding than the instruction allows for.
Outstanding(r, inst) == r.lgkm > inst.lgkmcnt \/ r.vm > inst.vmcnt

EvalSWaitCnt(e, w) ==
  IF Outstanding(e.waves[w], InstAt(w, e.waves[w].inst))
    THEN [e EXCEPT !.kept = Append(@, w)]
    ELSE [e EXCEPT !.waves[w] = SetReady(@, @.pc + 1)]

EvalInst(e, w) ==
  CASE KindAt(w, e.waves[w].inst) = "endpgm"  -> EvalSEndPgm(e, w)
    [] KindAt(w, e.waves[w].inst) = "barrier" -> EvalSBarrier(e, w)
    [] KindAt(w, e.waves[w].inst) = "waitcnt" -> EvalSWaitCnt(e, w)
    [] OTHER -> [e EXCEPT !.waves[w].state = "ready"]

\* What the first n entries of the list make of the waves and the buffers.
Evaluated(n) ==
  LET run[i \in 0 .. n] ==
        IF i = 0 THEN [waves |-> wf, barrier |-> barrierBuffer, kept |-> <<>>, ended |-> {}]
        ELSE EvalInst(run[i - 1], internalExecuting[i])
  IN  run[n]

EvaluateInternalInst ==
  /\ SchedulerRuns /\ internalExecuting # <<>>
  /\ \E e \in {Evaluated(Len(internalExecuting))} :
       /\ <<e.waves, e.barrier, e.kept>> # <<wf, barrierBuffer, internalExecuting>>
       /\ wf' = e.waves
       /\ barrierBuffer' = e.barrier
       /\ internalExecuting' = e.kept
       /\ events' = events \cup e.ended
  /\ UNCHANGED <<setup, pool, pipeVars, memVars, predicted, toACE, reports, ctl, cp>>

-----------------------------------------------------------------------------
(* The units.                                                              *)

Runs == ~ ctl.paused

\* The decode units hand a wave to the unit behind them.
DecodeScalar ==
  /\ Runs /\ toDecode["scalarD"] # None /\ stage["scalar"].read = None
  /\ stage' = [stage EXCEPT !["scalar"].read = toDecode["scalarD"]]
  /\ toDecode' = [toDecode EXCEPT !["scalarD"] = None]
  /\ UNCHANGED <<waveVars, schedVars, simd, vmemVars, readBuf, memVars, doneVars, ctl, cp>>

DecodeLDS ==
  /\ Runs /\ toDecode["ldsD"] # None /\ stage["lds"].read = None
  /\ stage' = [stage EXCEPT !["lds"].read = toDecode["ldsD"]]
  /\ toDecode' = [toDecode EXCEPT !["ldsD"] = None]
  /\ UNCHANGED <<waveVars, schedVars, simd, vmemVars, readBuf, memVars, doneVars, ctl, cp>>

DecodeVector ==
  /\ Runs /\ toDecode["vectorD"] # None
  /\ simd[SimdOf[toDecode["vectorD"]]] = None
  /\ simd' = [simd EXCEPT ![SimdOf[toDecode["vectorD"]]] = toDecode["vectorD"]]
  /\ toDecode' = [toDecode EXCEPT !["vectorD"] = None]
  /\ UNCHANGED <<waveVars, schedVars, stage, vmemVars, readBuf, memVars, doneVars, ctl, cp>>

DecodeVMem ==
  /\ Runs /\ toDecode["vmemD"] # None /\ Len(instPipe) < PipeCap
  /\ instPipe' = Append(instPipe, toDecode["vmemD"])
  /\ toDecode' = [toDecode EXCEPT !["vmemD"] = None]
  /\ UNCHANGED <<waveVars, schedVars, stage, simd, transWaiting, transPipe, readBuf, memVars, doneVars, ctl, cp>>

RunReadStage(u) ==
  /\ Runs /\ stage[u].read # None /\ stage[u].exec = None
  /\ stage' = [stage EXCEPT ![u].exec = stage[u].read, ![u].read = None]
  /\ UNCHANGED <<waveVars, schedVars, toDecode, simd, vmemVars, readBuf, memVars, doneVars, ctl, cp>>

\* runExecStage.  A scalar load leaves the unit here: its reads, one per cache
\* line, wait to be sent, and the wave goes on.
RunExecStage(u) ==
  /\ Runs /\ stage[u].exec # None /\ stage[u].write = None
  /\ KindAt(stage[u].exec, wf[stage[u].exec].inst) # "smem"
  /\ stage' = [stage EXCEPT ![u].write = stage[u].exec, ![u].exec = None]
  /\ UNCHANGED <<waveVars, schedVars, toDecode, simd, vmemVars, readBuf, memVars, doneVars, ctl, cp>>

\* The transactions of one instruction, the last of which is marked.
Parts(w, at, n) == [i \in 1..n |-> Info(w, at, i, i = n, cp.era)]

\* The counters of outstanding accesses: of vector memory, and of all.
WithAccess(r, v) == [r EXCEPT !.vm = @ + v, !.lgkm = @ + 1, !.flats = @ + v, !.smems = @ + 1 - v]

CanRead(n) == Len(readBuf) + n <= ReadBufSize

ExecuteSMEMLoad(n) ==
  /\ Runs /\ stage["scalar"].exec # None /\ stage["scalar"].write = None
  /\ CanRead(n)
  /\ LET w == stage["scalar"].exec IN
       /\ KindAt(w, wf[w].inst) = "smem"
       /\ readBuf' = readBuf \o Parts(w, wf[w].smems + 1, n)
       /\ inFlight' = [inFlight EXCEPT !["scalar"] = @ \o Parts(w, wf[w].smems + 1, n)]
       /\ wf' = [wf EXCEPT ![w] = WithAccess(SetReady(@, @.pc + 1), 0)]
  /\ stage' = [stage EXCEPT !["scalar"].exec = None]
  /\ UNCHANGED <<setup, pool, schedVars, toDecode, simd, vmemVars, shadow, mem, rsp, doneVars, ctl, cp>>

\* runWriteStage: the results are committed and the wave is ready again.
RunWriteStage(u) ==
  /\ Runs /\ u # "branch" /\ stage[u].write # None
  /\ wf' = [wf EXCEPT ![stage[u].write] = SetReady(@, @.pc + 1)]
  /\ stage' = [stage EXCEPT ![u].write = None]
  /\ UNCHANGED <<setup, pool, schedVars, toDecode, simd, vmemVars, readBuf, memVars, doneVars, ctl, cp>>

\* A branch drops the instruction buffer and goes on at any instruction.
Branch(r, to) ==
  [SetReady([r EXCEPT !.buf = <<>>, !.turns = @ + 1], to) EXCEPT !.start = Line(to)]

BranchWriteStage ==
  /\ Runs /\ stage["branch"].write # None
  /\ LET w == stage["branch"].write  n == wf[w].turns + 1 IN
       /\ n <= Len(setup.jumps[w])
       /\ wf' = [wf EXCEPT ![w] = Branch(@, setup.jumps[w][n])]
  /\ stage' = [stage EXCEPT !["branch"].write = None]
  /\ UNCHANGED <<setup, pool, schedVars, toDecode, simd, vmemVars, readBuf, memVars, doneVars, ctl, cp>>

SIMDExec(s) ==
  /\ Runs /\ simd[s] # None
  /\ wf' = [wf EXCEPT ![simd[s]] = SetReady(@, @.pc + 1)]
  /\ simd' = [simd EXCEPT ![s] = None]
  /\ UNCHANGED <<setup, pool, schedVars, stage, toDecode, vmemVars, readBuf, memVars, doneVars, ctl, cp>>

ScalarSendRequest ==
  /\ Runs /\ readBuf # <<>> /\ Len(mem["scalar"]) < MemCap
  /\ mem' = [mem EXCEPT !["scalar"] = Append(@, Head(readBuf).id)]
  /\ readBuf' = Tail(readBuf)
  /\ UNCHANGED <<waveVars, schedVars, unitVars, vmemVars, inFlight, shadow, rsp, doneVars, ctl, cp>>

\* execute and executeFlatLoad, executeFlatStore.  The wave has left the
\* pipeline before the limit of accesses in flight is looked at.
ExecuteFlat(n) ==
  /\ Runs /\ transWaiting = <<>> /\ instPipe # <<>>
  /\ LET w == Head(instPipe) IN
       IF n > 0 /\ n + Len(inFlight["vector"]) > InFlightLimit
         THEN UNCHANGED <<wf, transWaiting, inFlight>>
         ELSE /\ wf' = [wf EXCEPT ![w] = IF n = 0 THEN SetReady(@, @.pc + 1)
                                          ELSE WithAccess(SetReady(@, @.pc + 1), 1)]
              /\ transWaiting' = Parts(w, wf[w].flats + 1, n)
              /\ inFlight' = [inFlight EXCEPT !["vector"] = @ \o Parts(w, wf[w].flats + 1, n)]
  /\ instPipe' = Tail(instPipe)
  /\ UNCHANGED <<setup, pool, schedVars, unitVars, transPipe, readBuf, shadow, mem, rsp, doneVars, ctl, cp>>

InsertTransactionToPipeline ==
  /\ Runs /\ transWaiting # <<>> /\ Len(transPipe) < PipeCap
  /\ transPipe' = Append(transPipe, Head(transWaiting))
  /\ transWaiting' = Tail(transWaiting)
  /\ UNCHANGED <<waveVars, schedVars, unitVars, instPipe, readBuf, memVars, doneVars, ctl, cp>>

VectorSendRequest ==
  /\ Runs /\ transPipe # <<>> /\ Len(mem["vector"]) < MemCap
  /\ mem' = [mem EXCEPT !["vector"] = Append(@, Head(transPipe).id)]
  /\ transPipe' = Tail(transPipe)
  /\ UNCHANGED <<waveVars, schedVars, unitVars, instPipe, transWaiting, readBuf, inFlight, shadow, rsp, doneVars, ctl, cp>>

-----------------------------------------------------------------------------
(* Responses.  A response that is not the one to the oldest access is      *)
(* dropped: it answers a request from before a flush.                      *)

\* mutant: whatever line returns is appended
FetchReturnedAny(r, line) == [r EXCEPT !.fetching = FALSE, !.buf = Append(@, line)]

FetchReturned(r, line) ==
  [r EXCEPT !.fetching = FALSE,
            !.buf = IF line = r.start + Len(r.buf) THEN Append(@, line) ELSE @]

Returned(c, r, info) ==
  CASE c = "inst"   -> FetchReturned(r, info.at)
    [] c = "scalar" -> IF info.last THEN [r EXCEPT !.lgkm = @ - 1] ELSE r
    [] c = "vector" -> IF info.last THEN [r EXCEPT !.vm = @ - 1, !.lgkm = @ - 1] ELSE r

\* mutant: a response answers the oldest access, whichever it was sent for
AnswersOldest(c) == inFlight[c] # <<>>

Answers(c) == inFlight[c] # <<>> /\ Head(inFlight[c]).id = Head(rsp[c])

ProcessInputFromMem(c) ==
  /\ TakesInput /\ rsp[c] # <<>>
  /\ rsp' = [rsp EXCEPT ![c] = Tail(@)]
  /\ IF Answers(c)
       THEN LET info == Head(inFlight[c]) IN
            /\ inFlight' = [inFlight EXCEPT ![c] = Tail(@)]
            /\ wf' = [wf EXCEPT ![info.wave] = Returned(c, @, info)]
       ELSE UNCHANGED <<inFlight, wf>>
  /\ UNCHANGED <<setup, pool, schedVars, pipeVars, shadow, mem, doneVars, ctl, cp>>

\* The memories answer in the order of the requests, as reorder buffers do.
MemReply(c) ==
  /\ mem[c] # <<>> /\ Len(rsp[c]) < RspCap
  /\ rsp' = [rsp EXCEPT ![c] = Append(@, Head(mem[c]))]
  /\ mem' = [mem EXCEPT ![c] = Tail(@)]
  /\ UNCHANGED <<waveVars, schedVars, pipeVars, inFlight, shadow, doneVars, ctl, cp>>

-----------------------------------------------------------------------------
(* Completion.                                                             *)

AllCompleted(ws, g) == \A w \in Waves(g) : ws[w].state = "completed"

\* handleWfCompletionEvent: the last wave of a group reports it; when the port
\* is full the event comes again.
HandleWfCompletionEvent(w) ==
  /\ w \in events
  /\ \E ws \in {[wf EXCEPT ![w].state = "completed"]} : LET g == GroupOf[w] IN
       /\ wf' = ws
       /\ IF ~ AllCompleted(ws, g)
            THEN /\ events' = events \ {w}
                 /\ UNCHANGED <<toACE, pool, ctl>>
          ELSE IF Len(toACE) < AceCap
            THEN /\ toACE' = Append(toACE, g)
                 /\ pool' = pool \ Waves(g)
                 /\ events' = events \ {w}
                 /\ ctl' = [ctl EXCEPT !.handling = FALSE]
            ELSE /\ ctl' = [ctl EXCEPT !.handling = TRUE]
                 /\ UNCHANGED <<toACE, pool, events>>
  /\ UNCHANGED <<setup, schedVars, pipeVars, memVars, predicted, reports, cp>>

Report ==
  /\ toACE # <<>>
  /\ reports' = [reports EXCEPT ![Head(toACE)] = @ + 1]
  /\ toACE' = Tail(toACE)
  /\ UNCHANGED <<waveVars, schedVars, pipeVars, memVars, events, predicted, ctl, cp>>

-----------------------------------------------------------------------------
(* Flush and restart.                                                      *)

\* processInputFromCP; the answer to a restart is sent at once.
ProcessInputFromCP ==
  /\ cp.msg # None
  /\ IF cp.msg = "flush"
       THEN /\ ctl' = [ctl EXCEPT !.flushing = TRUE]
            /\ cp' = [cp EXCEPT !.msg = None]
       ELSE /\ ctl' = [ctl EXCEPT !.sending = TRUE]
            /\ cp' = [cp EXCEPT !.msg = None, !.answer = "restarted"]
  /\ UNCHANGED <<waveVars, schedVars, pipeVars, memVars, doneVars>>

\* mutant: a wave at a barrier keeps its state though the buffers are emptied
SetRunningToReady(r) ==
  IF r.state = "running" THEN [r EXCEPT !.state = "ready", !.fetching = FALSE] ELSE [r EXCEPT !.fetching = FALSE]

\* setWavesToReady: the instruction under way starts again.
SetWaveToReady(r) ==
  IF r.state = "completed" THEN r ELSE [r EXCEPT !.state = "ready", !.fetching = FALSE]

\* reInsertShadowBufferReqsToOriginalBuffers, when a flush meets a restart.
PutBack(c) == IF ctl.sending THEN inFlight[c] \o shadow[c] ELSE inFlight[c]

\* doFlush with flushPipeline, which waits while a group's completion waits to be sent.
DoFlush ==
  /\ ctl.flushing /\ (ctl.sending \/ ~ ctl.handling)
  /\ \E all \in {[c \in Channel |-> PutBack(c)]} :
       IF ctl.handling
         THEN /\ inFlight' = all
              /\ ctl' = [ctl EXCEPT !.sending = FALSE]
              /\ UNCHANGED <<shadow, wf, schedVars, pipeVars, cp>>
         ELSE /\ shadow' = all
              /\ inFlight' = [c \in Channel |-> <<>>]
              /\ wf' = [w \in Wave |-> IF w \in pool THEN SetWaveToReady(wf[w]) ELSE wf[w]]
              /\ internalExecuting' = <<>> /\ barrierBuffer' = <<>>
              /\ stage' = [u \in Staged |-> [read |-> None, exec |-> None, write |-> None]]
              /\ toDecode' = [d \in Decode |-> None]
              /\ simd' = [s \in SIMD |-> None]
              /\ instPipe' = <<>> /\ transWaiting' = <<>> /\ transPipe' = <<>> /\ readBuf' = <<>>
              /\ ctl' = [ctl EXCEPT !.sending = FALSE, !.flushing = FALSE, !.paused = TRUE]
              /\ cp' = [cp EXCEPT !.answer = "flushed"]
  /\ UNCHANGED <<setup, pool, mem, rsp, doneVars>>

\* sendOutShadowBufferReqs, for one of the three buffers.
SendShadowBufferAccess(c) ==
  /\ ctl.sending /\ shadow[c] # <<>> /\ Len(mem[c]) < MemCap
  /\ LET info == [Head(shadow[c]) EXCEPT !.id[4] = cp.era] IN
       /\ inFlight' = [inFlight EXCEPT ![c] = Append(@, info)]
       /\ mem' = [mem EXCEPT ![c] = Append(@, info.id)]
  /\ shadow' = [shadow EXCEPT ![c] = Tail(@)]
  /\ UNCHANGED <<waveVars, schedVars, pipeVars, rsp, doneVars, ctl, cp>>

\* mutant: the fetches and scalar accesses set aside are not waited for
OnlyVectorSent == shadow["vector"] = <<>>

AllSent == \A c \in Channel : shadow[c] = <<>>

CheckShadowBuffers ==
  /\ ctl.sending /\ AllSent
  /\ ctl' = [ctl EXCEPT !.sending = FALSE, !.paused = FALSE]
  /\ UNCHANGED <<waveVars, schedVars, pipeVars, memVars, doneVars, cp>>

\* The command processor flushes the unit, then the translators, the reorder
\* buffers and the caches behind it, which forget what they hold, then restarts.
SendFlush ==
  /\ cp.phase = "run" /\ cp.era < setup.flushes
  /\ cp' = [cp EXCEPT !.phase = "flush", !.msg = "flush"]
  /\ UNCHANGED <<waveVars, schedVars, pipeVars, memVars, doneVars, ctl>>

FlushBelow ==
  /\ cp.phase = "flush" /\ cp.answer = "flushed"
  /\ mem' = [c \in Channel |-> <<>>]
  /\ cp' = [cp EXCEPT !.phase = "restart", !.answer = None, !.msg = "restart", !.era = @ + 1]
  /\ UNCHANGED <<waveVars, schedVars, pipeVars, inFlight, shadow, rsp, doneVars, ctl>>

Restarted ==
  /\ cp.phase = "restart" /\ cp.answer = "restarted"
  /\ cp' = [cp EXCEPT !.phase = "run", !.answer = None]
  /\ UNCHANGED <<waveVars, schedVars, pipeVars, memVars, doneVars, ctl>>

-----------------------------------------------------------------------------
(* Sampled simulation.                                                     *)

\* The sampling engine has seen enough waves to predict the others.
EnableSampled ==
  /\ setup.sampling /\ ~ ctl.enabled
  /\ ctl' = [ctl EXCEPT !.enabled = TRUE]
  /\ UNCHANGED <<waveVars, schedVars, pipeVars, memVars, doneVars, cp>>

Finished(w) == wf[w].state \in {"completed", "sampled"}

\* The groups none of whose waves is running and some of which are not done.
Stoppable ==
  {GroupOf[w] : w \in {v \in pool : /\ wf[v].state \in {"ready", "barrier", "completed"}
                                    /\ \A u \in Waves(GroupOf[v]) : wf[u].state # "running"
                                    /\ \E u \in Waves(GroupOf[v]) : ~ Finished(u)}}

\* stopTimeModel: no new instruction; a group whose waves are all between two
\* instructions gets predicted times, one that is at it finishes it first.
StopTimeModel ==
  /\ ctl.enabled /\ ~ ctl.allPaused
  /\ \E stop \in {{w \in Wave : GroupOf[w] \in Stoppable}} :
       /\ wf' = [w \in Wave |-> IF w \in stop /\ ~ Finished(w)
                                  THEN [wf[w] EXCEPT !.state = "sampled"] ELSE wf[w]]
       /\ predicted' = predicted \cup {w \in stop : ~ Finished(w)}
       /\ barrierBuffer' = Without(barrierBuffer, stop)
       /\ internalExecuting' = Without(internalExecuting, stop)
  /\ ctl' = [ctl EXCEPT !.stopNew = TRUE,
                        !.allPaused = \A w \in pool : wf[w].state # "running"]
  /\ UNCHANGED <<setup, pool, pipeVars, memVars, events, toACE, reports, cp>>

\* The sampled time engine: the predicted time of a wave comes.
SampledWfCompleted(w) ==
  /\ w \in predicted
  /\ predicted' = predicted \ {w}
  /\ events' = events \cup {w}
  /\ UNCHANGED <<waveVars, schedVars, pipeVars, memVars, toACE, reports, ctl, cp>>

-----------------------------------------------------------------------------
SchedulerStep ==
  \/ EvaluateInternalInst
  \/ \E w \in Wave : DecodeNextInst(w) \/ DoFetch(w) \/ Issue(w)

UnitStep ==
  \/ DecodeScalar \/ DecodeLDS \/ DecodeVector \/ DecodeVMem
  \/ \E u \in Staged : RunReadStage(u) \/ RunExecStage(u) \/ RunWriteStage(u)
  \/ BranchWriteStage
  \/ \E s \in SIMD : SIMDExec(s)
  \/ \E n \in 1..MaxTransactions : ExecuteSMEMLoad(n)
  \/ ScalarSendRequest
  \/ \E n \in 0..MaxTransactions : ExecuteFlat(n)
  \/ InsertTransactionToPipeline \/ VectorSendRequest

MemStep == \E c \in Channel : ProcessInputFromMem(c) \/ MemReply(c)

FlushStep ==
  \/ ProcessInputFromCP \/ DoFlush \/ CheckShadowBuffers
  \/ \E c \in Channel : SendShadowBufferAccess(c)
  \/ FlushBelow \/ Restarted

SampleStep == StopTimeModel \/ \E w \in Wave : SampledWfCompleted(w)

CompletionStep == Report \/ \E w \in Wave : HandleWfCompletionEvent(w)

Next ==
  \/ \E g \in Group : HandleMapWGReq(g)
  \/ SchedulerStep \/ UnitStep \/ MemStep \/ FlushStep
  \/ SendFlush \/ EnableSampled \/ SampleStep \/ CompletionStep

Spec == Init /\ [][Next]_vars

\* The simulation goes on while anything but a flush request, the start of
\* sampling or a new work-group can happen: events are in the engine's queue.
Fairness == WF_vars(SchedulerStep \/ UnitStep \/ MemStep \/ FlushStep \/ SampleStep \/ CompletionStep)

FairSpec == Spec /\ Fairness

-----------------------------------------------------------------------------
Infos == [wave : Wave, at : Nat, last : BOOLEAN, id : Seq(Wave \cup Nat)]

TypeOK ==
  /\ wf \in [Wave -> [state : State, pc : Nat \ {0}, next : Nat, inst : Nat, fetching : BOOLEAN,
                      start : Nat, buf : Seq(Nat), vm : Nat, lgkm : Nat,
                      turns : Nat, smems : Nat, flats : Nat]]
  /\ pool \subseteq Wave /\ events \subseteq Wave /\ predicted \subseteq Wave
  /\ internalExecuting \in Seq(Wave) /\ barrierBuffer \in Seq(Wave) /\ instPipe \in Seq(Wave)
  /\ stage \in [Staged -> [read : Wave \cup {None}, exec : Wave \cup {None}, write : Wave \cup {None}]]
  /\ toDecode \in [Decode -> Wave \cup {None}] /\ simd \in [SIMD -> Wave \cup {None}]
  /\ inFlight \in [Channel -> Seq(Infos)] /\ shadow \in [Channel -> Seq(Infos)]
  /\ Len(inFlight["vector"]) <= InFlightLimit /\ Len(readBuf) <= ReadBufSize
  /\ cp.phase \in {"run", "flush", "restart"} /\ cp.msg \in {None, "flush", "restart"}

\* The entries that stand for an access: while a flush waits for a completion,
\* the shadow buffers are copies of what has been put back.
Accesses(c) == IF ctl.flushing /\ ~ ctl.sending THEN inFlight[c] ELSE inFlight[c] \o shadow[c]

Holds(seq, w) == Cardinality({i \in DOMAIN seq : seq[i] = w})

Places(w) ==
  Holds(internalExecuting, w) + Holds(instPipe, w)
  + Cardinality({p \in Staged \X {"read", "exec", "write"} : stage[p[1]][p[2]] = w})
  + Cardinality({d \in Decode : toDecode[d] = w}) + Cardinality({s \in SIMD : simd[s] = w})

\* A running wave is in one place of the pipeline, so that something will
\* finish its instruction, and no other wave is in any: neither a flush, nor a
\* barrier that releases waves, nor sampling leaves a wave in two places or in
\* none.
OnePlace ==
  \A w \in Wave :
    Places(w) + Holds(barrierBuffer, w)
      = IF wf[w].state = "running" \/ wf[w].state = "barrier" THEN 1 ELSE 0

\* The instruction that waits to be issued is the one at the program counter,
\* and the decoder never slices the buffer outside its bounds, whatever fetches
\* were under way when a branch, a stale line or a flush changed the buffer.
NextIsAtPC ==
  \A w \in pool : LET r == wf[w] IN
    /\ r.next \in {0, r.pc}
    /\ \A i \in DOMAIN r.buf : r.buf[i] = r.start + i - 1
    /\ r.state = "ready" /\ r.buf # <<>> => Line(r.pc) \in r.start..(r.start + Len(r.buf))

LastOf(c, w) == Cardinality({i \in DOMAIN Accesses(c) : Accesses(c)[i].wave = w /\ Accesses(c)[i].last})

UnderWay(c, id) ==
  \/ \E i \in DOMAIN (mem[c] \o rsp[c]) : (mem[c] \o rsp[c])[i] = id
  \/ \E i \in DOMAIN (readBuf \o transWaiting \o transPipe) : (readBuf \o transWaiting \o transPipe)[i].id = id

WaitedFor(c, id) == \E j \in DOMAIN inFlight[c] : inFlight[c][j].id = id

\* The counters that S_WAITCNT and S_ENDPGM read count the instructions whose
\* last access is under way, also those that a flush set aside and a restart
\* sends again: a response from before the flush counts for nothing, and every
\* access that is waited for has a request under way, and every request has one that waits for it.
OutstandingMatch ==
  \A w \in Wave : /\ wf[w].vm = LastOf("vector", w)
                  /\ wf[w].lgkm = LastOf("vector", w) + LastOf("scalar", w)
  /\ \A c \in Channel :
       /\ ~ ctl.flushing => \A i \in DOMAIN inFlight[c] : UnderWay(c, inFlight[c][i].id)
       /\ cp.phase # "flush" => \A i \in DOMAIN mem[c] : WaitedFor(c, mem[c][i])

\* A step in which a wave goes on behind its instruction.
Leaves(w, k) == KindAt(w, wf[w].pc) = k /\ wf'[w].pc # wf[w].pc

\* The vector accesses under way are of the last n instructions that made some.
OnlyLast(w, n) ==
  \A i \in DOMAIN Accesses("vector") :
    Accesses("vector")[i].wave = w => Accesses("vector")[i].at > wf[w].flats - n

BehindBarrier(w) == \A v \in Waves(GroupOf[w]) : Leaves(v, "barrier")

BehindWait(w, inst) ==
  /\ OnlyLast(w, inst.vmcnt)
  /\ LastOf("vector", w) + LastOf("scalar", w) <= inst.lgkmcnt

\* A wave goes on behind a barrier only together with its whole group, each of
\* whose waves is at a barrier; behind a wait, only when the vector accesses
\* under way, or set aside by a flush, are of its last VMCNT vector memory
\* instructions, and those of at most LGKMCNT memory instructions are in all:
\* however often it has been there, and however often it was flushed meanwhile.
InSync ==
  \A w \in Wave :
    /\ Leaves(w, "barrier") => BehindBarrier(w)
    /\ Leaves(w, "waitcnt") => BehindWait(w, InstAt(w, wf[w].pc))

SyncHolds == [][InSync]_vars

\* Every work-group that is mapped is reported, and every flush ends.
WorkEnds ==
  /\ \A g \in Group : (\E w \in Waves(g) : wf[w].state # "dispatching") ~> reports[g] > 0
  /\ cp.phase # "run" ~> cp.phase = "run"
=============================================================================
