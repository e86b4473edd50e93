--------------------------- MODULE CommandQueues ---------------------------
(***************************************************************************)
(* The command queues of the driver (driver/commandqueue.go, api.go,       *)
(* driver.go, memorycopy.go): the host threads that enqueue commands and   *)
(* wait for a queue to drain, the goroutine that wakes the simulation up,  *)
(* the goroutine that runs the event engine, the ticks of the driver       *)
(* inside it and the requests it has at the GPUs.                          *)
(*                                                                         *)
(* A handler called by Tick is an action.  The ticks go on as long as a    *)
(* handler makes progress: tick is TRUE when the engine holds an event for *)
(* the driver.  The GPUs are external: they answer what they are sent.     *)
(***************************************************************************)
EXTENDS Naturals, SequencesExt

CONSTANTS
  App,         \* host threads
  Queue,       \* command queues
  QueueOf,     \* the queue a thread works on; threads may share one
  GPU,
  Kind,        \* the kinds of commands that are enqueued
  MaxCmd,      \* bound: commands enqueued, on all the queues
  GPUCap,      \* bound: requests in front of a GPU at a time
  None

ASSUME QueueOfAssumption == QueueOf \in [App -> Queue]
ASSUME KindAssumption == Kind \subseteq {"noop", "launch", "copy"}
ASSUME GPUAssumption == IsFiniteSet(GPU) /\ GPUCap \in Nat \ {0}

VARIABLES
  pc,              \* where a host thread is
  target,          \* commands in its queue when its drain began
  listeners,       \* threads subscribed to a queue
  enqueued,        \* commands enqueued so far
  commands,        \* q.commands
  IsRunning,       \* q.IsRunning
  reqs,            \* GetReqs() of the first command
  l2Dirty,         \* a kernel was launched: buffers are dirty in an L2
  notifying,       \* the queue whose Dequeue still has to notify
  requestsToSend,
  gpu,             \* requests in front of a GPU, oldest first
  gpuPort,         \* responses that came back, oldest first
  async,           \* where the goroutine of runAsync is
  tick,            \* the engine holds a tick of the driver
  engine           \* "off": engineRunning is FALSE

appVars   == <<pc, target, listeners, enqueued>>
queueVars == <<commands, IsRunning, reqs, l2Dirty, notifying>>
gpuVars   == <<requestsToSend, gpu, gpuPort>>
engVars   == <<async, tick, engine>>
vars == <<appVars, queueVars, gpuVars, engVars>>

Command == [num : Nat, kind : Kind]
Request == [queue : Queue, num : Nat,
            kind : {"launch", "flush", "copy"}, gpu : GPU]

TypeOK ==
  /\ pc \in [App -> {"host", "notify", "signal", "check", "toWait", "wait"}]
  /\ target \in [App -> Nat]
  /\ listeners \in [Queue -> SUBSET App]
  /\ enqueued \in [Queue -> Nat]
  /\ commands \in [Queue -> Seq(Command)]
  /\ IsRunning \in [Queue -> BOOLEAN]
  /\ reqs \in [Queue -> SUBSET Request]
  /\ l2Dirty \in BOOLEAN
  /\ notifying \in Queue \cup {None}
  /\ requestsToSend \in Seq(Request)
  /\ gpu \in [GPU -> Seq(Request)]
  /\ gpuPort \in Seq(Request)
  /\ async \in {"select", "tick", "flag"}
  /\ tick \in BOOLEAN
  /\ engine \in {"off", "running", "returned"}

Init ==
  /\ pc = [a \in App |-> "host"]
  /\ target = [a \in App |-> 0]
  /\ listeners = [q \in Queue |-> {}]
  /\ enqueued = [q \in Queue |-> 0]
  /\ commands = [q \in Queue |-> <<>>]
  /\ IsRunning = [q \in Queue |-> FALSE]
  /\ reqs = [q \in Queue |-> {}]
  /\ l2Dirty = FALSE
  /\ notifying = None
  /\ requestsToSend = <<>>
  /\ gpu = [g \in GPU |-> <<>>]
  /\ gpuPort = <<>>
  /\ async = "select"
  /\ tick = FALSE
  /\ engine = "off"

-----------------------------------------------------------------------------
(* Host threads.                                                           *)

\* A send on an unbuffered channel with a default: only a thread that is
\* blocked in Wait is woken.
Woken(q) ==
  [a \in App |-> IF a \in listeners[q] /\ pc[a] = "wait"
                   THEN "check" ELSE pc[a]]

\* A bound: a queue of the code takes any number of commands.
Room == FoldFunction(+, 0, enqueued) < MaxCmd

Enqueue(a) ==
  LET q == QueueOf[a] IN
  /\ pc[a] = "host"
  /\ Room
  /\ \E k \in Kind :
       commands' = [commands EXCEPT
                      ![q] = Append(@, [num |-> enqueued[q] + 1, kind |-> k])]
  /\ enqueued' = [enqueued EXCEPT ![q] = @ + 1]
  /\ pc' = [pc EXCEPT ![a] = "notify"]
  /\ UNCHANGED <<target, listeners, IsRunning, reqs, l2Dirty, notifying,
                 gpuVars, engVars>>

EnqueueNotify(a) ==
  /\ pc[a] = "notify"
  /\ pc' = [Woken(QueueOf[a]) EXCEPT ![a] = "host"]
  /\ UNCHANGED <<target, listeners, enqueued, queueVars, gpuVars, engVars>>

\* DrainCommandQueue up to the send on enqueueSignal
Subscribe(a) ==
  LET q == QueueOf[a] IN
  /\ pc[a] = "host"
  /\ listeners' = [listeners EXCEPT ![q] = @ \cup {a}]
  /\ target' = [target EXCEPT ![a] = enqueued[q]]
  /\ pc' = [pc EXCEPT ![a] = "signal"]
  /\ UNCHANGED <<enqueued, queueVars, gpuVars, engVars>>

\* enqueueSignal is unbuffered: thread and goroutine meet.
Signal(a) ==
  /\ pc[a] = "signal"
  /\ async = "select"
  /\ pc' = [pc EXCEPT ![a] = "check"]
  /\ async' = "tick"
  /\ UNCHANGED <<target, listeners, enqueued, queueVars, gpuVars,
                 tick, engine>>

\* mutant: the drain does not wait for a command that is running
CheckNotRunning(a) ==
  LET q == QueueOf[a] IN
  /\ pc[a] = "check"
  /\ IF Len(commands[q]) = 0 \/ IsRunning[q]
       THEN /\ listeners' = [listeners EXCEPT ![q] = @ \ {a}]
            /\ pc' = [pc EXCEPT ![a] = "host"]
       ELSE /\ pc' = [pc EXCEPT ![a] = "toWait"]
            /\ UNCHANGED listeners
  /\ UNCHANGED <<target, enqueued, queueVars, gpuVars, engVars>>

Check(a) ==
  LET q == QueueOf[a] IN
  /\ pc[a] = "check"
  /\ IF Len(commands[q]) = 0
       THEN /\ listeners' = [listeners EXCEPT ![q] = @ \ {a}]
            /\ pc' = [pc EXCEPT ![a] = "host"]
       ELSE /\ pc' = [pc EXCEPT ![a] = "toWait"]
            /\ UNCHANGED listeners
  /\ UNCHANGED <<target, enqueued, queueVars, gpuVars, engVars>>

Wait(a) ==
  /\ pc[a] = "toWait"
  /\ pc' = [pc EXCEPT ![a] = "wait"]
  /\ UNCHANGED <<target, listeners, enqueued, queueVars, gpuVars, engVars>>

-----------------------------------------------------------------------------
(* The goroutines of the driver.                                           *)

\* Pause, TickLater, Continue; Pause waits for the event that is handled.
AsyncTick ==
  /\ async = "tick"
  /\ notifying = None
  /\ tick' = TRUE
  /\ async' = "flag"
  /\ UNCHANGED <<appVars, queueVars, gpuVars, engine>>

AsyncFlag ==
  /\ async = "flag"
  /\ engine' = IF engine = "off" THEN "running" ELSE engine
  /\ async' = "select"
  /\ UNCHANGED <<appVars, queueVars, gpuVars, tick>>

\* Engine.Run returns when no event is left.
EngineReturns ==
  /\ engine = "running"
  /\ ~ tick
  /\ \A g \in GPU : gpu[g] = <<>>
  /\ engine' = "returned"
  /\ UNCHANGED <<appVars, queueVars, gpuVars, async, tick>>

RunEngineEnds ==
  /\ engine = "returned"
  /\ engine' = "off"
  /\ UNCHANGED <<appVars, queueVars, gpuVars, async, tick>>

-----------------------------------------------------------------------------
(* The handlers of Tick.                                                   *)

Ticking == engine = "running" /\ tick /\ notifying = None

CanSendToGPUs ==
  /\ requestsToSend # <<>>
  /\ Len(gpu[Head(requestsToSend).gpu]) < GPUCap

sendToGPUs ==
  /\ Ticking
  /\ CanSendToGPUs
  /\ LET req == Head(requestsToSend)
     IN  gpu' = [gpu EXCEPT ![req.gpu] = Append(@, req)]
  /\ requestsToSend' = Tail(requestsToSend)
  /\ UNCHANGED <<appVars, queueVars, gpuPort, engVars>>

\* The first command of q ends: IsRunning is reset and Dequeue called.
Dequeue(q) ==
  /\ commands' = [commands EXCEPT ![q] = Tail(@)]
  /\ IsRunning' = [IsRunning EXCEPT ![q] = FALSE]
  /\ notifying' = q

\* mutant: the queue stays marked as running
ReturnStillRunning(q, req) ==
  /\ gpuPort' = Tail(gpuPort)
  /\ reqs' = [reqs EXCEPT ![q] = @ \ {req}]
  /\ IF reqs[q] = {req}
       THEN /\ commands' = [commands EXCEPT ![q] = Tail(@)]
            /\ notifying' = q
            /\ UNCHANGED IsRunning
       ELSE UNCHANGED <<commands, IsRunning, notifying>>

\* The command of a returned request is looked up among the first commands
\* of all the queues; the look-up panics when there is none: the step is
\* then not enabled and CommandIsFound is false.
Return(q, req) ==
  /\ gpuPort' = Tail(gpuPort)
  /\ reqs' = [reqs EXCEPT ![q] = @ \ {req}]
  /\ IF reqs[q] = {req}
       THEN Dequeue(q)
       ELSE UNCHANGED <<commands, IsRunning, notifying>>

processLaunchKernelReturn(q) ==
  /\ Ticking
  /\ gpuPort # <<>>
  /\ Head(gpuPort).kind = "launch"
  /\ Head(gpuPort) \in reqs[q]
  /\ Return(q, Head(gpuPort))
  /\ UNCHANGED <<appVars, l2Dirty, requestsToSend, gpu, engVars>>

processMemCopyReturn(q) ==
  /\ Ticking
  /\ gpuPort # <<>>
  /\ Head(gpuPort).kind = "copy"
  /\ Head(gpuPort) \in reqs[q]
  /\ Return(q, Head(gpuPort))
  /\ UNCHANGED <<appVars, l2Dirty, requestsToSend, gpu, engVars>>

\* A flush that returns never ends the command.
processFlushReturn(q) ==
  /\ Ticking
  /\ gpuPort # <<>>
  /\ Head(gpuPort).kind = "flush"
  /\ Head(gpuPort) \in reqs[q]
  /\ gpuPort' = Tail(gpuPort)
  /\ reqs' = [reqs EXCEPT ![q] = @ \ {Head(gpuPort)}]
  /\ UNCHANGED <<appVars, commands, IsRunning, l2Dirty, notifying,
                 requestsToSend, gpu, engVars>>

\* mutant: a command that runs is started again
CanStartAgain(q, kind) ==
  /\ Ticking
  /\ commands[q] # <<>>
  /\ Head(commands[q]).kind = kind

CanStart(q, kind) ==
  /\ Ticking
  /\ commands[q] # <<>>
  /\ ~ IsRunning[q]
  /\ Head(commands[q]).kind = kind

ReqTo(q, kind, g) ==
  [queue |-> q, num |-> Head(commands[q]).num, kind |-> kind, gpu |-> g]

\* The requests of one kind are sent to the GPUs in the order of s.
ReqsTo(q, kind, s) == [i \in DOMAIN s |-> ReqTo(q, kind, s[i])]

\* The command starts with these requests, in this order.
Start(q, rs) ==
  /\ IsRunning' = [IsRunning EXCEPT ![q] = TRUE]
  /\ reqs' = [reqs EXCEPT ![q] = @ \cup ToSet(rs)]
  /\ requestsToSend' = requestsToSend \o rs

\* One GPU, or the GPUs of a unified one that get a work-group.
processLaunchKernelCommand(q) ==
  /\ CanStart(q, "launch")
  /\ \E S \in SUBSET GPU \ {{}} : \E s \in SetToSeqs(S) :
       Start(q, ReqsTo(q, "launch", s))
  /\ l2Dirty' = TRUE
  /\ UNCHANGED <<appVars, commands, notifying, gpu, gpuPort, engVars>>

\* A no-op, or a copy by the middleware that writes the global storage at
\* once, ends where it starts.
processNoopCommand(q) ==
  /\ CanStart(q, "noop")
  /\ Dequeue(q)
  /\ UNCHANGED <<appVars, reqs, l2Dirty, gpuVars, engVars>>

\* Copies to the GPUs that hold the pages, after a flush of every GPU when
\* the copy touches a dirty buffer.
processMemCopyCommand(q) ==
  /\ CanStart(q, "copy")
  /\ \E flush \in IF l2Dirty THEN BOOLEAN ELSE {FALSE} :
     \E S \in SUBSET GPU \ {{}} : \E s \in SetToSeqs(S) :
       LET flushes == IF flush THEN ReqsTo(q, "flush", SetToSeq(GPU)) ELSE <<>>
       IN  Start(q, flushes \o ReqsTo(q, "copy", s))
  /\ UNCHANGED <<appVars, commands, l2Dirty, notifying, gpu, gpuPort, engVars>>

DequeueNotify ==
  /\ notifying # None
  /\ pc' = Woken(notifying)
  /\ notifying' = None
  /\ UNCHANGED <<target, listeners, enqueued, commands, IsRunning, reqs,
                 l2Dirty, gpuVars, engVars>>

\* mutant: a response in the port does not count as progress
TickIdleNoReturn ==
  /\ Ticking
  /\ ~ CanSendToGPUs
  /\ \A q \in Queue : commands[q] = <<>> \/ IsRunning[q]
  /\ tick' = FALSE
  /\ UNCHANGED <<appVars, queueVars, gpuVars, async, engine>>

\* A tick without progress is the last one.
TickIdle ==
  /\ Ticking
  /\ ~ CanSendToGPUs
  /\ gpuPort = <<>>
  /\ \A q \in Queue : commands[q] = <<>> \/ IsRunning[q]
  /\ tick' = FALSE
  /\ UNCHANGED <<appVars, queueVars, gpuVars, async, engine>>

-----------------------------------------------------------------------------
(* A GPU answers in any order, but a copy waits for the flushes before it  *)
(* and a flush for the one before it.  The response schedules a tick.      *)

GPUReply(g) ==
  /\ engine = "running"
  /\ notifying = None
  /\ \E i \in DOMAIN gpu[g] :
       /\ gpu[g][i].kind = "launch"
            \/ \A j \in 1..(i - 1) : gpu[g][j].kind # "flush"
       /\ gpuPort' = Append(gpuPort, gpu[g][i])
       /\ gpu' = [gpu EXCEPT ![g] = RemoveAt(@, i)]
  /\ tick' = TRUE
  /\ UNCHANGED <<appVars, queueVars, requestsToSend, async, engine>>

-----------------------------------------------------------------------------
AppStep(a) == Check(a) \/ Wait(a) \/ EnqueueNotify(a)

AsyncStep == AsyncTick \/ AsyncFlag

TickStep ==
  \/ sendToGPUs \/ DequeueNotify \/ TickIdle
  \/ \E q \in Queue :
       \/ processLaunchKernelReturn(q)
       \/ processMemCopyReturn(q)
       \/ processFlushReturn(q)
       \/ processLaunchKernelCommand(q)
       \/ processNoopCommand(q)
       \/ processMemCopyCommand(q)

EngineStep == TickStep \/ EngineReturns \/ RunEngineEnds

Next ==
  \/ \E a \in App : Enqueue(a) \/ Subscribe(a) \/ Signal(a) \/ AppStep(a)
  \/ AsyncStep
  \/ EngineStep
  \/ \E g \in GPU : GPUReply(g)

\* Goroutines run; the threads that wait to send a signal are served first
\* come, first served; every GPU answers.
Fairness ==
  /\ \A a \in App : WF_vars(AppStep(a)) /\ SF_vars(Signal(a))
  /\ WF_vars(AsyncStep)
  /\ WF_vars(EngineStep)
  /\ \A g \in GPU : WF_vars(GPUReply(g))

Spec == Init /\ [][Next]_vars
FairSpec == Spec /\ Fairness

-----------------------------------------------------------------------------
(* Properties.                                                             *)

Outstanding ==
  ToSet(requestsToSend) \cup ToSet(gpuPort) \cup UNION {ToSet(gpu[g]) : g \in GPU}

\* A request that is anywhere on its way belongs to the first command of its
\* queue and is still expected by it: findCommandByReqID and findCommandByReq
\* find it and never panic.
CommandIsFound ==
  \A r \in Outstanding :
    /\ commands[r.queue] # <<>>
    /\ Head(commands[r.queue]).num = r.num
    /\ r \in reqs[r.queue]

\* When DrainCommandQueue returns, the commands that were in the queue when
\* it was called have ended and none of their requests is still out.
DrainMeansDone ==
  [][\A a \in App : pc[a] = "check" /\ pc'[a] = "host" =>
       /\ \A i \in DOMAIN commands[QueueOf[a]] :
            commands[QueueOf[a]][i].num > target[a]
       /\ \A r \in Outstanding :
            r.queue = QueueOf[a] => r.num > target[a]]_vars

\* The engine does not return from Run while a request is with a GPU or a
\* response with the driver: the work that was started is finished.
StartedWorkKeepsEngine ==
  (\E q \in Queue : reqs[q] # {}) => engine = "running"

\* The inductive invariant: a request is in one place only, at the GPU it is
\* for; the requests on their way are the ones that are expected, and they
\* belong to the first command of a queue that is marked as running; the
\* driver stops ticking only when a GPU has something left to answer.
PlacesInv ==
  /\ IsInjective(requestsToSend) /\ IsInjective(gpuPort)
  /\ ToSet(requestsToSend) \cap ToSet(gpuPort) = {}
  /\ \A g \in GPU :
       /\ IsInjective(gpu[g])
       /\ \A r \in ToSet(gpu[g]) : r.gpu = g
       /\ ToSet(gpu[g]) \cap (ToSet(requestsToSend) \cup ToSet(gpuPort)) = {}

ExpectedInv ==
  /\ \A q \in Queue : \A r \in reqs[q] :
       /\ r \in Outstanding
       /\ r.queue = q
       /\ IsRunning[q]
       /\ commands[q] # <<>>
       /\ Head(commands[q]).num = r.num
  /\ \A r \in Outstanding : r \in reqs[r.queue]

TickInv ==
  /\ (\E q \in Queue : reqs[q] # {}) => engine = "running"
  /\ ~ tick => /\ gpuPort = <<>>
               /\ requestsToSend # <<>> => gpu[Head(requestsToSend).gpu] # <<>>

IInv == TypeOK /\ PlacesInv /\ ExpectedInv /\ TickInv

\* A command that has started ends: its responses come back and the queue
\* is free for the next one.
StartedEnds == \A q \in Queue : IsRunning[q] ~> ~ IsRunning[q]

\* A doc comment: DrainCommandQueue returns when there is no command to
\* execute.
DrainReturns ==
  \A a \in App :
    (pc[a] = "wait" /\ commands[QueueOf[a]] = <<>>) ~> (pc[a] # "wait")
=============================================================================
