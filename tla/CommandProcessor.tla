-------------------------- MODULE CommandProcessor --------------------------
(***************************************************************************)
(* The command processor of a GPU (timing/cp/commandprocessor.go) with its *)
(* DMA engine: it takes the requests of the driver in order, hands         *)
(* launches to dispatchers, copies to the DMA engine, flushes to the       *)
(* caches, and stops and restarts the GPU around a page migration, stage   *)
(* by stage: what acknowledges a stage is only counted.                    *)
(*                                                                         *)
(* Around it: the command queues of the driver and its migration           *)
(* procedure as this GPU sees them (CommandQueues, PageMigration), the     *)
(* units that obey commands, and kernels that write into caches and wait   *)
(* for a page that migrates.  A message is under way from when it is sent  *)
(* until it is at the port of the receiver; ports of different senders     *)
(* keep no order.                                                          *)
(***************************************************************************)
EXTENDS DMAEngine, FiniteSets, FiniteSetsExt, SequencesExt

CONSTANTS
  CU, AT, Cache, TLB,  \* compute units, address translators, caches, TLBs
  NumDispatchers,
  MaxCommands,         \* commands of all the queues (a bound)
  MaxMigrations,       \* migrations (a bound)
  Earlier,             \* queues whose kernels of before have left dirty caches
  Overlap              \* the driver may flush while it stops or restarts the GPU

Unit == CU \cup AT \cup Cache \cup TLB
Order == Unit \X {"stop", "flush", "restart"}

ASSUME UnitAssumption ==
  /\ IsFiniteSet(Unit) /\ Overlap \in BOOLEAN /\ Earlier \subseteq Queue
  /\ CU # {} /\ AT # {} /\ Cache # {} /\ TLB # {}
  /\ CU \cap AT = {} /\ CU \cap Cache = {} /\ CU \cap TLB = {}
  /\ AT \cap Cache = {} /\ AT \cap TLB = {} /\ Cache \cap TLB = {}

VARIABLES
  \* the driver
  commands,            \* how many commands a queue has begun
  waitsFor,            \* the requests a queue waits for
  l2Dirty,             \* the queues whose buffers a kernel has dirtied
  migration,           \* where the migration procedure is
  migrations, shot, faulting,
  \* the command processor
  ToDriver, toDriverSender,
  numCUAck, numAddrTranslationFlushAck, numAddrTranslationRestartAck,
  numTLBAck, numCacheACK, shootDownInProcess, currFlushRequest,
  bottomMemCopy,       \* copies that were cloned to the DMA engine
  ToDMA,
  \* the units
  sent, acked,         \* orders under way, acknowledgements at the ports
  mode, relay,
  running, dirty       \* kernels that run; which queue dirtied which cache

migVars == <<migration, migrations, shot, faulting>>
drvVars == <<commands, waitsFor, l2Dirty, migVars>>
cntVars == <<numCUAck, numAddrTranslationFlushAck,
             numAddrTranslationRestartAck, numTLBAck, numCacheACK>>
cpVars  == <<cntVars, shootDownInProcess, currFlushRequest, bottomMemCopy>>
gpuVars == <<mode, running, dirty>>
unitVars == <<sent, acked, relay, gpuVars>>
copyVars == <<processingReq, toSendToMem, pendingReqs, memReqs, memRsps, memory, before>>
vars == <<dmaVars, drvVars, ToDriver, toDriverSender, cpVars, ToDMA, unitVars>>

Request ==
  [kind : {"launch", "flush"}, queue : Queue] \cup
  [kind : {"copy"}, queue : Queue, copy : Copies] \cup
  [kind : {"drain", "shootdown", "migrate", "restart", "rdmaRestart"}]
ASSUME NoneAssumption == None \notin Request \cup Copies

Relayed == {"drain", "rdmaRestart", "migrate"}

TypeOK ==
  /\ DMATypeOK
  /\ commands \in [Queue -> 0 .. MaxCommands]
  /\ \A q \in Queue : waitsFor[q] \subseteq Request
  /\ l2Dirty \subseteq Queue
  /\ migration \in 
       {"none", "drain", "drained", "shootdown", "shot", "migrate", "migrated",
        "restart", "restarted", "rdmaRestart"}
  /\ migrations \in 0 .. MaxMigrations
  /\ shot \in BOOLEAN
  /\ faulting \in Queue \cup {None}
  /\ ToDriver \in Seq(Request) /\ toDriverSender \in Seq(Request \cup {None})
  /\ \A n \in {numCUAck, numAddrTranslationFlushAck,
               numAddrTranslationRestartAck, numTLBAck, numCacheACK} : n \in Nat
  /\ shootDownInProcess \in BOOLEAN
  /\ currFlushRequest \in Request \cup {None}
  /\ bottomMemCopy \subseteq Copies
  /\ ToDMA \in Copies \cup {None}
  /\ sent \subseteq Order /\ acked \subseteq Order
  /\ mode \in [Unit -> {"run", "stopped"}]
  /\ relay \subseteq Relayed \X {"down", "up"}
  /\ running \subseteq Queue
  /\ dirty \subseteq Queue \X Cache

Init ==
  /\ DMAInit
  /\ commands = [q \in Queue |-> 0]
  /\ waitsFor = [q \in Queue |-> {}]
  /\ l2Dirty = Earlier
  /\ migration = "none" /\ migrations = 0 /\ shot = FALSE /\ faulting = None
  /\ ToDriver = <<>> /\ toDriverSender = <<>>
  /\ numCUAck = 0 /\ numAddrTranslationFlushAck = 0
  /\ numAddrTranslationRestartAck = 0 /\ numTLBAck = 0 /\ numCacheACK = 0
  /\ shootDownInProcess = FALSE /\ currFlushRequest = None
  /\ bottomMemCopy = {} /\ ToDMA = None
  /\ sent = {} /\ acked = {}
  /\ mode = [u \in Unit |-> "run"]
  /\ relay = {} /\ running = {} /\ dirty = Earlier \X Cache

-----------------------------------------------------------------------------
(* The driver: commands of its queues, and page migrations.                *)

Alone(kind) == [kind |-> kind]

\* This GPU is being stopped or restarted; a flush of the driver is not answered.
Stopping == migration \in {"shootdown", "restart"}
Flushing == \E q \in Queue : [kind |-> "flush", queue |-> q] \in waitsFor[q]

Begin(q, reqs) ==
  /\ FoldFunction(+, 0, commands) < MaxCommands
  /\ waitsFor[q] = {}
  /\ commands' = [commands EXCEPT ![q] = @ + 1]
  /\ waitsFor' = [waitsFor EXCEPT ![q] = ToSet(reqs)]
  /\ ToDriver' = ToDriver \o reqs

ProcessLaunchKernelCommand(q) ==
  /\ Begin(q, <<[kind |-> "launch", queue |-> q]>>)
  /\ l2Dirty' = l2Dirty \cup {q}
  /\ UNCHANGED <<dmaVars, migVars, toDriverSender, cpVars, ToDMA, unitVars>>

ProcessMemCopyCommand(q) ==
  \E c \in {copy \in Copies : copy.queue = q} :
    /\ q \in l2Dirty /\ ~ Overlap => ~ Stopping
    /\ Begin(q, (IF q \in l2Dirty THEN <<[kind |-> "flush", queue |-> q]>> ELSE <<>>)
                \o <<[kind |-> "copy", queue |-> q, copy |-> c]>>)
    /\ DstBuffer' = [DstBuffer EXCEPT ![q] = [a \in Addr |-> None]]
    /\ UNCHANGED <<dmaToCP, toSendToCP, copyVars, l2Dirty, migVars, toDriverSender, cpVars, ToDMA, unitVars>>

\* A step of the migration procedure begins when all GPUs have answered the
\* last one; it may concern this GPU, or only others.
Ask(from, kind) ==
  /\ migration = from
  /\ migration' = kind
  /\ ToDriver' = Append(ToDriver, Alone(kind))

Others(from, next) == migration = from /\ migration' = next /\ UNCHANGED ToDriver

DriverUnchanged ==
  UNCHANGED <<dmaVars, commands, waitsFor, l2Dirty, toDriverSender, cpVars,
              ToDMA, unitVars>>

\* A kernel here, or on another GPU, needs a page.
InitiateRDMADrain ==
  /\ migrations < MaxMigrations
  /\ migrations' = migrations + 1
  /\ faulting' \in running \cup {None}
  /\ Ask("none", "drain")
  /\ UNCHANGED shot /\ DriverUnchanged

SendShootDownReqs ==
  /\ \/ (Overlap \/ ~ Flushing) /\ shot' = TRUE /\ Ask("drained", "shootdown")
     \/ shot' = FALSE /\ Others("drained", "shot")
  /\ UNCHANGED <<migrations, faulting>> /\ DriverUnchanged

SendMigrationReqToCP ==
  /\ Ask("shot", "migrate") \/ Others("shot", "migrated")
  /\ UNCHANGED <<migrations, shot, faulting>> /\ DriverUnchanged

\* preparePageMigrationRspToMMU and prepareGPURestartReqs
PrepareGPURestartReqs ==
  /\ \/ shot /\ (Overlap \/ ~ Flushing) /\ Ask("migrated", "restart")
     \/ ~ shot /\ Others("migrated", "restarted")
  /\ faulting' = None
  /\ UNCHANGED <<migrations, shot>> /\ DriverUnchanged

PrepareRDMARestartReqs ==
  /\ Ask("restarted", "rdmaRestart")
  /\ UNCHANGED <<migrations, shot, faulting>> /\ DriverUnchanged

After == [drain |-> "drained", shootdown |-> "shot", migrate |-> "migrated",
          restart |-> "restarted", rdmaRestart |-> "none"]

\* An answer to a flush that the command processor has forgotten is nobody's.
ProcessReturnReq ==
  /\ toDriverSender # <<>>
  /\ toDriverSender' = Tail(toDriverSender)
  /\ LET r == Head(toDriverSender) IN
       \/ /\ r # None /\ r.kind \in DOMAIN After
          /\ migration' = After[r.kind]
          /\ UNCHANGED waitsFor
       \/ /\ r # None /\ r.kind \notin DOMAIN After
          /\ waitsFor' = [waitsFor EXCEPT ![r.queue] = @ \ {r}]
          /\ UNCHANGED migration
  /\ UNCHANGED <<dmaVars, commands, l2Dirty, migrations, shot, faulting,
                 ToDriver, cpVars, ToDMA, unitVars>>

-----------------------------------------------------------------------------
(* The command processor: requests of the driver, in order.                *)

Takes(kind) ==
  /\ ToDriver # <<>>
  /\ Head(ToDriver).kind = kind
  /\ ToDriver' = Tail(ToDriver)

Respond(r) == toDriverSender' = Append(toDriverSender, r)

Orders(units, order) == units \X {order}
Tell(units, order) == sent' = sent \cup Orders(units, order)

\* A launch waits for a dispatcher, and the requests behind it wait too.
ProcessLaunchKernelReq ==
  /\ Takes("launch")
  /\ Cardinality(running) < NumDispatchers
  /\ running' = running \cup {Head(ToDriver).queue}
  /\ UNCHANGED <<dmaVars, drvVars, toDriverSender, cpVars, ToDMA,
                 sent, acked, mode, relay, dirty>>

\* processRDMADrainCmd, processRDMARestartCommand, processPageMigrationReq
RelayDown(kind) ==
  /\ Takes(kind)
  /\ relay' = relay \cup {<<kind, "down">>}
  /\ UNCHANGED <<dmaVars, drvVars, toDriverSender, cpVars, ToDMA,
                 sent, acked, gpuVars>>

\* mutant: the answer is taken and not passed on
RelayUpSilent(kind) ==
  /\ <<kind, "up">> \in relay
  /\ relay' = relay \ {<<kind, "up">>}
  /\ UNCHANGED <<dmaVars, drvVars, ToDriver, toDriverSender, cpVars, ToDMA,
                 sent, acked, gpuVars>>

\* processRDMADrainRsp, processRDMARestartRsp, processPageMigrationRsp
RelayUp(kind) ==
  /\ <<kind, "up">> \in relay
  /\ relay' = relay \ {<<kind, "up">>}
  /\ Respond(Alone(kind))
  /\ UNCHANGED <<dmaVars, drvVars, ToDriver, cpVars, ToDMA,
                 sent, acked, gpuVars>>

ProcessShootdownCommand ==
  /\ ~ shootDownInProcess
  /\ Takes("shootdown")
  /\ shootDownInProcess' = TRUE
  /\ Tell(CU, "stop")
  /\ numCUAck' = numCUAck + Cardinality(CU)
  /\ UNCHANGED <<dmaVars, drvVars, toDriverSender, numAddrTranslationFlushAck,
                 numAddrTranslationRestartAck, numTLBAck, numCacheACK,
                 currFlushRequest, bottomMemCopy, ToDMA, acked, relay, gpuVars>>

ProcessGPURestartReq ==
  /\ Takes("restart")
  /\ Tell(Cache, "restart")
  /\ numCacheACK' = numCacheACK + Cardinality(Cache)
  /\ UNCHANGED <<dmaVars, drvVars, toDriverSender, numCUAck,
                 numAddrTranslationFlushAck, numAddrTranslationRestartAck,
                 numTLBAck, shootDownInProcess, currFlushRequest, bottomMemCopy,
                 ToDMA, acked, relay, gpuVars>>

ProcessFlushReq ==
  /\ numCacheACK = 0
  /\ Takes("flush")
  /\ Tell(Cache, "flush")
  /\ numCacheACK' = numCacheACK + Cardinality(Cache)
  /\ currFlushRequest' = Head(ToDriver)
  /\ UNCHANGED <<dmaVars, drvVars, toDriverSender, numCUAck,
                 numAddrTranslationFlushAck, numAddrTranslationRestartAck,
                 numTLBAck, shootDownInProcess, bottomMemCopy, ToDMA, acked,
                 relay, gpuVars>>

\* mutant: a copy does not wait for the caches
ProcessMemCopyReqAtOnce ==
  /\ Takes("copy")
  /\ bottomMemCopy' = bottomMemCopy \cup {Head(ToDriver).copy}
  /\ dmaToCP' = Append(dmaToCP, Head(ToDriver).copy)
  /\ UNCHANGED <<drvVars, toDriverSender, cntVars, shootDownInProcess,
                 currFlushRequest, ToDMA, unitVars, toSendToCP, DstBuffer, copyVars>>

ProcessMemCopyReq ==
  /\ numCacheACK = 0
  /\ Takes("copy")
  /\ bottomMemCopy' = bottomMemCopy \cup {Head(ToDriver).copy}
  /\ dmaToCP' = Append(dmaToCP, Head(ToDriver).copy)
  /\ UNCHANGED <<drvVars, toDriverSender, cntVars, shootDownInProcess,
                 currFlushRequest, ToDMA, unitVars, toSendToCP, DstBuffer, copyVars>>

\* send(ToCP) of the DMA engine
DMASendToCP ==
  /\ toSendToCP # <<>> /\ ToDMA = None
  /\ ToDMA' = Head(toSendToCP)
  /\ toSendToCP' = Tail(toSendToCP)
  /\ UNCHANGED <<drvVars, ToDriver, toDriverSender, cpVars, unitVars, dmaToCP,
                 DstBuffer, copyVars>>

ProcessMemCopyRsp ==
  /\ ToDMA # None /\ ToDMA \in bottomMemCopy
  /\ bottomMemCopy' = bottomMemCopy \ {ToDMA}
  /\ Respond([kind |-> "copy", queue |-> ToDMA.queue, copy |-> ToDMA])
  /\ ToDMA' = None
  /\ UNCHANGED <<dmaVars, drvVars, ToDriver, cntVars, shootDownInProcess,
                 currFlushRequest, unitVars>>

-----------------------------------------------------------------------------
(* The command processor: acknowledgements.  They are counted, and the     *)
(* last one of a stage begins the next.                                    *)

Acked(units, order) ==
  \E u \in units : <<u, order>> \in acked /\ acked' = acked \ {<<u, order>>}

AckUnchanged ==
  UNCHANGED <<dmaVars, drvVars, ToDriver, bottomMemCopy, ToDMA, relay, gpuVars>>

ProcessCUPipelineFlushRsp ==
  /\ Acked(CU, "stop")
  /\ numCUAck' = numCUAck - 1
  /\ IF numCUAck' = 0
       THEN /\ Tell(AT, "stop")
            /\ numAddrTranslationFlushAck' = numAddrTranslationFlushAck + Cardinality(AT)
       ELSE UNCHANGED <<sent, numAddrTranslationFlushAck>>
  /\ UNCHANGED <<toDriverSender, numAddrTranslationRestartAck, numTLBAck, numCacheACK,
                 shootDownInProcess, currFlushRequest>> /\ AckUnchanged

\* The acknowledgements of address translators do not say what they
\* acknowledge: the counters do.
ProcessAddressTranslatorFlushRsp ==
  /\ numAddrTranslationFlushAck > 0
  /\ \E order \in {"stop", "restart"} : Acked(AT, order)
  /\ numAddrTranslationFlushAck' = numAddrTranslationFlushAck - 1
  /\ IF numAddrTranslationFlushAck' = 0
       THEN /\ Tell(Cache, "stop")
            /\ numCacheACK' = numCacheACK + Cardinality(Cache)
       ELSE UNCHANGED <<sent, numCacheACK>>
  /\ UNCHANGED <<toDriverSender, numCUAck, numAddrTranslationRestartAck, numTLBAck,
                 shootDownInProcess, currFlushRequest>> /\ AckUnchanged

ProcessAddressTranslatorRestartRsp ==
  /\ numAddrTranslationFlushAck = 0 /\ numAddrTranslationRestartAck > 0
  /\ \E order \in {"stop", "restart"} : Acked(AT, order)
  /\ numAddrTranslationRestartAck' = numAddrTranslationRestartAck - 1
  /\ IF numAddrTranslationRestartAck' = 0
       THEN Tell(CU, "restart") /\ numCUAck' = numCUAck + Cardinality(CU)
       ELSE UNCHANGED <<sent, numCUAck>>
  /\ UNCHANGED <<toDriverSender, numAddrTranslationFlushAck, numTLBAck, numCacheACK,
                 shootDownInProcess, currFlushRequest>> /\ AckUnchanged

\* The last acknowledgement of the caches ends the flush of the driver, or
\* the stage of the shoot-down in process, whichever it was for.
ProcessCacheFlushRsp ==
  /\ \E order \in {"stop", "flush"} : Acked(Cache, order)
  /\ numCacheACK' = numCacheACK - 1
  /\ \/ numCacheACK' > 0 /\ UNCHANGED <<sent, numTLBAck, toDriverSender, currFlushRequest>>
     \/ /\ numCacheACK' = 0 /\ shootDownInProcess
        /\ Tell(TLB, "stop")
        /\ numTLBAck' = numTLBAck + Cardinality(TLB)
        /\ currFlushRequest' = None
        /\ UNCHANGED toDriverSender
     \/ /\ numCacheACK' = 0 /\ ~ shootDownInProcess
        /\ Respond(currFlushRequest)
        /\ currFlushRequest' = None
        /\ UNCHANGED <<sent, numTLBAck>>
  /\ UNCHANGED <<numCUAck, numAddrTranslationFlushAck, numAddrTranslationRestartAck,
                 shootDownInProcess>> /\ AckUnchanged

ProcessTLBFlushRsp ==
  /\ Acked(TLB, "stop")
  /\ numTLBAck' = numTLBAck - 1
  /\ IF numTLBAck' = 0
       THEN Respond(Alone("shootdown")) /\ shootDownInProcess' = FALSE
       ELSE UNCHANGED <<toDriverSender, shootDownInProcess>>
  /\ UNCHANGED <<sent, numCUAck, numAddrTranslationFlushAck,
                 numAddrTranslationRestartAck, numCacheACK, currFlushRequest>> /\ AckUnchanged

\* mutant: the TLBs restart with the first cache
ProcessCacheRestartRspFirst ==
  /\ Acked(Cache, "restart")
  /\ numCacheACK' = numCacheACK - 1
  /\ IF numCacheACK = Cardinality(Cache)
       THEN Tell(TLB, "restart") /\ numTLBAck' = numTLBAck + Cardinality(TLB)
       ELSE UNCHANGED <<sent, numTLBAck>>
  /\ UNCHANGED <<toDriverSender, numCUAck, numAddrTranslationFlushAck,
                 numAddrTranslationRestartAck, shootDownInProcess, currFlushRequest>>
  /\ AckUnchanged

ProcessCacheRestartRsp ==
  /\ Acked(Cache, "restart")
  /\ numCacheACK' = numCacheACK - 1
  /\ IF numCacheACK' = 0
       THEN Tell(TLB, "restart") /\ numTLBAck' = numTLBAck + Cardinality(TLB)
       ELSE UNCHANGED <<sent, numTLBAck>>
  /\ UNCHANGED <<toDriverSender, numCUAck, numAddrTranslationFlushAck,
                 numAddrTranslationRestartAck, shootDownInProcess, currFlushRequest>>
  /\ AckUnchanged

ProcessTLBRestartRsp ==
  /\ Acked(TLB, "restart")
  /\ numTLBAck' = numTLBAck - 1
  /\ IF numTLBAck' = 0
       THEN /\ Tell(AT, "restart")
            /\ numAddrTranslationRestartAck' = numAddrTranslationRestartAck + Cardinality(AT)
       ELSE UNCHANGED <<sent, numAddrTranslationRestartAck>>
  /\ UNCHANGED <<toDriverSender, numCUAck, numAddrTranslationFlushAck, numCacheACK,
                 shootDownInProcess, currFlushRequest>> /\ AckUnchanged

ProcessCUPipelineRestartRsp ==
  /\ Acked(CU, "restart")
  /\ numCUAck' = numCUAck - 1
  /\ IF numCUAck' = 0 THEN Respond(Alone("restart")) ELSE UNCHANGED toDriverSender
  /\ UNCHANGED <<sent, numAddrTranslationFlushAck, numAddrTranslationRestartAck,
                 numTLBAck, numCacheACK, shootDownInProcess, currFlushRequest>>
  /\ AckUnchanged

-----------------------------------------------------------------------------
(* The units and the kernels, external to the command processor.           *)

\* A unit carries out an order; a cache that is flushed or stopped writes
\* back what kernels wrote.
Obey(u, order) ==
  /\ <<u, order>> \in sent
  /\ sent' = sent \ {<<u, order>>}
  /\ acked' = acked \cup {<<u, order>>}
  /\ mode' = [mode EXCEPT ![u] =
       CASE order = "stop" -> "stopped" [] order = "restart" -> "run" [] OTHER -> @]
  /\ dirty' = IF order = "restart" THEN dirty ELSE {d \in dirty : d[2] # u}
  /\ UNCHANGED <<dmaVars, drvVars, ToDriver, toDriverSender, cpVars, ToDMA,
                 relay, running>>

\* An RDMA engine or a page migration controller serves its command.
ServeRelayed(kind) ==
  /\ <<kind, "down">> \in relay
  /\ relay' = (relay \ {<<kind, "down">>}) \cup {<<kind, "up">>}
  /\ UNCHANGED <<dmaVars, drvVars, ToDriver, toDriverSender, cpVars, ToDMA,
                 sent, acked, gpuVars>>

CUsRun == \A u \in CU : mode[u] = "run"

KernelWrites(q, c) ==
  /\ q \in running /\ CUsRun
  /\ dirty' = dirty \cup {<<q, c>>}
  /\ UNCHANGED <<dmaVars, drvVars, ToDriver, toDriverSender, cpVars, ToDMA,
                 sent, acked, mode, relay, running>>

\* The dispatcher answers the launch.  A kernel that waits for a page cannot end.
KernelEnds(q) ==
  /\ q \in running /\ CUsRun /\ faulting # q
  /\ running' = running \ {q}
  /\ Respond([kind |-> "launch", queue |-> q])
  /\ UNCHANGED <<dmaVars, drvVars, ToDriver, cpVars, ToDMA, sent, acked, mode,
                 relay, dirty>>

-----------------------------------------------------------------------------
DriverStep ==
  \/ SendShootDownReqs \/ SendMigrationReqToCP \/ PrepareGPURestartReqs
  \/ PrepareRDMARestartReqs \/ ProcessReturnReq

RequestStep ==
  \/ ProcessLaunchKernelReq \/ ProcessFlushReq \/ ProcessMemCopyReq
  \/ ProcessShootdownCommand \/ ProcessGPURestartReq
  \/ \E kind \in Relayed : RelayDown(kind)

AckStep ==
  \/ ProcessCUPipelineFlushRsp \/ ProcessAddressTranslatorFlushRsp
  \/ ProcessCacheFlushRsp \/ ProcessTLBFlushRsp
  \/ ProcessCacheRestartRsp \/ ProcessTLBRestartRsp
  \/ ProcessAddressTranslatorRestartRsp \/ ProcessCUPipelineRestartRsp
  \/ ProcessMemCopyRsp
  \/ \E kind \in Relayed : RelayUp(kind)

CPStep == RequestStep \/ AckStep

CopyStep ==
  \/ DMASendToCP
  \/ DMAStep /\ UNCHANGED <<drvVars, ToDriver, toDriverSender, cpVars, ToDMA, unitVars>>

UnitStep ==
  \/ \E u \in Unit, order \in {"stop", "flush", "restart"} : Obey(u, order)
  \/ \E kind \in Relayed : ServeRelayed(kind)

Next ==
  \/ \E q \in Queue : ProcessLaunchKernelCommand(q) \/ ProcessMemCopyCommand(q)
  \/ InitiateRDMADrain \/ DriverStep \/ CPStep \/ CopyStep \/ UnitStep
  \/ \E q \in Queue : KernelEnds(q) \/ \E c \in Cache : KernelWrites(q, c)

Spec == Init /\ [][Next]_vars

\* Components with something to do tick until it is done, and a kernel whose
\* page is there ends.
Fairness ==
  /\ WF_vars(DriverStep) /\ WF_vars(CPStep) /\ WF_vars(CopyStep) /\ WF_vars(UnitStep)
  /\ \A q \in Queue : WF_vars(KernelEnds(q))

FairSpec == Spec /\ Fairness

-----------------------------------------------------------------------------
(* What the command processor promises.                                    *)

\* While the GPU is stopped and restarted, a unit never runs without those it
\* depends on: compute units need translators, translators need caches and
\* TLBs, and no TLB forgets a translation while a cache still holds data under
\* it.  All are stopped when the shoot-down is answered, and all run when the
\* restart is, although the stages are told apart by counters only, and those
\* of the caches and the translators serve several purposes
\* (commandprocessor.go:381-640).
StagesInOrder ==
  /\ \A u \in CU, t \in AT : mode[u] = "run" => mode[t] = "run"
  /\ \A t \in AT, u \in Cache \cup TLB : mode[t] = "run" => mode[u] = "run"
  /\ shootDownInProcess =>
       \A c \in Cache, t \in TLB : mode[c] = "run" => mode[t] = "run"
  /\ \A i \in DOMAIN toDriverSender :
       /\ toDriverSender[i] = Alone("shootdown") => \A u \in Unit : mode[u] = "stopped"
       /\ toDriverSender[i] = Alone("restart") => \A u \in Unit : mode[u] = "run"

\* A shoot-down that is answered has drained every compute unit, as
\* protocol/driverprotocol.go:168 says.  Not so if the driver flushes
\* meanwhile: the last cache then passes for the last of the shoot-down.
ShootdownDrains ==
  \A i \in DOMAIN toDriverSender : toDriverSender[i] = Alone("shootdown") =>
    \A u \in CU : mode[u] = "stopped"

\* A copy that the DMA engine works on finds nothing of its queue left in a
\* cache: the flush before it has reached every cache
\* (commandprocessor.go:751-753, 799-801).
CopyIsFresh ==
  processingReq # None => \A c \in Cache : <<processingReq.queue, c>> \notin dirty

\* A copy ends when all its bytes, and no others, have arrived.
CopyIsExact ==
  [][processingReq # None /\ processingReq' = None
       => Arrived(processingReq, memory', DstBuffer')]_vars

\* Every command of a queue is answered, and every migration ends.
EverythingAnswered ==
  /\ \A q \in Queue : waitsFor[q] # {} ~> waitsFor[q] = {}
  /\ migration # "none" ~> migration = "none"
=============================================================================
