--------------------------- MODULE PageMigration ---------------------------
(***************************************************************************)
(* The migration of pages between GPUs: the part of the driver that serves *)
(* the MMU (driver/driver.go), the command processors that carry out its   *)
(* commands (timing/cp/commandprocessor.go), and what these stop, copy and *)
(* restart: compute units, caches, TLBs, RDMA engines and page migration   *)
(* controllers.                                                            *)
(*                                                                         *)
(* The data of a page is a version number; latest[p] is the version that   *)
(* the last write of a compute unit to p made.  A frame is a page of       *)
(* physical memory, named by its GPU and its position there.               *)
(*                                                                         *)
(* The stages of a shoot-down and of a restart inside a GPU are steps of   *)
(* one variable: what is abstracted is how many units acknowledge a stage. *)
(* An RDMA engine is abstracted to what module RDMA proves of it: it       *)
(* acknowledges a drain when nothing it forwarded is left unanswered.      *)
(***************************************************************************)
EXTENDS Naturals, Sequences, FiniteSets

CONSTANTS
  NumGPUs, NumPages,
  Place,          \* Place[p] is the GPU that holds page p at first
  MaxMigrations,  \* pages the MMU asks to migrate
  MaxWrites,      \* writes the compute units begin
  None            \* an empty slot

GPU  == 1 .. NumGPUs
Page == 1 .. NumPages
Frame == GPU \X (1 .. NumPages + MaxMigrations)
Version == 0 .. MaxWrites

ASSUME PlaceAssumption == Place \in [Page -> GPU]
ASSUME BoundAssumption ==
  {NumGPUs, NumPages, MaxMigrations, MaxWrites} \subseteq Nat

Device(f) == f[1]

\* The pages each GPU asks for (GPUReqToVAddrMap), the GPU that holds them
\* and those that may be using them (CurrAccessingGPUs).
MigrationReq == [want : [Page -> GPU \cup {None}], host : GPU,
                 accessing : SUBSET GPU]
Wanted(req) == {p \in Page : req.want[p] # None}

Command == [kind : {"drain", "shootdown", "restart", "rdmaRestart"},
            gpu : GPU, vAddr : SUBSET Page]
CopyReq == [kind : {"migrate"}, gpu : GPU, from : GPU \X Nat, to : GPU \X Nat]

\* What a controller knows of the page it copies.
Copy == [from : GPU \X Nat, to : GPU \X Nat, data : Nat \cup {None},
         done : BOOLEAN]
Rsp == {"drainRsp", "shootdownRsp", "migrateRsp", "restartRsp",
        "rdmaRestartRsp"}
Stages == {"run", "cuFlush", "atFlush", "cacheFlush", "tlbFlush", "stopped",
           "cacheRestart", "tlbRestart", "atRestart", "cuRestart"}

\* A write on its way to another GPU; it is stale when the L1 that sent it
\* has forgotten it and its compute unit will send it again.
Access == [page : Page, frame : Frame, stale : BOOLEAN]

ASSUME NoneAssumption ==
  /\ None \notin Nat /\ None \notin Rsp
  /\ None \notin MigrationReq /\ None \notin Command
  /\ None \notin CopyReq /\ None \notin Copy

VARIABLES
  \* the driver
  requestsToSend, migrationReqToSendToCP, currentPageMigrationReq,
  isCurrentlyHandlingMigrationReq, isCurrentlyMigratingOnePage,
  numRDMADrainACK, numShootDownACK, numPagesMigratingACK, numRestartACK,
  numRDMARestartACK, toSendToMMU,
  \* the MMU, the page table and the allocator
  mmuPort, mmuRsp, isDoingMigration, asked,
  pageTable, isMigrating, allocated,
  \* the command processors and the ports between them and the driver
  toCP, fromCP, stage, currShootdownRequest,
  \* the RDMA engines and the page migration controllers
  rdma, toRDMA,
  flight,         \* the transaction an RDMA engine waits for
  carried,        \* engines whose request or answer is under way
  pmc,
  \* TLBs, L2 caches and memories
  tlb, l2, mem, latest, writes

cntVars  == <<numRDMADrainACK, numShootDownACK, numPagesMigratingACK,
              numRestartACK, numRDMARestartACK>>
flagVars == <<currentPageMigrationReq, isCurrentlyHandlingMigrationReq,
              isCurrentlyMigratingOnePage>>
sendVars == <<requestsToSend, migrationReqToSendToCP, toSendToMMU>>
drvVars  == <<cntVars, flagVars, sendVars>>
mmuVars  == <<mmuPort, mmuRsp, isDoingMigration, asked>>
pageVars == <<pageTable, isMigrating, allocated>>
linkVars == <<toCP, fromCP>>
cpVars   == <<stage, currShootdownRequest>>
rdmaVars == <<rdma, toRDMA, flight, carried>>
memVars  == <<tlb, l2, mem, latest, writes>>
gpuVars  == <<cpVars, rdmaVars, pmc>>
vars == <<drvVars, mmuVars, pageVars, linkVars, gpuVars, memVars>>

TypeOK ==
  /\ requestsToSend \in Seq(Command)
  /\ migrationReqToSendToCP \in Seq(CopyReq)
  /\ currentPageMigrationReq \in MigrationReq \cup {None}
  /\ isCurrentlyHandlingMigrationReq \in BOOLEAN
  /\ isCurrentlyMigratingOnePage \in BOOLEAN
  /\ numRDMADrainACK \in Nat /\ numShootDownACK \in Nat
  /\ numPagesMigratingACK \in Nat
  /\ numRestartACK \in Nat /\ numRDMARestartACK \in Nat
  /\ toSendToMMU \in (SUBSET Page) \cup {None}
  /\ mmuPort \in MigrationReq \cup {None}
  /\ mmuRsp \in (SUBSET Page) \cup {None}
  /\ isDoingMigration \in BOOLEAN
  /\ asked \in 0 .. MaxMigrations
  /\ pageTable \in [Page -> Frame]
  /\ isMigrating \in [Page -> BOOLEAN]
  /\ allocated \in [GPU -> Nat]
  /\ toCP \in [GPU -> Command \cup CopyReq \cup {None}]
  /\ fromCP \in [GPU -> Rsp \cup {None}]
  /\ stage \in [GPU -> Stages]
  /\ currShootdownRequest \in [GPU -> SUBSET Page]
  /\ rdma \in [GPU -> {"run", "draining", "paused"}]
  /\ toRDMA \in [GPU -> Access \cup {None}]
  /\ flight \in [GPU -> Access \cup {None}]
  /\ carried \subseteq GPU
  /\ pmc \in [GPU -> Copy \cup {None}]
  /\ tlb \in [GPU -> [Page -> Frame \cup {None}]]
  /\ l2 \in [Frame -> Version \cup {None}]
  /\ mem \in [Frame -> Version]
  /\ latest \in [Page -> Version]
  /\ writes \in 0 .. MaxWrites

Init ==
  /\ requestsToSend = <<>> /\ migrationReqToSendToCP = <<>>
  /\ currentPageMigrationReq = None
  /\ isCurrentlyHandlingMigrationReq = FALSE
  /\ isCurrentlyMigratingOnePage = FALSE
  /\ numRDMADrainACK = 0 /\ numShootDownACK = 0 /\ numPagesMigratingACK = 0
  /\ numRestartACK = 0 /\ numRDMARestartACK = 0
  /\ toSendToMMU = None
  /\ mmuPort = None /\ mmuRsp = None
  /\ isDoingMigration = FALSE /\ asked = 0
  /\ pageTable = [p \in Page |-> <<Place[p], p>>]
  /\ isMigrating = [p \in Page |-> FALSE]
  /\ allocated = [g \in GPU |-> NumPages]
  /\ toCP = [g \in GPU |-> None] /\ fromCP = [g \in GPU |-> None]
  /\ stage = [g \in GPU |-> "run"]
  /\ currShootdownRequest = [g \in GPU |-> {}]
  /\ rdma = [g \in GPU |-> "run"]
  /\ toRDMA = [g \in GPU |-> None] /\ flight = [g \in GPU |-> None]
  /\ carried = {}
  /\ pmc = [g \in GPU |-> None]
  /\ tlb = [g \in GPU |-> [p \in Page |-> None]]
  /\ l2 = [f \in Frame |-> None] /\ mem = [f \in Frame |-> 0]
  /\ latest = [p \in Page |-> 0] /\ writes = 0

-----------------------------------------------------------------------------
(* The driver.                                                             *)

\* The numbers of a set in ascending order.
Ascending(S) ==
  [i \in 1 .. Cardinality(S) |->
     CHOOSE x \in S : Cardinality({y \in S : y <= x}) = i]

\* One command of a kind for each GPU of a set.
ToEach(kind, gpus, vAddr) ==
  [i \in 1 .. Cardinality(gpus) |->
     [kind |-> kind, gpu |-> Ascending(gpus)[i], vAddr |-> vAddr]]

ParseFromMMU ==
  /\ ~ isCurrentlyHandlingMigrationReq
  /\ mmuPort # None
  /\ mmuPort' = None
  /\ currentPageMigrationReq' = mmuPort
  /\ isCurrentlyHandlingMigrationReq' = TRUE
  /\ requestsToSend' = requestsToSend \o ToEach("drain", GPU, {})
  /\ numRDMADrainACK' = numRDMADrainACK + NumGPUs
  /\ UNCHANGED <<isCurrentlyMigratingOnePage, numShootDownACK,
                 numPagesMigratingACK, numRestartACK, numRDMARestartACK,
                 migrationReqToSendToCP, toSendToMMU, mmuRsp,
                 isDoingMigration, asked, pageVars, linkVars, gpuVars,
                 memVars>>

SendToGPUs ==
  /\ requestsToSend # <<>>
  /\ LET req == Head(requestsToSend)
     IN  /\ toCP[req.gpu] = None
         /\ toCP' = [toCP EXCEPT ![req.gpu] = req]
  /\ requestsToSend' = Tail(requestsToSend)
  /\ UNCHANGED <<cntVars, flagVars, migrationReqToSendToCP, toSendToMMU,
                 mmuVars, pageVars, fromCP, gpuVars, memVars>>

\* mutant: the pages are sent without waiting for each other
SendMigrationReqAtOnce ==
  /\ migrationReqToSendToCP # <<>>
  /\ LET req == Head(migrationReqToSendToCP)
     IN  /\ toCP[req.gpu] = None
         /\ toCP' = [toCP EXCEPT ![req.gpu] = req]
  /\ migrationReqToSendToCP' = Tail(migrationReqToSendToCP)
  /\ isCurrentlyMigratingOnePage' = TRUE
  /\ UNCHANGED <<cntVars, currentPageMigrationReq,
                 isCurrentlyHandlingMigrationReq, requestsToSend, toSendToMMU,
                 mmuVars, pageVars, fromCP, gpuVars, memVars>>

SendMigrationReqToCP ==
  /\ migrationReqToSendToCP # <<>>
  /\ ~ isCurrentlyMigratingOnePage
  /\ LET req == Head(migrationReqToSendToCP)
     IN  /\ toCP[req.gpu] = None
         /\ toCP' = [toCP EXCEPT ![req.gpu] = req]
  /\ migrationReqToSendToCP' = Tail(migrationReqToSendToCP)
  /\ isCurrentlyMigratingOnePage' = TRUE
  /\ UNCHANGED <<cntVars, currentPageMigrationReq,
                 isCurrentlyHandlingMigrationReq, requestsToSend, toSendToMMU,
                 mmuVars, pageVars, fromCP, gpuVars, memVars>>

\* processReturnReq takes the response of a GPU from the port.
Receive(g, rsp) ==
  /\ fromCP[g] = rsp
  /\ fromCP' = [fromCP EXCEPT ![g] = None]

\* The last answer makes sendShootDownReqs shoot down the accessing GPUs.
ProcessRDMADrainRsp(g) ==
  /\ Receive(g, "drainRsp")
  /\ numRDMADrainACK' = numRDMADrainACK - 1
  /\ IF numRDMADrainACK' = 0
       THEN /\ numShootDownACK' = Cardinality(currentPageMigrationReq.accessing)
            /\ requestsToSend' = requestsToSend \o
                 ToEach("shootdown", currentPageMigrationReq.accessing,
                        Wanted(currentPageMigrationReq))
       ELSE UNCHANGED <<numShootDownACK, requestsToSend>>
  /\ UNCHANGED <<numPagesMigratingACK, numRestartACK, numRDMARestartACK,
                 flagVars, migrationReqToSendToCP, toSendToMMU, mmuVars,
                 pageVars, toCP, gpuVars, memVars>>

\* The frame AllocatePageWithGivenVAddr takes for page p on the GPU that
\* wants it: the next one, after those of the smaller pages of the request.
NewFrame(req, p) ==
  LET g == req.want[p]
  IN  <<g, allocated[g] + Cardinality({q \in 1 .. p : req.want[q] = g})>>

\* preparePageForMigration for every page of the request.
PreparePages(req) ==
  LET order == Ascending(Wanted(req))
  IN  /\ pageTable' = [p \in Page |-> IF p \in Wanted(req)
                                        THEN NewFrame(req, p)
                                        ELSE pageTable[p]]
      /\ isMigrating' = [p \in Page |-> p \in Wanted(req) \/ isMigrating[p]]
      /\ allocated' = [g \in GPU |->
           allocated[g] + Cardinality({p \in Page : req.want[p] = g})]
      /\ migrationReqToSendToCP' = migrationReqToSendToCP \o
           [i \in DOMAIN order |->
              [kind |-> "migrate", gpu |-> req.want[order[i]],
               from |-> pageTable[order[i]],
               to |-> NewFrame(req, order[i])]]
      /\ numPagesMigratingACK' =
           numPagesMigratingACK + Cardinality(Wanted(req))

\* The code walks the pages in the order of a Go map, here ascending.
ProcessShootdownCompleteRsp(g) ==
  /\ Receive(g, "shootdownRsp")
  /\ numShootDownACK' = numShootDownACK - 1
  /\ IF numShootDownACK' = 0
       THEN PreparePages(currentPageMigrationReq)
       ELSE UNCHANGED <<pageVars, migrationReqToSendToCP, numPagesMigratingACK>>
  /\ UNCHANGED <<numRDMADrainACK, numRestartACK, numRDMARestartACK, flagVars,
                 requestsToSend, toSendToMMU, mmuVars, toCP, gpuVars, memVars>>

\* mutant: the next page is never allowed to be sent
ProcessPageMigrationRspStuck(g) ==
  /\ Receive(g, "migrateRsp")
  /\ numPagesMigratingACK' = numPagesMigratingACK - 1
  /\ IF numPagesMigratingACK' = 0
       THEN LET gpus == currentPageMigrationReq.accessing
            IN  /\ requestsToSend' =
                     requestsToSend \o ToEach("restart", gpus, {})
                /\ numRestartACK' = numRestartACK + Cardinality(gpus)
                /\ toSendToMMU' = Wanted(currentPageMigrationReq)
       ELSE UNCHANGED <<requestsToSend, numRestartACK, toSendToMMU>>
  /\ UNCHANGED <<numRDMADrainACK, numShootDownACK, numRDMARestartACK,
                 flagVars, migrationReqToSendToCP, mmuVars, pageVars, toCP,
                 gpuVars, memVars>>

\* After the last page, prepareGPURestartReqs and preparePageMigrationRspToMMU.
ProcessPageMigrationRspFromCP(g) ==
  /\ Receive(g, "migrateRsp")
  /\ numPagesMigratingACK' = numPagesMigratingACK - 1
  /\ isCurrentlyMigratingOnePage' = FALSE
  /\ IF numPagesMigratingACK' = 0
       THEN LET gpus == currentPageMigrationReq.accessing
            IN  /\ requestsToSend' =
                     requestsToSend \o ToEach("restart", gpus, {})
                /\ numRestartACK' = numRestartACK + Cardinality(gpus)
                /\ toSendToMMU' = Wanted(currentPageMigrationReq)
       ELSE UNCHANGED <<requestsToSend, numRestartACK, toSendToMMU>>
  /\ UNCHANGED <<numRDMADrainACK, numShootDownACK, numRDMARestartACK,
                 currentPageMigrationReq, isCurrentlyHandlingMigrationReq,
                 migrationReqToSendToCP, mmuVars, pageVars, toCP, gpuVars,
                 memVars>>

\* mutant: the RDMA engines restart with the first GPU
HandleGPURestartRspFirst(g) ==
  /\ Receive(g, "restartRsp")
  /\ numRestartACK' = numRestartACK - 1
  /\ IF numRestartACK = Cardinality(currentPageMigrationReq.accessing)
       THEN /\ requestsToSend' =
                 requestsToSend \o ToEach("rdmaRestart", GPU, {})
            /\ numRDMARestartACK' = numRDMARestartACK + NumGPUs
       ELSE UNCHANGED <<requestsToSend, numRDMARestartACK>>
  /\ UNCHANGED <<numRDMADrainACK, numShootDownACK, numPagesMigratingACK,
                 flagVars, migrationReqToSendToCP, toSendToMMU, mmuVars,
                 pageVars, toCP, gpuVars, memVars>>

\* The last answer makes prepareRDMARestartReqs restart every RDMA engine.
HandleGPURestartRsp(g) ==
  /\ Receive(g, "restartRsp")
  /\ numRestartACK' = numRestartACK - 1
  /\ IF numRestartACK' = 0
       THEN /\ requestsToSend' =
                 requestsToSend \o ToEach("rdmaRestart", GPU, {})
            /\ numRDMARestartACK' = numRDMARestartACK + NumGPUs
       ELSE UNCHANGED <<requestsToSend, numRDMARestartACK>>
  /\ UNCHANGED <<numRDMADrainACK, numShootDownACK, numPagesMigratingACK,
                 flagVars, migrationReqToSendToCP, toSendToMMU, mmuVars,
                 pageVars, toCP, gpuVars, memVars>>

ProcessRDMARestartRspToDriver(g) ==
  /\ Receive(g, "rdmaRestartRsp")
  /\ numRDMARestartACK' = numRDMARestartACK - 1
  /\ IF numRDMARestartACK' = 0
       THEN /\ currentPageMigrationReq' = None
            /\ isCurrentlyHandlingMigrationReq' = FALSE
       ELSE UNCHANGED <<currentPageMigrationReq,
                        isCurrentlyHandlingMigrationReq>>
  /\ UNCHANGED <<numRDMADrainACK, numShootDownACK, numPagesMigratingACK,
                 numRestartACK, isCurrentlyMigratingOnePage, sendVars,
                 mmuVars, pageVars, toCP, gpuVars, memVars>>

SendToMMU ==
  /\ toSendToMMU # None
  /\ mmuRsp = None
  /\ mmuRsp' = toSendToMMU
  /\ toSendToMMU' = None
  /\ UNCHANGED <<cntVars, flagVars, requestsToSend, migrationReqToSendToCP,
                 mmuPort, isDoingMigration, asked, pageVars, linkVars,
                 gpuVars, memVars>>

-----------------------------------------------------------------------------
(* The command processor of a GPU and what it commands.                    *)

Taken(g) == toCP' = [toCP EXCEPT ![g] = None]

Answered(g, rsp) ==
  /\ fromCP[g] = None
  /\ fromCP' = [fromCP EXCEPT ![g] = rsp]

\* The command is passed on, and the engine forwards nothing more.
ProcessRDMADrainCmd(g) ==
  /\ toCP[g] # None /\ toCP[g].kind = "drain"
  /\ Taken(g)
  /\ rdma' = [rdma EXCEPT ![g] = "draining"]
  /\ UNCHANGED <<drvVars, mmuVars, pageVars, fromCP, cpVars, toRDMA, flight,
                 carried, pmc, memVars>>

DrainRDMA(g) ==
  /\ rdma[g] = "draining"
  /\ flight[g] = None
  /\ rdma' = [rdma EXCEPT ![g] = "paused"]
  /\ Answered(g, "drainRsp")
  /\ UNCHANGED <<drvVars, mmuVars, pageVars, toCP, cpVars, toRDMA, flight,
                 carried, pmc, memVars>>

ProcessRDMARestartCommand(g) ==
  /\ toCP[g] # None /\ toCP[g].kind = "rdmaRestart"
  /\ Taken(g)
  /\ rdma' = [rdma EXCEPT ![g] = "run"]
  /\ Answered(g, "rdmaRestartRsp")
  /\ UNCHANGED <<drvVars, mmuVars, pageVars, cpVars, toRDMA, flight, carried,
                 pmc, memVars>>

\* There is no shoot-down in process: stage[g] would not be "run".
ProcessShootdownCommand(g) ==
  /\ toCP[g] # None /\ toCP[g].kind = "shootdown"
  /\ stage[g] \notin {"cuFlush", "atFlush", "cacheFlush", "tlbFlush"}
  /\ Taken(g)
  /\ currShootdownRequest' =
       [currShootdownRequest EXCEPT ![g] = toCP[g].vAddr]
  /\ stage' = [stage EXCEPT ![g] = "cuFlush"]
  /\ UNCHANGED <<drvVars, mmuVars, pageVars, fromCP, rdmaVars, pmc, memVars>>

\* The last unit of a stage has acknowledged, and the units of the next
\* stage are sent their command.
NextStage(g, now, next) ==
  /\ stage[g] = now
  /\ stage' = [stage EXCEPT ![g] = next]

UnitsAcknowledge(g) ==
  /\ \/ NextStage(g, "cuFlush", "atFlush")       \* processCUPipelineFlushRsp
     \/ NextStage(g, "atFlush", "cacheFlush")    \* ...AddressTranslatorFlushRsp
     \/ NextStage(g, "tlbRestart", "atRestart")  \* processTLBRestartRsp
     \/ NextStage(g, "atRestart", "cuRestart")   \* ...AddressTranslatorRestartRsp
  /\ UNCHANGED <<drvVars, mmuVars, pageVars, linkVars, currShootdownRequest,
                 rdmaVars, pmc, memVars>>

\* The L2s of a GPU lose the requests of other GPUs they are working on.
Discard(g) == {h \in carried : Device(flight[h].frame) = g}

\* The caches write their dirty lines back and drop what they work on; the
\* L1s forget the request that waits in the paused RDMA engine.
ProcessCacheFlushRsp(g) ==
  /\ NextStage(g, "cacheFlush", "tlbFlush")
  /\ mem' = [f \in Frame |-> IF Device(f) = g /\ l2[f] # None
                               THEN l2[f] ELSE mem[f]]
  /\ l2' = [f \in Frame |-> IF Device(f) = g THEN None ELSE l2[f]]
  /\ carried' = carried \ Discard(g)
  /\ toRDMA' = [toRDMA EXCEPT ![g] = IF @ = None THEN None
                                     ELSE [@ EXCEPT !.stale = TRUE]]
  /\ UNCHANGED <<drvVars, mmuVars, pageVars, linkVars, currShootdownRequest,
                 rdma, flight, pmc, tlb, latest, writes>>

\* mutant: the shoot-down is complete before the caches are flushed
ProcessTLBFlushRspFirst(g) ==
  /\ NextStage(g, "cacheFlush", "stopped")
  /\ Answered(g, "shootdownRsp")
  /\ tlb' = [tlb EXCEPT ![g] = [p \in Page |->
               IF p \in currShootdownRequest[g] THEN None ELSE @[p]]]
  /\ UNCHANGED <<drvVars, mmuVars, pageVars, toCP, currShootdownRequest,
                 rdmaVars, pmc, l2, mem, latest, writes>>

\* mutant: the TLBs keep the pages of the shoot-down
ProcessTLBFlushRspKept(g) ==
  /\ NextStage(g, "tlbFlush", "stopped")
  /\ Answered(g, "shootdownRsp")
  /\ UNCHANGED <<drvVars, mmuVars, pageVars, toCP, currShootdownRequest,
                 rdmaVars, pmc, memVars>>

\* The TLBs drop the pages of the shoot-down and the driver is answered.
ProcessTLBFlushRsp(g) ==
  /\ NextStage(g, "tlbFlush", "stopped")
  /\ Answered(g, "shootdownRsp")
  /\ tlb' = [tlb EXCEPT ![g] = [p \in Page |->
               IF p \in currShootdownRequest[g] THEN None ELSE @[p]]]
  /\ UNCHANGED <<drvVars, mmuVars, pageVars, toCP, currShootdownRequest,
                 rdmaVars, pmc, l2, mem, latest, writes>>

ProcessGPURestartReq(g) ==
  /\ toCP[g] # None /\ toCP[g].kind = "restart"
  /\ Taken(g)
  /\ stage' = [stage EXCEPT ![g] = "cacheRestart"]
  /\ UNCHANGED <<drvVars, mmuVars, pageVars, fromCP, currShootdownRequest,
                 rdmaVars, pmc, memVars>>

\* A cache that restarts empties its ports.
ProcessCacheRestartRsp(g) ==
  /\ NextStage(g, "cacheRestart", "tlbRestart")
  /\ carried' = carried \ Discard(g)
  /\ UNCHANGED <<drvVars, mmuVars, pageVars, linkVars, currShootdownRequest,
                 rdma, toRDMA, flight, pmc, memVars>>

ProcessCUPipelineRestartRsp(g) ==
  /\ NextStage(g, "cuRestart", "run")
  /\ Answered(g, "restartRsp")
  /\ UNCHANGED <<drvVars, mmuVars, pageVars, toCP, currShootdownRequest,
                 rdmaVars, pmc, memVars>>

ProcessPageMigrationReq(g) ==
  /\ toCP[g] # None /\ toCP[g].kind = "migrate"
  /\ pmc[g] = None
  /\ Taken(g)
  /\ pmc' = [pmc EXCEPT ![g] = [from |-> toCP[g].from, to |-> toCP[g].to,
                                data |-> None, done |-> FALSE]]
  /\ UNCHANGED <<drvVars, mmuVars, pageVars, fromCP, cpVars, rdmaVars,
                 memVars>>

\* The controllers read from and write to the memories, past the L2s.
PullData(g) ==
  /\ pmc[g] # None
  /\ pmc[g].data = None
  /\ pmc' = [pmc EXCEPT ![g].data = mem[pmc[g].from]]
  /\ UNCHANGED <<drvVars, mmuVars, pageVars, linkVars, cpVars, rdmaVars,
                 memVars>>

WriteData(g) ==
  /\ pmc[g] # None
  /\ pmc[g].data # None
  /\ ~ pmc[g].done
  /\ mem' = [mem EXCEPT ![pmc[g].to] = pmc[g].data]
  /\ pmc' = [pmc EXCEPT ![g].done = TRUE]
  /\ UNCHANGED <<drvVars, mmuVars, pageVars, linkVars, cpVars, rdmaVars,
                 tlb, l2, latest, writes>>

ProcessPageMigrationRsp(g) ==
  /\ pmc[g] # None
  /\ pmc[g].done
  /\ pmc' = [pmc EXCEPT ![g] = None]
  /\ Answered(g, "migrateRsp")
  /\ UNCHANGED <<drvVars, mmuVars, pageVars, toCP, cpVars, rdmaVars, memVars>>

-----------------------------------------------------------------------------
(* The MMU, which serves one migration at a time.                          *)

\* Pages of one GPU are wanted by others.  The MMU gives no translation of
\* them until it is answered, and names the GPUs that hold one already.
RequestMigration ==
  /\ ~ isDoingMigration
  /\ mmuPort = None
  /\ \E want \in [Page -> GPU \cup {None}], host \in GPU :
       LET pages == {p \in Page : want[p] # None}
       IN  /\ pages # {}
           /\ asked + Cardinality(pages) <= MaxMigrations
           /\ \A p \in pages : Device(pageTable[p]) = host /\ want[p] # host
           /\ asked' = asked + Cardinality(pages)
           /\ mmuPort' =
                [want |-> want, host |-> host,
                 accessing |-> {host} \cup
                    {g \in GPU : \E p \in pages : tlb[g][p] # None}]
           /\ isMigrating' = [p \in Page |-> isMigrating[p] \/ p \in pages]
  /\ isDoingMigration' = TRUE
  /\ UNCHANGED <<drvVars, mmuRsp, pageTable, allocated, linkVars, gpuVars,
                 memVars>>

MigrationReturn ==
  /\ mmuRsp # None
  /\ mmuRsp' = None
  /\ isMigrating' = [p \in Page |-> isMigrating[p] /\ p \notin mmuRsp]
  /\ isDoingMigration' = FALSE
  /\ UNCHANGED <<drvVars, mmuPort, asked, pageTable, allocated, linkVars,
                 gpuVars, memVars>>

\* TLBs take translations unless they are paused by a shoot-down.
Translate(g, p) ==
  /\ stage[g] \notin {"stopped", "cacheRestart", "tlbRestart"}
  /\ tlb[g][p] = None
  /\ ~ isMigrating[p]
  /\ tlb' = [tlb EXCEPT ![g][p] = pageTable[p]]
  /\ UNCHANGED <<drvVars, mmuVars, pageVars, linkVars, gpuVars, l2, mem,
                 latest, writes>>

-----------------------------------------------------------------------------
(* The writes of the compute units, each one complete when it is in an L2. *)

\* Stages in which an access of the units above may still reach an L2.
Issuing(g) ==
  stage[g] \in {"run", "cuFlush", "atFlush", "cacheFlush", "cuRestart"}

\* Stages in which the L2s of a GPU take requests.
Serving(g) == stage[g] \notin {"tlbFlush", "stopped", "cacheRestart"}

\* A frame takes a new version of a page.
Store(p, f) ==
  /\ latest' = [latest EXCEPT ![p] = @ + 1]
  /\ l2' = [l2 EXCEPT ![f] = latest[p] + 1]

WriteLocal(g, p) ==
  /\ Issuing(g)
  /\ writes < MaxWrites
  /\ tlb[g][p] # None
  /\ Device(tlb[g][p]) = g
  /\ Store(p, tlb[g][p])
  /\ writes' = writes + 1
  /\ UNCHANGED <<drvVars, mmuVars, pageVars, linkVars, gpuVars, tlb, mem>>

WriteRemote(g, p) ==
  /\ Issuing(g)
  /\ writes < MaxWrites
  /\ tlb[g][p] # None
  /\ Device(tlb[g][p]) # g
  /\ toRDMA[g] = None
  /\ toRDMA' = [toRDMA EXCEPT
       ![g] = [page |-> p, frame |-> tlb[g][p], stale |-> FALSE]]
  /\ writes' = writes + 1
  /\ UNCHANGED <<drvVars, mmuVars, pageVars, linkVars, cpVars, rdma, flight,
                 carried, pmc, tlb, l2, mem, latest>>

ProcessReqFromL1(g) ==
  /\ rdma[g] = "run"
  /\ toRDMA[g] # None
  /\ flight[g] = None
  /\ flight' = [flight EXCEPT ![g] = toRDMA[g]]
  /\ carried' = carried \cup {g}
  /\ toRDMA' = [toRDMA EXCEPT ![g] = None]
  /\ UNCHANGED <<drvVars, mmuVars, pageVars, linkVars, cpVars, rdma, pmc,
                 memVars>>

\* The L2 of the owner takes the write and the engine is answered.  A stale
\* write changes no version: in a frame the page has left it leaves old data.
Serve(g) ==
  /\ g \in carried
  /\ LET a == flight[g]
     IN  /\ Serving(Device(a.frame))
         /\ IF ~ a.stale
              THEN Store(a.page, a.frame)
              ELSE /\ l2' = IF pageTable[a.page] = a.frame THEN l2
                            ELSE [l2 EXCEPT ![a.frame] = 0]
                   /\ UNCHANGED latest
  /\ carried' = carried \ {g}
  /\ flight' = [flight EXCEPT ![g] = None]
  /\ UNCHANGED <<drvVars, mmuVars, pageVars, linkVars, cpVars, rdma, toRDMA,
                 pmc, tlb, mem, writes>>

-----------------------------------------------------------------------------
DriverStep(g) ==
  \/ ProcessRDMADrainRsp(g)
  \/ ProcessShootdownCompleteRsp(g)
  \/ ProcessPageMigrationRspFromCP(g)
  \/ HandleGPURestartRsp(g)
  \/ ProcessRDMARestartRspToDriver(g)

CommandStep(g) ==
  \/ ProcessRDMADrainCmd(g) \/ DrainRDMA(g) \/ ProcessRDMARestartCommand(g)
  \/ ProcessShootdownCommand(g) \/ ProcessCacheFlushRsp(g)
  \/ ProcessTLBFlushRsp(g)
  \/ ProcessGPURestartReq(g) \/ ProcessCacheRestartRsp(g)
  \/ ProcessCUPipelineRestartRsp(g)
  \/ UnitsAcknowledge(g)
  \/ ProcessPageMigrationReq(g) \/ PullData(g) \/ WriteData(g)
  \/ ProcessPageMigrationRsp(g)

MemoryStep(g) == ProcessReqFromL1(g) \/ Serve(g)

Next ==
  \/ ParseFromMMU \/ SendToGPUs \/ SendMigrationReqToCP \/ SendToMMU
  \/ \E g \in GPU : DriverStep(g) \/ CommandStep(g) \/ MemoryStep(g)
  \/ RequestMigration \/ MigrationReturn
  \/ \E g \in GPU, p \in Page :
       Translate(g, p) \/ WriteLocal(g, p) \/ WriteRemote(g, p)

Spec == Init /\ [][Next]_vars

\* Components with something to do tick until it is done.  The MMU need not
\* ask for a migration, nor a compute unit write.
Fairness ==
  /\ WF_vars(ParseFromMMU) /\ WF_vars(SendToGPUs)
  /\ WF_vars(SendMigrationReqToCP) /\ WF_vars(SendToMMU)
  /\ WF_vars(MigrationReturn)
  /\ \A g \in GPU :
       WF_vars(DriverStep(g)) /\ WF_vars(CommandStep(g)) /\ WF_vars(Serve(g))

FairSpec == Spec /\ Fairness

-----------------------------------------------------------------------------
(* What a migration promises.                                              *)

Visible(f) == IF l2[f] # None THEN l2[f] ELSE mem[f]

\* A migration loses no write: whenever a page is not migrating, the frame
\* its page table entry names holds the last version a compute unit wrote,
\* although the copy reads memory past the caches, and writes go on at GPUs
\* that are not shot down (driver.go:621-664, 736-749).
NoWriteLost ==
  \A p \in Page : ~ isMigrating[p] => Visible(pageTable[p]) = latest[p]

\* No TLB keeps a translation the page table has given up (the purpose of
\* the shoot-down, protocol/driverprotocol.go:151-168).
TranslationsCurrent ==
  \A g \in GPU, p \in Page :
    tlb[g][p] # None => tlb[g][p] = pageTable[p]

\* No remote access is lost when caches drop what they work on: the engine
\* that waits for an answer still has its request under way.  This is why
\* all engines are drained first and restarted last (driver.go:565-587,
\* 795-813).
RemoteAccessKept == \A g \in GPU : flight[g] # None => g \in carried

\* A controller answers every pull to the last one that asked
\* (pmc.go:188-196, 285-294): that is right only while one page is under way
\* in the whole system (driver.go:693-734).
OneCopyAtATime ==
  Cardinality({g \in GPU : pmc[g] # None}) +
    Cardinality({g \in GPU : toCP[g] # None /\ toCP[g].kind = "migrate"}) <= 1

\* Every request of the MMU is answered, and the driver becomes free again.
RequestAnswered ==
  /\ isDoingMigration ~> ~ isDoingMigration
  /\ isCurrentlyHandlingMigrationReq ~> ~ isCurrentlyHandlingMigrationReq
=============================================================================
