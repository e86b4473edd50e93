# A verification of MGPUSim

MGPUSim is a cycle-level simulator of systems with several GPUs, and this fork of
it adds sampled simulation. Its value rests on code that a simulation runs
millions of times and a unit test runs once: page migrations that stop and restart
half of the machine, buffers that are flushed in mid-flight, dispatchers that share
compute units, host threads that share a driver with the simulation, and two
implementations of one instruction set that must compute the same. This directory
models that code in TLA+, checks it with TLC on small instances, and proves what
matters most with TLAPS for instances of every size.

Contents: [the system](#the-system), [the modules](#the-modules),
[the runs](#the-runs), [disagreements found](#disagreements-found),
[other observations](#other-observations), [the proofs](#the-proofs),
[what is not modelled](#what-is-not-modelled), [plan](#plan).

## The system

The simulator is event-driven: the engine calls `Tick` on a component, which reads
its ports, changes its state and sends messages; `Send` fails when the port or the
connection is full and the handler tries again at a later tick. Most ports hold one
message. The serial engine runs one event at a time; host programs run in goroutines
of their own beside it.

| part | state | operations | interacts with |
|---|---|---|---|
| RDMA engine, `timing/rdma` | tables of transactions from inside and outside, drain flags | forward remote accesses and their responses, drain, restart | L1s, L2, the engines of other GPUs, command processor |
| driver, MMU half, `driver/driver.go` | the request under way, five counters of answers, messages to send | drain all RDMA engines, shoot down GPUs, copy pages, restart, answer | MMU, command processors |
| driver, command half, `driver/` | command queues, listeners, running flags, outstanding requests per command | enqueue, drain, launch, copy, flush; a goroutine that starts the engine | host threads, command processors |
| command processor, `timing/cp` | counters of acknowledgements, the shoot-down or flush under way | launches, copies, flushes, the stages of a stop and a restart, relays | driver, dispatchers, CUs, translators, caches, TLBs, RDMA, DMA |
| DMA engine, `timing/cp/dma.go` | one copy, the accesses it still needs | cut a copy at line ends, collect the answers | command processor, memory |
| page migration controller | one request, one requester | pull a page from another GPU, write it, answer | command processor, other controllers, memory |
| reorder buffer, `timing/rob` | list and table of transactions, flush flag | accept, match, answer in order, flush, restart | CU, translator, command processor |
| dispatchers, `timing/cp/internal` | kernel, group at hand, groups in flight; masks and slots of every CU | start, search, reserve, send, complete | command processor, compute units |
| compute unit, `timing/cu` | waves, buffers, pipelines, accesses in flight and their shadows | fetch, decode, issue, execute, barrier, wait, end, flush, restart | dispatcher, caches, command processor |
| registers and operands, `timing/cu` | register files shared by the waves of a SIMD | prepare and commit a scratchpad, coalesce accesses | compute unit, memory |
| emulator, `emu` | waves with their registers, local data share, event | run a work-group instruction by instruction | dispatcher, memory |
| sampling, `samples/sampledrunner` | windows of measured times, coverage, heap of predictions | measure, predict, end waves ahead of time | compute unit, dispatcher |
| basic blocks, `emu`, `profiler` | the blocks a wave has met | cut code and traces into blocks, count | emulator, compute unit, sampling |
| allocator, `driver/internal` | page tables, buddies, address maps | allocate, remap, free, distribute | driver |

### What is hard, and what makes it correct

* **Draining.** No engine knows what the others still have to send it, and each
  acknowledges on its own. Correct: when all have acknowledged nothing is left
  anywhere, and what was forwarded is answered first.
* **Migrating a page.** Writes in caches, translations in TLBs and accesses in
  flight all refer to the old frame. Correct: no write is lost, no stale translation
  stays, every request is answered.
* **Stages told apart by counters.** The command processor counts acknowledgements
  that do not say what they acknowledge. Correct: no stage begins before the one in
  front of it is complete, although caches serve flushes as well.
* **Reordering.** Answers come in any order, flushes come between a request and its
  answer. Correct: the unit above sees an in-order memory.
* **Waves in a pipeline.** Flushes, barriers, waits, sampling and late answers meet.
  Correct: a wave is in one place, counters match the accesses under way, nobody
  passes a barrier or a wait early, every group is reported.
* **Host threads.** Locks, two channels, a flag and an engine that stops when its
  queue of events is empty. Correct: a response finds its command, work keeps the
  engine running, a drain returns when its commands are done, and no earlier.
* **Dispatching.** Several dispatchers reserve, release and count at the same time.
  Correct: the books match, each work-group runs once, each launch is answered.
* **Two simulators.** Operands, registers and memory paths exist twice, block
  boundaries five times. Correct: both leave the same memory and registers and find
  the same blocks.

The complete list, with the line where each hazard bites and the property that
guards it, is under `hazards` in `PROJECT.json`.

## The modules

A handler of the code is an action here, with its early returns as guards and its
message sends as part of the same step. The handlers of one `Tick` are separate
actions, so a specification allows the orders of the code and more. Names are those
of the source. A definition that starts with the comment `mutant:` is a plausible
mistake in the one below it; no specification uses it. It documents what a property
guards against: the property fails when the mutant takes the other's place.

| module | models | extends or instantiates |
|---|---|---|
| `RDMA` | the engines of all GPUs, the network, the agent that drains them | |
| `ReorderBuffer` | `timing/rob` | instantiates `InOrderMemory` |
| `InOrderMemory` | what a reorder buffer promises (abstract) | |
| `PageMigration` | the MMU half of the driver and all it commands | |
| `CommandQueues` | the command half of the driver | |
| `DMAEngine` | `timing/cp/dma.go` | |
| `CommandProcessor` | `timing/cp/commandprocessor.go` | extends `DMAEngine` |
| `CUResource` | resource masks of a compute unit | |
| `Dispatcher` | dispatchers and their algorithms | extends `CUResource` |
| `ComputeUnit` | control of the timing compute unit | |
| `Sampling` | the sampling engines | |
| `Words` | fixed-width integers, `emu/util.go` | |
| `ScalarALU`, `VectorALU`, `MemoryALU` | the instructions, `emu/alu*.go` | extend `Words` |
| `Coalescer` | requests of memory instructions in the timing model | extends `MemoryALU` |
| `EmuRegisters`, `CURegisters` | the two scratchpad preparers and register stores | extend `Words` |
| `BasicBlocks` | the five places that cut code into blocks | |
| `ALU` | one instruction of any format, `ALUImpl.Run` of `emu/alu.go` | extends the three; instantiates `EmuRegisters` |
| `Emulator` | a work-group in the emulator and its sampled copies | extends `ALU`, `Coalescer`, `BasicBlocks` |
| `Execution` | a kernel in the emulator and in the timing model | extends `Emulator`; instantiates `CURegisters` |
| `Arithmetic` | short programs on both register stores | extends `ALU`; instantiates `CURegisters` |
| `Instructions` | constructors for the programs of the instances | extends `ALU` |
| `MC...` | constants and definitions for TLC | one of the above |
| `...Proofs` | theorems and their proofs | one of the above; `MemoryPathProofs` `RDMA` and `ReorderBuffer`, `EmulationProofs` `Arithmetic` and `BasicBlocks` |

### RDMA

`RDMA.tla` has every engine with its ports and two tables, the L1s and L2s around it,
the network, and the agent that drains and restarts (driver and command processors
in one). A request is named by its transaction, the clones made on the way by the leg of
the journey: `<<t, "L1">>`, `<<t, "out">>`, `<<t, "L2">>`; addresses are abstracted to
the engine that owns them. `processRDMARestartReq` is modelled as written: the command
leaves the port before its response is sent.

| code | model |
|---|---|
| `processFromCtrlPort`, `processRDMARestartReq` | `ProcessDrainReq`, `ProcessRDMARestartReq` |
| `drainRDMA`, `fullyDrained` | `DrainRDMA`, `FullyDrained` |
| `processReqFromL1`, `processReqFromOutside`, `processRspFromL2`, `processRspFromOutside` | the same names |

The network of the model keeps no order between the messages of an engine. This
allows more interleavings than a connection that keeps order, but hides one block:
a request at the head of the port that hides a response behind it.

### Reorder buffer

`ReorderBuffer.tla` has the two stages upwards and the one downwards, list and table,
flush and restart, with the address translator below as an environment that answers in any
order. `InOrderMemory.tla` is what it promises to the unit above: requests are
answered in order, each with its own data, and a discard forgets those that are open.
`InOrder` states the refinement. The
names that `RDMA` has too begin with `Rob`, so that one module can prove about both. The command processor flushes address
translators before reorder buffers (the list built in
`samples/runner/r9nanobuilder.go:482-515`); the environment therefore drops what it
holds only during a flush.

### Page migration

`PageMigration.tla` has the driver's half that serves the MMU in full: the queue of
messages to send, all five counters, and the flags that keep one request and one page
at a time. A GPU's command processor is the stage it is in; that the stages are told apart by
counters is the subject of `CommandProcessor`. RDMA engines appear as what
`RDMA.tla` shows of them: after a drain nothing is in flight, after a restart waiting
accesses go on. The page migration controller reads the frame and writes the new one
in two steps. Data are version numbers, so a lost or stale write shows. Frames are never
used twice, because `Remap` never gives the old frame back. MMU, TLBs and L2 belong to the
akita library and are modelled from how this code uses them: one migration at a time,
with at least one page and one accessing GPU in the request.

### Command queues

`CommandQueues.tla` has the host threads (`Enqueue` and `DrainCommandQueue`, with
every lock and every channel operation a step of its own: `Subscribe`, `Signal`,
`Check`, `Wait`), the goroutine that schedules a tick on a signal (`AsyncTick`,
`AsyncFlag`), the goroutine that runs the engine and clears its flag after `Run` has
returned (`EngineReturns`, `RunEngineEnds`), the driver's ticks (`processLaunchKernelCommand`,
`processMemCopyCommand`, their returns and so on), and GPUs that answer in any order
a command processor can. A command is a no-op, a launch or a copy; a copy of a
dirty buffer flushes first. The response of a flush never ends its command, as in
`memorycopy.go`.

### Command processor and DMA engine

`CommandProcessor.tla` has every handler of the command processor: requests of the
driver in order, launches that need a free dispatcher, copies through the DMA engine,
flushes, and the stages of a stop and of a restart with their counters
(`numCUAck`, `numAddrTranslationFlushAck`, `numCacheACK`, ...). Around it are units that
obey commands and acknowledge them in any order, kernels that dirty caches and wait for
a page that migrates, and the driver as one GPU sees it: queues with one command at a
time, and the migration procedure. `DMAEngine.tla` cuts a copy at line ends, with the offset
of every piece in the host buffer computed from its own address, and collects the answers in any order.
`Overlap` says whether the driver may flush while it stops or restarts the GPU.
The driver does not prevent it, see below.

### Dispatchers

`CUResource.tla` has the books of one compute unit as operators: first-fit search in a
mask, the tentative reservation of scalar registers, local data share, SIMD slots and
vector registers with its undoing, and the release. `CanHold` defines, without a
search, when a work-group fits. `Dispatcher.tla` has several dispatchers over one pool and
one port, with all three algorithms (chosen at the start), the launches, the compute units
that complete groups in any order, and the answers. Cycle counts that delay a
dispatcher are left out: an action may be late anyway.

### Compute unit

`ComputeUnit.tla` has the control of a compute unit: fetch into the instruction buffer,
decode, issue, the branch, scalar, local-memory, vector-memory and SIMD units with their stages, the
coalesced transactions of a vector access, the three kinds of accesses in flight, barriers
with their buffer, waits, the end of waves and of groups, the flush that sets
accesses aside in shadow lists, the restart that sends them again with new
identifiers, and the switch to sampled simulation. An instruction is its kind and, for `S_WAITCNT`, the two limits it carries
(`VMCNT` and `LGKMCNT`). A branch goes to any instruction: which one is data of the kernel, so the setup lists the targets of the
branches each wave executes. Arbiters pick any ready wave, which allows their round-robin order and more.

### Instructions, registers, execution

`Words.tla` has the integers of the code at a width that is a parameter: `ByteBits` is
8 in the code, and all operators are written for any width. `ScalarALU`, `VectorALU` and `MemoryALU` have the
instructions as operators on a scratchpad. Floating point is a parameter: operations are functions of bits,
with an order in which NaN is neither less, equal nor greater. `EmuRegisters` and `CURegisters` are the two
scratchpad preparers, translated one from each file.

`Emulator` runs a work-group; `Execution` puts the emulator and the timing model side by
side. The emulation compute unit runs the kernel first; then waves of the timing
model run it in any order, with loads that write their registers when the memory
answers, and sampling may run a whole work-group on the same memory, to analyse it or
instead of the rest. The pipeline is left to `ComputeUnit`: an instruction is one step.
`Arithmetic` runs every modelled instruction on all combinations of extreme words with both
preparers. The emulator has a file of vector registers for every lane; the timing model has one file for all,
in which register `n` of lane `i` is at `i * LaneStride + n`. `WellFormed` says which operands the
decoder gives an instruction in a wave that was given the registers it names; of other registers
`ReadReg` and `WriteReg` panic. `ProgramsAssumption` asks it of every program, and TLC evaluates
it for those of the instance. Instructions of memory and of the LDS are no part of them: `Execution` has those. `S_GETPC_B64` is no part of the programs: the timing model runs it with
a program counter of 0. `IsChain` says likewise what the programs are that add or subtract numbers of two words
(`ChainsAssumption`).

### Sampling and basic blocks

`Sampling.tla` has the windows of measured times with their running sums and
regression, the branch engine with its coverage, the time engine with its heap and its one event, and the IPC
window. Times are whole cycles. `BasicBlocks.tla` has the five pieces of
code that cut an execution or a program into blocks.

## The runs

| run | instance | what it shows |
|---|---|---|
| `rdma` | 2 engines, a transaction each that is repeated for ever | a completed drain is global (`Quiescent`), one answer each (`AnsweredOnce`), nothing leaves a drained engine (`NothingLeavesWhileQuiet`), drains and restarts end and every forwarded request is answered, while L1s go on issuing (`DrainCompletes`) |
| `rob` | 3 requests, buffer of 2, 3 identifiers | the refinement `InOrder`; `OwnData`, `TableMatches`; requests leave and flushes end (`EverythingEnds`) |
| `migration` | 2 GPUs, 2 pages, 2 migrations, 1 write | `NoWriteLost`, `TranslationsCurrent`, `RemoteAccessKept`, `OneCopyAtATime`, `RequestAnswered` |
| `queues` | 2 threads with a queue each, 1 GPU, 3 commands | responses find their command (`CommandIsFound`), work keeps the engine (`StartedWorkKeepsEngine`), a drain returns when its commands are done (`DrainMeansDone`), started commands end (`StartedEnds`) |
| `cp` | 2 queues, 2 commands, 2 migrations, 2 units of each kind, copies over line ends | `StagesInOrder`, `CopyIsFresh`, `CopyIsExact`, `EverythingAnswered` |
| `dispatch` | 2 dispatchers, 2 CUs of 2 SIMDs, kernels of 3 narrow and of 2 wide groups | `ResourcesMatch`, `RefusesOnlyWhenFull`, `StartsOnce`, `AnsweredWhenDone`, `LaunchIsAnswered`, with each of the three algorithms |
| `cu` | a group of 2 waves or one of 1 wave on one SIMD, 17 programs with their branches, with a flush or sampling or both | `OnePlace`, `NextIsAtPC`, `OutstandingMatch`, `SyncHolds`, `WorkEnds` |
| `sampling` | 2 blocks, 3 waves; all sequences of up to 2 instructions a cycle in a window of 3 | `SumsMatch`, `CoverageMatches`, `PredictedEnds` |
| `emu` | 7 kernels, 2 memories, bytes of 2 bits, 2 lanes, up to two waves or groups | `TimingAgrees`, `BlocksAgree`, `RegistersApart` |
| `alu` | every modelled instruction, and chains of them, on extreme words; words of 4 bits | `PreparersAgree`, `WideArithmetic`, `EncodingsAgree` |
| `queues_wakeup`, `cp_overlap` | | disagreements, see below |

Every property of a passing run is broken by a mutant of the code, listed under
`mutants`.

### Bounds and why they are enough

* RDMA: two engines show a request and its response crossing, and a drained engine
  that serves one that is not. Transactions are used again, so an execution is not limited to
  two requests. The port to the outside has two slots: requests of the L1s are tried before responses of the L2, so with one slot
  a busy L1 can starve the responses. With one transaction for each engine no port is ever full and no send fails.
  The proofs cover every number of engines, transactions and slots, and so full ports; `RestartIsNeverLost` shows that
  the control port has room for the response of a restart (`rdmaengine.go:69`) in any of these.
* Reorder buffer: with two places and three requests the buffer is full, wraps, and an
  identifier from before a flush can come back after it.
* Migration: two migrations let the second start among the restarts of the first, and two
  pages share a request or come one in each; `MaxMigrations` and `MaxWrites` bound what would count for ever.
  A larger write count was checked too (2 writes) and shows nothing new.
* Queues: two threads race for the signal and the flag; three commands are enough for a queue that
  has a running and a waiting command while the other runs. One GPU: with two, the flush
  of one may be the last to return and the copy never ends, see [other observations](#other-observations).
* Command processor: two units of each kind make a counter reach one and not yet zero; the two copies
  start and end inside a line of four bytes; `Earlier` is the queue whose kernels left dirty caches.
  There are as many dispatchers as queues: with fewer, a launch waits for a kernel that may wait for the
  very migration behind it.
* Dispatchers: three groups do not divide into two partitions, so one partition is short; one slot per
  SIMD makes a group of two waves fail at its second wave, and five scalar units leave a hole too
  small for a wide wave.
* Compute unit: two waves of one group make one wait for the other at a barrier, once and in a loop, and behind a full
  pipeline of one; the programs pair each kind of instruction with the synchronisation that waits for it. A wave of its own shows what
  does not need a second one: waits for some accesses (`vmcnt(1)`, `lgkmcnt(1)`), also in a loop, and, in a program of seven instructions with two to a line and four lines
  in the buffer as in `cubuilder.go:141`, a branch to each of its instructions, so that lines before, in and behind the
  buffer are entered while fetches are under way. Sequences of targets (`jumps`) bound the loops: a wave turns once and then goes on
  to the end. `InFlightLimit` and `BarrierBufferSize` leave room, so the two observations below on full buffers are
  not exercised. One flush is enough to set accesses aside and send them again. The programs bound the state space; the proofs cover all of
  them, with any branches, limits and numbers of lines.
* Words: properties of carries, sign and comparison depend on extreme values, not on the width: 0, the smallest, the
  largest, and the ones around the sign. Inputs are all combinations of such words.

`CHECK_DEADLOCK FALSE` is set where the system may stop: bounded commands, migrations,
launches or waves run out and the host stops asking.

### Fairness

Fairness is given to what the engine schedules: a component that has work is ticked
again, so each handler is weakly fair; a connection delivers what it holds. Nothing
obliges a host thread to enqueue, an L1 to issue, the MMU to ask, or a compute unit to
write. In `ComputeUnit` the whole of the pipeline is one weakly fair step, because its events are
in one queue: no liveness property there relies on an order among its stages. Strong fairness is assumed in two places:
an RDMA network and an L2 serve every message although the port in front of them is taken by others now
and then (connections take turns among ports), and the sender of a signal on an unbuffered channel is served among
others (Go's channels are queues).

## Disagreements found

Each is a run that TLC ends with a counterexample, and an entry under `findings`.

1. `queues_wakeup`: `DrainCommandQueue` (`driver/api.go:115`) "will return when there
   is no command to execute". It checks the queue, then waits for a notification;
   one that comes in between finds nobody receiving and is dropped (`commandqueue.go:121`). The
   thread then waits on an empty queue.
2. `cp_overlap`: a shoot-down is documented to drain compute units (`protocol/driverprotocol.go:168`).
   Flushes and shoot-downs share one counter of cache acknowledgements and nothing keeps the driver from sending
   a flush while it stops the GPU. The last acknowledgement of the flush is then taken for the end of the cache stage
   (`commandprocessor.go:490`), TLBs are flushed, and the shoot-down is answered while compute units still run.
   The `cp` run checks the rest under the assumption that the driver does not (`Overlap = FALSE`).

## Other observations

Met while modelling; the models carry the behaviour or exclude it as said.

* `driver/memorycopy.go:269`: the response of a flush does not end its command. With one GPU copies return after
  flushes; with several the last flush can return last and the command never ends. `queues` has one GPU.
* `driver/driver.go:102`: `engineRunning` is cleared after `Run` has returned. A signal in between schedules a
  tick and starts no engine; the work waits for the next signal. The model has the behaviour; no property forbids it.
* `timing/cu/scheduler.go:303`: a wave is marked completed one cycle before its completion event. If another wave of the group ends in
  that cycle, both events find the group complete and it is reported twice. `ComputeUnit` has the behaviour
  (`WorkEnds` asks for at least one report); `Dispatcher` takes it as not happening.
* `timing/cu/vectormemoryunit.go:113`: a vector instruction that finds no room among the accesses in flight has been taken out of its pipeline
  already, and nothing puts it back; its wave never goes on. `ComputeUnit` has the behaviour (the instance has room; the proofs assume `VectorRoom`).
* `timing/cu/scheduler.go:347`: a wave that finds the barrier buffer full stays in the list of internal instructions although its state
  says that it waits. When the rest of its group arrives it is released, and its entry is evaluated again in the state it has by then. `ComputeUnit` has
  the behaviour (the instance has room; the proofs assume `BarrierRoom`).
* `timing/cu/scheduler.go:274`: an internal instruction without a case of its own (`S_NOP`) is completed without advancing the PC.
  The programs have none.
* `samples/sampledrunner/sampledengine.go:160`: with one active wave the time engine empties its heap and completes none of the
  predicted waves. `sampling` has two.
* `emu/alusop2.go:142` finds a carry in a sum of exactly the largest word, `emu/aluvop2.go:669` loses the carry of
  the largest word plus a carry, `emu/alusop2.go:91` leaves an SCC that was set. `WideArithmetic` excludes
  exactly these inputs (`CarryKnownWrong`), and `EncodingsAgree` leaves out the carry of `V_ADDC_U32`, so no property covers them.
* `emu/alusop2.go:368` extracts a signed bit field without extending its sign; `emu/aluvop3a.go:924` returns the first operand
  as the median when the two others are equal and smaller or larger; `timing/cu/computeunit.go:1044` loads one byte
  for `FLAT_LOAD_USHORT`; `emu/aluds.go:144` ignores the offset of `DS_READ_B64`. The models do as the code does;
  the kernels of `emu` avoid what the emulator and the timing model do differently.

## The proofs

`CommandProcessorProofs`, `CommandQueuesProofs`, `ComputeUnitProofs`, `DispatcherProofs`, `EmulationProofs`,
`MemoryPathProofs` (RDMA engines and reorder buffer), `PageMigrationProofs` and `SamplingProofs` need only the assumptions on constants that their modules state, and the hypotheses named
below for the command processor and the compute unit. The bounds of the instances play no part in them.

**RDMA.** For any engines, transactions and capacities, assuming that `Home` maps
transactions to engines and that `NoMsg` is none of the commands: `TypeCorrect`, `DrainIsGlobal`
(`Quiescent`), `ResponsesFindTheirTransaction`, `ResponsesAnswerOnce` (`AnsweredOnce`),
`RestartIsNeverLost`, `NothingLeaves` (`NothingLeavesWhileQuiet`). `Quiescent` is not inductive: that
the tables are empty says nothing of the messages. `IInv` adds two halves. `AgentInv` ties the phase and the engines asked
and acknowledged to flags and control ports; `MemInv` ties every message to exactly one entry of a table: a
message in the network, a port or an L2 has a transaction at its home (`Backed`) and, while it is served, one
at its owner (`RemoteShape`, `RemoteUnique`), and none has two (`TableUnique`, `RemoteAlone`). When all tables are empty
there is then no message that could exist. The proof has a lemma for each conjunct and a step for each action.

**Reorder buffer.** For any requests, identifiers and sizes, assuming that `None` is no request and no command:
`RobTypeCorrect`, `TableAgreesWithList` (`TableMatches`), `ResponsesStayWithTheirRequest` (`OwnData`), and `Refinement`
(`InOrder`), that `RobSpec` implements `InOrderMemory`. The strengthening says that identifiers in use are unique
across list and messages (`IDsUnique`), and that an answer below carries the data of the request its
identifier was made for (`BelowInv`, `BottomInv`); it is this that keeps an answer from before a flush away from a
later request. Every stage maps to a stutter but the acceptance of a request, its answer and the discard.

**Command queues.** For any threads, queues, finite set of GPUs and capacity of at least one: `TypeCorrect`,
`ResponsesFindTheirCommand` (`CommandIsFound`), `EngineStaysForWork` (`StartedWorkKeepsEngine`), `DrainsReturnWhenDone`
(`DrainMeansDone`). That a response finds its command is not inductive: when one response ends the command, another of the same
command must not be left behind. `PlacesInv` says that a request is in one place only, `ExpectedInv` that the requests on
their way are exactly those the first commands of running queues expect, and `TickInv` that the driver stops ticking only
when a GPU has something left to answer, which is why `Run` cannot return early. A few lemmas relate a sequence, its elements and its injectivity under
`Append`, `Tail`, `\o` and `RemoveAt`.

**Dispatchers.** For any dispatchers, CUs, shapes of kernels, grids and algorithms, under `GridAssumption`,
`NoneAssumption` and `ShapeAssumption`: `AnswersComeLast` (`AnsweredWhenDone`: a kernel is answered once, when each of its
work-groups has completed), `GroupsStartOnce` (`StartsOnce`), `BooksAgree` (`ResourcesMatch`) and `RefusalMeansFull` (`RefusesOnlyWhenFull`). The first two speak of counters, so the invariant says what they count:
the groups an algorithm has handed out are gone from it and its shares do not overlap (`Cut`), every group handed out is
counted once, and the groups in flight are the dispatched ones less the completed ones (`FlightInv`, `KernelInv`). What the
CUs have free plays no part in it. For the third, `Book(cu)` says that the masks and slots of a CU are those of the groups reserved on it, and `BooksInv` that
every CU has such a book and that it names the groups which dispatchers have at hand or in flight there. It needs `IInv`: a group that were booked on
a unit where it is booked already would overwrite its entry, and what it had before would never be freed; `AtHandIsNew` says that one offered by an
algorithm is not placed anywhere. `ReserveResourceForWG` takes regions for SGPRs, LDS and each wave in turn, and gives all of them back when one is missing. These
searches are recursive functions over the waves, and `SearchBook` is proved along them by `Induction`: `SGPRsAre` and `SeatsAre` say which
units a list of waves has taken after `n` waves. Last comes the search over the units in one cycle, that leaves refusals on the
way (`OrderApart`, `RefusedBook`) before the one that accepts (`ReserveBook`). That a refusal means full is a fact about first fit: `TakeFirst` says that the first region meets at most one of any
regions that are free and apart (the first of them, all of one length), `GiveBack` the converse, so each wave
costs its SIMD exactly one of the regions that fit (`Filled`). When a wave finds no SIMD, each has as many waves as it could ever get, and a way to place them all would
have more waves somewhere (`NotMore`, the pigeonhole).

**Page migration.** For any numbers of GPUs, pages, migrations and writes and any placement of the pages, under
`PlaceAssumption`, `BoundAssumption` and `NoneAssumption`: `NoStaleTranslation` (`TranslationsCurrent`),
`NoRemoteAccessLost` (`RemoteAccessKept`) and `PagesOneByOne` (`OneCopyAtATime`). The three hold for one reason, `PhaseInv`:
a migration is in one phase (`Idle`, `DrainPhase`, `ShootPhase`, `CopyPhase`, `RestartPhase`, `RDMARestartPhase`), in
which one kind of command is under way, each GPU it is for has it in one place (the queue, its port, at work, its answer;
`Round`), and the counter of the phase is the number of GPUs whose answer is missing. So the step that
brings a counter to zero finds every GPU done, which no counter says by itself. `RDMAInv` draws from it that engines
are paused and empty from the last drain to the first RDMA restart, `MMUInv` that a request is in one place until it is answered, and `TranslationInv`
which GPUs may still translate a page that is to move: only those the request names, and of these only the ones that have not
passed their shoot-down. `AscendingLists` is the lemma that the driver sends to every GPU of a set exactly once.

On top of it stands `MigrationLosesNothing` (`NoWriteLost`). Its invariant `DInv` says where the last
version of each page is: in what the frame of the page shows, unless a copy to this frame is queued, sent or being made
(`Outstanding`), and then in the memory the copy reads from (`LatestInv`, `CopyInv`). For the second half to survive a step, nobody may
translate the page meanwhile and no cache may hold the frame it had (`FlushedInv`), pages have frames of their own and new ones are fresh
(`FrameInv`, from the ranks of `NewFrame`), and a write on its way goes to the frame of its page or has become stale before the
page moves (`AccessInv`). That the memory has the last version when the copies are made is where the phases are used:
the last shoot-down answer finds the caches of the host flushed, and the answers of all engines before it find no write on its way.

**Command processor.** For any compute units, translators, caches, TLBs, queues, commands and migrations, under `UnitAssumption`,
`CopiesAssumption` and `NoneAssumption`: `StagesKept` (`StagesInOrder`), with the hypothesis `~ Overlap`, that the driver does not
flush while it stops or restarts the GPU; without it the run `cp_overlap` shows a shoot-down answered too early.
The acknowledgements are only counted, and caches and translators share counters between stages, so the invariant says what a
counter stands for. In a stage all orders under way are for one kind of unit, each unit has at most one, and the
counter is the number of units whose order is missing (`Round`, `Stage`); the other counters are zero, units of earlier stages have
changed their mode and those of later ones have not (`CUStop`, ..., `CURestart`). Between stages nothing but a flush is under
way (`Resting`). `PhaseInv` ties the stages to the procedure of the driver: they begin when its command is taken and
end with its answer. For this a command must be in one place (`PlaceInv`), and so must a flush, which its queue waits for
(`FlushInv`); that is why a flush never meets a stage.

The copies have a second invariant, and need `LineAssumption`: `CopiesArrive` (`CopyIsExact`), for every copy and without the
hypothesis, and `CopiesFindCleanCaches` (`CopyIsFresh`), with it. `PiecesAre` proves of the recursive function that cuts a copy (`Pieces`) that its pieces cover
the range of the copy, whatever its first and last line, and do not meet. `PieceInv` says that a piece is in one place (to be sent, at the memory, answered),
that the memory has what was served and is otherwise as when the copy was taken, and that an answer has the bytes of then; `BufferInv` the
same of the buffer of the host, which is blank until the copy of its queue begins. That no other copy touches this buffer takes
`JobInv`: a launch or a copy is in one place of the way from the driver through the dispatchers or the engine and back, and its queue waits for it
and for no other. `FreshInv` says why the caches are clean: what is dirty belongs to a queue that the driver counts in `l2Dirty`, as does
each kernel that runs or is asked for; of the flush and the copy of a queue the flush comes first (`Before`); and when the flush was taken, each dirty cache
of the queue still has its order (`Cleaning`), until no acknowledgement is missing. There `CopyIsFresh` rests on the counters of the stages: with
`numCacheACK` zero no order to flush is under way (`NothingToFlush`).

**Compute unit.** For any waves, groups, SIMD units, capacities and programs, under `PlaceAssumption`, `NoneAssumption`, `LimitAssumption`
and `SetupAssumption` (the waves of a group run one program, and it ends with `S_ENDPGM`): `OnePlaceHolds` (`OnePlace`), `NextIsAtPCHolds`
(`NextIsAtPC`), `OutstandingMatchHolds` (`OutstandingMatch`) and `SyncHoldsHolds` (`SyncHolds`). They are about the behaviours in which there is room:

* `VectorRoom`: a vector instruction that is executed finds room for its accesses in flight. Otherwise the unit has popped the wave
  from its pipeline before it looks (`vectormemoryunit.go:113`, `:169`) and the wave is in no place any more.
* `BarrierRoom`: a wave that has to wait at a barrier finds room in the barrier buffer. Otherwise it stays in the list of internal instructions
  (`scheduler.go:352`), is released with its group, and is evaluated again, when it is elsewhere.

Both hold in every state of the run `cu`, so the theorems apply to it. `CoreInv` is the invariant of the first two: with types
(`CUType`), it says where a wave is. `PlaceInv` gives a wave at work a place (`Spot`) of the kind its instruction calls for, says that lists name a wave once
and that two places never hold the same, and what the record of the wave looks like there; `BufInv` that the lines of
an instruction buffer are consecutive and reach the one at the program counter; `SampleInv` which waves the switch to sampling may take. The scheduler evaluates a
list of instructions in one step, each of which may release, end or keep waves. `EvalInv(e, n)` says what the first `n` of them
leave, and the proof goes by induction over `n`. For `OutstandingMatch`, `MatchInv` adds that the counters count the last accesses (`CountInv`), at
which step of a flush or restart which flags are set (`CtlInv`), that shadow lists are only used during one (`ShadowInv`), and `LinkInv`, that the requests on their way, in
the order of the channel, are those of the accesses in flight, after what is left of earlier eras (`Linked`); so a stale answer meets no access. For
`SyncHolds`, a property of steps, `SyncInv` has all but the last. Of a barrier nothing more is needed: only `PassBarrier` moves a wave from one, and it
moves the group, each wave of which is in state `barrier` and so, by its place, at a barrier instruction. Of a wait `CountInv` is: the
counters are the last accesses in flight, and these are those of the latest memory instructions of the wave, in order and one for each (`Ordered`),
so when at most `VMCNT` are out, they are of the last `VMCNT` instructions (`OnlyLastIs`).

**Sampling.** For any waves, blocks, shares, lengths of the windows and of the ring, thresholds and measured times, under
`GranularyAssumption`, `BlockAssumption`, `CoverageAssumption` and `TimeAssumption`: `SumsStayExact` (`SumsMatch`) and `CoverageIsExact`
(`CoverageMatches`). The sums are folds over sets, so the module begins with what it needs of such sums: there is one
function that computes them (`SumExists`, `SumUnique`), an element that joins adds its value (`SumAdd`) whichever is picked first
(`SumElement`), and renamed elements have the same sum (`SumRename`), by `SetInduction`. `JoinMatches` and `LeaveMatches` then give the two halves of `Collect`:
the five sums follow the data when a time is appended and when the oldest is taken away. `GoodIPC` says of the ring
that the slot of each cycle of the window has the instructions of that cycle, and every other slot none; a new cycle
takes its slot from the one that leaves, because cycles of a slot are a turn apart (`SlotApart`), and the idle cycles
between must be reset. `BranchInv` needs only that an engine that is on stays on (`EngineUpdateMatches`).

`PredictionsKept` is about the time engine, with `ActivatedAssumption`: `EndsOnce`, a wave is in one place of its way to the end;
`NothingOverdue`, what is due is not in the past, and an event comes at or before the next predicted end; `NoneLost`, every wave that was
predicted or ended in detail has ended or is still to end, unless waves ran one at a time (see `sampledengine.go:160` above). These are the
safety half of `PredictedEnds`. For `finetuneTime` the proof shows that the heap has an order (`SortExists`), that
the list of adjusted ends exists (`AtExists`), and that each wave gets one event (`FinetunedIs`); for the others that a wave that is not first needs no event,
as an earlier one has it (`PredictWaves`, `HandledWaves`).

**Registers.** For any width of a word, lanes, register files, inputs and well-formed programs, under `FilesAssumption`
and `ProgramsAssumption`: `PreparersAgreement` (`PreparersAgree`), the two scratchpad preparers leave the same registers after every
instruction. It rests on `OneInstruction`, which speaks of any scalar, branch, vector or LDS instruction on any agreeing registers, memory and local data
share. FLAT and SMEM instructions are not among them (`Sent`): there the timing model stops after `Prepare`, makes requests and writes the registers when the answers
return, which differs for `FLAT_LOAD_USHORT` (see above). Of these `PrepareMemory` says that addresses and data are read from
agreeing registers alike; what comes back is compared by the run `emu` on its kernels. The programs have no memory instructions at all. The invariant is `Agree`: both waves have registers of the right shape, the special ones are
equal, and each lane's file is its part of the shared one (`PlaceApart`: the parts do not meet). Sources are read alike whatever they name
(`SourceRead`). Results are written lane by lane, from the last active lane to the first. `WrittenExists` and `WriteLanesUnrolled` say what that leaves, for a vector destination
(`VectorLanes`) and for a scalar one, in which the lowest active lane stays (`ScalarLanes`). What the instruction computes is used as a function only. The two preparers give
different program counters to SOP1, so the proof shows that no other SOP1 instruction looks at it (`SOP1IgnoresPC`) and that
it does not change it (`KeepsPC`).

**Numbers of two words.** `WideIsRight` (`WideArithmetic`): whatever the width of a word, the lanes and the four words, a pair of
instructions in any of the three encodings (VOP2, VOP3b, SOP2) leaves the wide sum or difference, and the carry after the second vector
instruction is its overflow, apart from the carries `CarryKnownWrong` names. Of the scalar pair only the result is stated, and of `S_SUB` only when
SCC was clear. `ChainsAssumption` says what a pair is (`IsChain`: the operations of
`WideOps`, low words first, with the registers the property reads), and `InputsAssumption` that the registers start
with words; TLC evaluates both. `TwoWords` is the arithmetic: a sum and a carry in are a low word and a carry out (`CarryIs`), and two of these make the wide
result. The rest ties the code to it. `RunShortLow`, `RunShortHigh`, `RunLongLow` and `RunLongHigh` say what each function
of the ALU leaves in the scratchpad: a word for every active lane, and the mask of the lanes with a carry. The code sets the mask bit by bit; that `Mask` of a set of
lanes has exactly their bits (`LaneBits`) is proved from its fold by induction over sets of bits. `ShortRun`, `LongRun`, `ScalarLowEffect` and
`ScalarHighEffect` carry this to the registers. The invariant `WInv` states the registers as those of the start
after as many instructions as have run. Where the short form drops a carry (`Lost`) is where the property excepts it: the proof finds no other
place, and no vector result that is wrong.

**Basic blocks.** For any code and any trace of a wave. `FeatureIsProfile`: the counters of the compute unit and of the profiler do the same at
every instruction, in any state. `BlocksAlike`: after every instruction the counter of the timing model, that of the basic block vectors
and that of the sampled emulator have found the same blocks, and these are what a block should be (`IsCut`): a stretch of the trace from its first instruction, or
the one behind a branch, to the next branch or the end of the wave. A trace (`IsTrace`) ends the wave with its last instruction and not before. `BlocksKnown`: when the code is complete and its
branches do not leave it (`IsKernel`), and the trace is a path through it (`IsPath`), each of these blocks is one that the static analysis finds, and
`GetBBLInsts` returns exactly the instructions that ran. The invariant of the second, `Alike`, gives each
counter's state as a function of one: where the last block began, whether a branch has just ended it, and the blocks before it. These are
theorems about the operators of `BasicBlocks`, by `Induction` over the instructions. The invariant `BlocksAgree` of the
run `emu`, which says the same of its kernels, is stated in `Execution`, where the emulator is declared recursive and nothing can be proved.

Only model-checked: `EncodingsAgree`, whose programs name the registers to compare, so that a theorem would
rest on an assumption listing them; what the other instructions compute is compared with nothing but the second encoding;
`TimingAgrees` and `BlocksAgree`, because `Emulator`
declares its loop over waves recursive; and all liveness properties, because the proof system does not reason about `ENABLED`. Of recursive
definitions: the induction theorems of the library take an operator as a parameter, which the installed provers cannot instantiate. A
lemma on sets of numbers (`Induction`) replaces them for the recursive functions of `ComputeUnit`, `CUResource`, `DMAEngine` and `Sampling` and for the traces of `BasicBlocks`, and one on
finite sets (`SetInduction`) for its sums; the operators that are declared recursive stay with TLC.

## What is not modelled

* Memory allocator, buddy allocator, distributor and contexts of the driver: sequential code under one lock with unit
  tests. `PageMigration` uses one fact of it, that a remapped page gets a fresh frame.
* Instruction decoder and its tables: bit layouts without state.
* Protocol messages: types only; the models carry the fields handlers read.
* Profiler output, server, tracing and virtual devices: input and output around the simulation.
* Platform builders, samples and benchmarks: wiring and workloads. The order of the lists of components in
  `r9nanobuilder.go` is an assumption of `ReorderBuffer`.
* Of partly modelled components: the chunks a page is transferred in, the choice of work-groups the analysis runs before a
  kernel, the order in which arbiters pick among ready waves, the kernel-level history and the analytic
  block model of sampling, work-items and filters of a grid, and the static features that are written to files.
* The parallel engine: an event at a time, as the serial engine runs them.

## Plan

1. `PageMigration` refined to `CommandProcessor`: the stages of one as a mapping of the counters of the other.
2. The composition of `CommandQueues` and `CommandProcessor` with several GPUs, to state when a flush may end last.
3. The analysis before a kernel in `Dispatcher`, with the group it leaves at hand (`roundrobin.go:29`).
