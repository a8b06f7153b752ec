# A verification of the OS scheduler simulation

TLA+ models of the programs under `src/src`, the TLC runs that check them on small
instances, and proofs, checked by TLAPS, of what must hold on every instance.

## 1. The system

`process_generator` reads an input file, forks the clock and the scheduler, and then acts
once per tick of the clock. Four kinds of programs run side by side and share state:

| Component | State | Operations | Talks to the others through |
|---|---|---|---|
| Process generator (`process_generator.c`) | lines not yet arrived, waiting queue, last tick | set-up, tick loop, `serve_waiting_queue`, `createProcess`, SIGCHLD handler, `clear_resources` (at the end and on SIGINT) | message queue (PCBs), semaphore `semid` (one token per tick), SIGUSR1, `SIGSTOP` |
| Buddy allocator (`memory_manager.c`) | tree of blocks | `allocate_memory`, `update_id`, `deallocate_memory` | called by the generator's main loop and by its SIGCHLD handler |
| Scheduler (`scheduler.c`) | `current_process`, ready queue or heap, PCBs, `clockValue` | main loop, HPF / SRTN / RR, context switch, SIGUSR1 and SIGUSR2 handlers | semaphore of each process (one grant per tick), `SIGSTOP`/`SIGCONT`, shared remaining times |
| Simulated process (`process.c`) | place in its loop, remaining time in shared memory | wait for a grant, wait for a tick, work, notify | SIGUSR2 to the scheduler, SIGCHLD to the generator |
| Clock (`clk.c`) | a counter in shared memory | creates it, one tick per second, removes it on SIGINT | read by all |
| Ready heap (`DS/minHeap.c`, `DS/comparators.c`) | array of PCBs | insert, extract_min, update | used by HPF and SRTN |
| Ring queue, arrival queue (`DS/Queue.c`, `DS/priorityQueue.c`) | arrays | enqueue, dequeue, push, pop | `rr_queue`, `waiting_queue`; the generator's input |

What is hard about it: five programs and four signal handlers interleave without any lock;
handlers change the very pointers, trees and queues that the interrupted code is working on;
signals of one kind merge; one semaphore is set instead of counted; decisions are taken on
remaining times that the running process is changing; sleeps are cut short by signals; the
program that cleans up interrupts itself while it does; and the allocator's search looks only at
some of the blocks below a candidate.

What makes each part correct:

- allocator: no byte given twice, no block of a live process unlinked, nothing leaked, no
  needless refusal, the tree stays a tree;
- scheduler: one process has the CPU and only that one works, no completion is lost or charged
  to another process, metrics add up, the policy is followed, ready processes do not starve;
- generator: the allocator is called as it has to be, every process is created once, the
  scheduler is told when all have been sent;
- data structures: nothing is lost, doubled or reordered when an array wraps around or grows;
- the whole: no crash, nobody is left behind, the simulation ends, and what it has taken from the
  system is given back.

## 2. The modules

| Module | Models | Notes |
|---|---|---|
| `BuddyMemory` | `memory_manager.c` as the generator drives it | blocks are paths of bits from the root |
| `BuddyMemoryProofs` | – | theorems about `BuddyMemory` |
| `SharedState` | what the programs share: clock, semaphores, message queue, signals | extended by the next three |
| `UserProcess` | `process.c` | one instance per process |
| `Scheduler` | `scheduler.c` | program counter `at`, two handlers |
| `Generator` | `process_generator.c` | uses the functions of `BuddyMemory` |
| `KernelSim` | these three and `clk.c`, interleaved | fairness and the properties of the whole |
| `DataLemmas` | – | for the proofs: queues without repetitions, sums over finite sets, loops, binary heaps |
| `KernelSimProofs` | – | the inductive invariant of `KernelSim`, and what follows from it |
| `KernelSimRefinement` | – | `KernelSim` implements `BuddyMemory` and `CpuScheduling` |
| `PolicyProofs` | – | theorems about what SRTN and RR promise, the sharing of the CPU, and the reported times |
| `CpuScheduling` | – | abstract: what any scheduler promises |
| `MinHeap` | `DS/minHeap.c`, `DS/comparators.c` | |
| `ArrivalQueue` | `DS/priorityQueue.c` as the generator uses it | fill, then empty |
| `ReadyHeap` | – | abstract: a set that gives out a least member; both heaps implement it |
| `HeapProofs` | – | theorems about `MinHeap` and `ArrivalQueue` |
| `RingQueue` | `DS/Queue.c` | operators on one ring |
| `WaitingQueue` | the two rings of `serve_waiting_queue` and `main` | extends `RingQueue` |
| `WaitingQueueProofs` | – | theorems about `WaitingQueue` |
| `WaitingLine` | – | abstract: a line in the order of arrival |
| `Lifecycle` | set-up, `clear_resources`, the handlers for SIGINT and SIGCHLD, `clk.c` but its ticks | the frame around `KernelSim` |
| `LifecycleProofs` | – | theorems about `Lifecycle` |
| `MCBuddyMemory`, `MCKernelSim`, `MCMinHeap`, `MCStructures`, `MCLifecycle` | – | instances for TLC; the first also has the recursive search of the C code, `MCStructures` puts the data structures side by side |

`MinHeap`, `WaitingQueue` and `ArrivalQueue` name their specifications with a prefix (`HeapSpec`,
`RingsSpec`, `ArrivalsSpec`), so that `MCStructures` can extend all three and its run checks the very
formulas that the proofs are about.

### How the models correspond to the code

*BuddyMemory.* The pointers of the tree become the domain of one function `mem`: creating a
child adds a path, freeing both children of a block removes all paths below it. `Found` is the
block that the depth-first search returns and `Visited` the blocks it has to create on its way,
also when it fails; both are sets, and `SearchAgrees`, a part of `MemoryIsKept`, compares them
with the recursion in every state of the run `structures`. `AllocateMemory`, `UpdateId` (which includes the fork) and `DeallocateMemory`
are the three moments that the main loop and the SIGCHLD handler interleave at. A process of
the model that has been reaped may come back: it then stands for a new process. Sizes are in
bytes; a memory of `2^Depth` bytes stands for the 1024 of the program.

*UserProcess.* `Acquire` is a `down_nb` that succeeds, `ReadClk` reads the clock, `Work` happens
when the clock has moved on, `Notify` is `up` and `kill`, `Exit` the exit. SIGSTOP may come
between any two. What `up` and `down_nb` do to a semaphore, a removed one included, is in
`SharedState`. A runtime of zero ends in `"crashed"`, by the division in the progress bar.

*Scheduler.* `at` cuts the main loop wherever another program or a handler matters: between the
test and the use of `current_process` (`post`/`grant`, `refresh`/`report`), between reading the
remaining time and stopping the process (`switch`/`preempt`/`stop`/`pick`), between messages.
Tests and uses with nothing but a few instructions in between are one step. `"fault"` stands for
undefined behaviour (a null or freed PCB): the model does not follow the run further. The ready
heap is a set from which any least process is taken; that the array heap does just this is
`MinHeap!ImplementsReadyHeap`. The PCB keeps what decisions and metrics need. The callers
of `context_switching` test for a ready process, and the handler may take it before `pick`: then
the CPU stays idle. SIGUSR1 that comes
before `main` has installed its handlers, early in `"boot"`, kills the scheduler. `logged` is the
time in the last line of `scheduler.log`. The clock is read, compared with `clockValue` and stored
in three steps (`ReadTime`, `CompareTime`, `StoreTime`), with the completion handler, which stores a
reading of its own, in between.

*Generator.* `Poll` starts a tick; `Serve`/`ServeDone` are `serve_waiting_queue`; `Arrive` takes
the next line; `Launch` is `createProcess`, `update_id` and `msgsnd`; `Post` sets the token;
`Wake` is the end of the tenth of a second that follows, with SIGUSR1 once. A SIGCHLD cuts that
sleep short (`roused`): there is no `SA_NOCLDSTOP`, so every stop and continuation of a process
sends one. The variable is kept only where it makes a difference: in a timed run, when SIGUSR1 is
what comes next. `ReapProcess` is the
SIGCHLD handler. Lines with the same arrival time may be taken in any order, as the order of the
arrival heap is an accident of its shape.

*WaitingQueue, ArrivalQueue, MinHeap.* The queues of the generator as they are in memory, with
the same steps as in `Generator`, where they are a sequence and a set. `ImplementsWaitingLine`
reads the two rings as one line: whatever wraps around or grows, the order of arrival stays.
`ImplementsReadyHeap` and `ArrivalsImplementReadyHeap` read an array as a set. `Update` of `MinHeap` is an operation that
nothing calls yet; it sifts from an index that may be out of date, and is right all the same.

*Lifecycle.* `main` and `stack` are the generator: what its main program does next, and the frames
of its handlers, the running one first. `signal` blocks a signal during its own handler and no
other, so SIGCHLD and SIGINT interrupt each other between any two calls of `clear_resources`,
inside `pq_free` and inside `destroy_memory_segment`. `child` is how far the other programs are: a
forked child that has not been replaced yet still has the generator's handlers, the clock has
`_cleanup`, the others die of SIGINT. A signal is handled before its receiver takes another step.
What happens between launch and exit of a process is left to `KernelSim`. The scheduler leaves once it
has been told that nothing more comes (`Tell`, `Leave`), also when processes are still there whose
messages it has not read. `Tell` waits for nobody: a scheduler that has not installed its handlers is
killed by it. `CrashOf` is every other crash of the scheduler or a process; nobody has to crash.

*KernelSim.* `Tick` is the clock. Two constants say how much the environment helps:

- `PromptSignals`: a pending signal is handled before the scheduler's next step. This is what a
  kernel does on one CPU, and what it does on several within the time of an interrupt. Without
  it a completion may be handled after another process has been dispatched, and RR and SRTN
  charge it to the wrong process (the handler cannot tell who has sent the signal), so
  `SignalAssumption` allows it for HPF only.
- `Timely`: what is to be done in a tick (a second) is done before the next; the work takes
  milliseconds. The generator's tenth of a second likewise outlasts the scheduler's hundredth.
  At the start the scheduler may still be in `sync_clk`, which can sleep for a whole second.

`LogIsChronological` depends on `Timely`: a tick and a SIGUSR2 between the reading of the clock and the
store (scheduler.c:113-115) log a completion in the new tick, put `clockValue` back to the old one, and
log a start there. `TimesInOrder` does not depend on it, but for the waiting times of SRTN (`Steady`).

## 3. What is checked

| Run | Checks | Shows |
|---|---|---|
| `buddy_narrow` | TypeOK, NoOverlap, HolderHasItsBlock, BlocksHaveOwners, FreeBlockIsFound | the allocator is right for block sizes that differ by a factor of two at most |
| `hpf` | TypeOK, NotifiedIsRetired, ImplementsCpuScheduling | HPF under signals and ticks at any moment |
| `hpf_timed` | WaitingIsExact, StartsAfterArrival, WorkFitsInTime, ImplementsBuddyMemory, LogIsChronological, Terminates | HPF with processes that wait for memory |
| `rr` | NotifiedIsRetired, WaitingIsExact, WorkFitsInTime, TimesInOrder, BoundedWait, ImplementsCpuScheduling, Terminates | RR |
| `srtn` | NotifiedIsRetired, WorkFitsInTime, TimesInOrder, ShortestRuns, UtilisationAtMostFull, ImplementsCpuScheduling, Terminates | SRTN |
| `structures` | HeapTypeOK, RingsTypeOK, ArrivalsTypeOK, MemoryIsKept, HeapOrdered, ImplementsReadyHeap, ImplementsWaitingLine, ArrivalsImplementReadyHeap | the heaps are sets with a least member, the waiting queue is a line, and the allocator, when requests differ so much that blocks overlap, still leaks nothing and searches as the model says |
| `lifecycle` | TypeOK, SharedReleased, NaturalEndIsClean, EverythingEnds | start, natural end, crashes and Ctrl-C |

Five more runs have a counterexample, each to a sentence of the repository:

| Run | Violates | What happens |
|---|---|---|
| `buddy_overlap` | NoOverlap | `get_used_space` looks only at the outermost paths. Book 1, 1 (buddies), free the first: the second is now on neither path below the half, and a request for the half gets it. 64, 64 and 256 of 1024 bytes do the same. |
| `crash` | NeverFaults | SIGUSR2 between `if (current_process != NULL)` and its use. With RR it is violated in `preempt_process` as well, where the handler frees the PCB that is being preempted. |
| `srtn_start` | StartsAfterArrival | `receive_new_process` runs SRTN with the `clockValue` of the tick before: a start before the arrival and a waiting time of -1. |
| `unread` | LeavesWhenAllDone | The scheduler has slept in `sync_clk` and is one token ahead. It is idle, SIGUSR1 has come, and the last message lies in the queue: it leaves. |
| `heap_ties` | TiesByLowerId | Equal priorities come out in an order that depends on the heap's shape. |

### What `lifecycle` shows about the end

The natural end: the exit of the scheduler is reaped, `clear_resources` runs in the SIGCHLD
handler, and its own `killpg` interrupts it with SIGINT. The second `clear_resources` does
everything up to the exit; the first is never resumed. It works because `pq_free` leaves a NULL
behind and because the tree is destroyed after the signal and not before, and `NaturalEndIsClean`
breaks when the order is changed.

Ctrl-C is less clean. The counterexamples to `NaturalEndIsClean` without its premise are:

- The SIGCHLD of a killed child is handled after `shmdt`, and its handler calls `get_clk()`: the
  generator dies of SIGSEGV before it frees its memory (by then the IPC objects are removed, which
  is what `SharedReleased` states). Only an exit counts as one, which is what the clock does.
- One `clear_resources` interrupts the other between `free` and the NULL in `pq_free`: double free.
- A child that exits before the generator has attached the clock: SIGSEGV with nothing removed.
- Ctrl-C before `msgget`, `semget` or `shmget`: the IDs are still 0, and the object that has the ID
  0 is removed instead.

`EverythingEnds` says that generator, scheduler and clock end. The exception is a crash: if SIGUSR1 has
killed the scheduler at its start, if the scheduler uses a NULL pointer, or if a process has died without
a notification, nothing in the code ends the others, and they run for ever (the generator reaps what was
killed by a signal and goes on). They do not outlive a Ctrl-C, which is part of the property: after
it everything ends, whatever has crashed and whichever handlers are under way. A scheduler that leaves
with a process unread is no exception: its exit is the end of everything.

### Bounds, and why they are enough

- Memory: `Depth = 3` and five processes: a full memory and all ways to split and merge over three levels. The
  proofs below lift the bound, and the one on sizes: what holds for requests of any size
  (`TypeOK`, `BlocksHaveOwners`, `FreeBlockIsFound`) is proved; `structures` has three processes with requests of 0, 1,
  4 and 9 of 8 bytes, for which allocations and deallocations can fail. Processes are symmetric.
- Simulation: two or three processes with runtimes up to three. Every interaction in the code is
  between the current process, one in the ready queue and one that arrives or waits for memory.
- `MaxClk = 12` lets the runs with `Timely` go on past the end of every simulation;
  `MaxClk = 4` in `hpf`, where ticks are free to come late or early, covers the life of
  the first process and the start of the second. The clock stops there.
- The input files are fixed in `MCKernelSim`: arrivals together, one by one, during a gap in which
  the CPU is idle, processes that have to wait for memory, one without any work.
- Structures: five processes and three keys, so that every comparison has all three outcomes. The
  ready heap has four places (three levels, and full), the array of the arrivals starts with two
  and doubles twice, a ring starts with two and doubles once, wrapped around or not. The program
  starts with 1024, 20 and 100 places.
- Lifecycle: two processes (one may be running when the other is only forked) and two Ctrl-C (one
  may come while the other is handled).
- `BoundedWait`: `(N - 1)(Quantum + 1) + 1`: a quantum of every other process, the tick that is
  lost when a process completes (the handler sets `clockValue`, so that tick dispatches nobody),
  and the second that the scheduler may start late.
- Deadlock is not checked in the runs of `KernelSim`: the simulation ends.

### Fairness

`Terminates` assumes `WF_vars(Next)`: the system does not stop while a program, a pending signal or
the clock can go on. Nothing is asked of a single program. That is enough because the polling
loops are guards in the model and every step makes progress: the clock is bounded, and within a
tick no step can be repeated for ever. The kernel, which gives every runnable program its turn and
delivers signals, justifies far more.

`EverythingEnds` assumes weak fairness of the generator and of each child: they are processes under
a fair kernel. That a scheduler which has been told leaves in the end, where nothing has crashed, is
`Terminates` of `KernelSim`. Neither a crash nor Ctrl-C is assumed to come.

## 4. What is proved

All for every value of the constants: any memory and requests, any number of processes, any input
file, any quantum, any capacity and keys. The inductive invariants of the simulation, the allocator
and the end were first checked by TLC on the instances of section 3.

### The allocator (`BuddyMemoryProofs`)

- `TypeCorrect`: the memory is a tree of blocks. Splitting adds paths whose parents are there
  (`SearchKeepsTree`), merging removes all that hangs below a block (`MergeKeepsTree`).
- `OwnersCorrect`: nothing leaks. The inductive invariant `OwnersInv` adds that a process has one
  block at most and that blocks without an owner are as good as fresh; without the second,
  merging could not be shown to lose nothing.
- `FreeBlockCorrect`: a request is refused only if every block of its size is in use, holds a block
  in use, or lies in one. The search goes from left to right, so the argument needs the first
  candidate in that order: paths of one length are compared bit by bit, and that order is shown to
  be well-founded (`BitsWellFounded`, `FirstCandidate`, `SearchFinds`).
- `NoOverlapCorrect`, `HolderCorrect`: with requests whose block sizes are positive and differ
  by a factor of two at most (`NarrowSizes`). `SafeInv` adds that a live block has the size of its
  request (`LevelsFit`). Then a live block below a candidate can only be its child, which
  `get_used_space` does see (`FoundIsClear`); and merging, which only looks at buddies, unlinks
  nothing live (`MergeSparesLive`). `buddy_overlap` shows that the condition is needed.

### The whole simulation (`KernelSimProofs`)

The inductive invariant `IInv` (`InvariantHolds`) has eleven parts, and none of them is inductive
alone:

| Part | Says | Needed because |
|---|---|---|
| `GeneratorPlaces` | a process is launched, or in exactly one of `pq`, the waiting queue, the temporary queue and `booked` | nobody is created twice; who is in no queue has a PCB |
| `SchedulerPlaces` | a launched process is in exactly one of the message queue, the ready set and the CPU, or is finished; all but the current one are stopped | only the current process can make a step, so only it can raise SIGUSR2 |
| `Control` | where the scheduler can be without a current process, and where HPF never is | the places in the middle of a context switch |
| `Signals` | a pending SIGUSR2 means that the current process has ended; whoever else has ended is retired | signals of one kind merge and do not name their sender: this is why none is lost |
| `Working` | remaining time and semaphore of a process, by its place in its program | a process ends with nothing left to do; its semaphore is removed only when it is retired |
| `Arrivals`, `Clocks`, `Stamps`, `Completions` | no recorded time is ahead of the clock, nor, if the run is `Steady`, of the time that the main loop works with (`LoopTime`: what it has read, or `clockValue`); the order of start, preemption, finish and of the waiting time | `clockValue` is set back to -1, is of the tick before, or is set by the handler; the time that has been read may be older |
| `Starts` | with HPF and RR who is ready when a decision is made has arrived by `clockValue` | the same is false for SRTN (`srtn_start`) |
| `Types` | the types that the others compute with | |

From it follow `NoCompletionLost`, `NoEarlyStart`, `TimesAreInOrder`, `LogNeverGoesBack` (with `Timely`,
which it needs: `logged` is then not later than `LoopTime`) and, with the allocator's invariant,
`TypesHold`. Nothing in `IInv` says that a start lies after the arrival with SRTN, because it does not. `SignalAssumption` is used for `Signals`: without prompt signals only HPF
keeps a second process from being charged.

`KernelSimRefinement` shows that every step of the simulation is a step of each abstract
specification or leaves it alone:

- `GeneratorImplementsMemory`: `Book`, `Refuse`, `Launch` and the SIGCHLD handler are the steps of
  `BuddyMemory`, and they come in its order because `booked` and the life of a process agree
  (`GeneratorPlaces`).
- `SimulationImplementsScheduling`: `Receive`, `Pick`, `StopVictim`, `Work` and the two ways through
  the completion handler are the steps of `CpuScheduling`; that two processes never run is
  `SchedulerPlaces`, that a retired one has finished is `Signals` with `Working`.

So what is proved of the two abstract specifications holds of the simulation: `MemoryIsOwned`,
`MemoryIsSafe` (for `NarrowSizes`), `OneProcessRuns` and `RetiredForEver`. The theorems of
`BuddyMemoryProofs` are taken as instances, with the variables of the simulation put in; a few
lemmas (`Same...`) say that the operators of both instances are the same. `CpuInv`, an inductive
invariant of the instance `Cpu` of `CpuScheduling`, is carried along the refinement.

### The policies (`PolicyProofs`)

`ShortestHasTheCpu`: with SRTN. `Estimates` says that the remaining time in a PCB, which is read
while the process goes on, is never too small; `Foremost` that the current process has been compared
with everybody at every place but those of the comparison itself. Neither ticks nor signals
need to be in time.

The other theorems assume `Timely` and start from `TickInv`, which follows the scheduler through a
tick: `Marks` says that what belongs to a tick is done in it, `Turns` follows the semaphore and the
place of the current process, so that when the clock ticks it has been granted this tick and has seen
it (`TickWhenSettled`), and `TickOrder`, for HPF and RR, that the scheduler works once in every tick in
which a process runs: who waits at the end of a tick has left a token for the next.

- `BooksBalance`: with HPF and RR. `Books` counts arrival, waiting and work: they add up to now for
  the current process and to the last preemption for a ready one, less the unit that a process
  owes which is stopped or resumed in the middle of a tick. That unit is what makes the formula in
  `resume_process` right.
- `OneCpu`, `UtilisationFits`: with every algorithm. A process claims a tick when the clock
  shows it while the process waits for it. Only the current process can be waiting (`OneAtWork`), so a
  tick of the clock raises the sum of all claims by one at most, and nothing else raises it: doing
  the work only settles a claim. So the claims fit into the time since the first start
  (`ClaimsFit`); while the CPU is idle they fit into the time up to `clockValue` (`LastCompletion`),
  which the report uses although the handler sets it, and at the end nobody who has started has been
  forgotten (`Accounts`). The sums are those of `DataLemmas`, and the fold in the properties is one.
- `EverybodyIsServed`: with RR, and as long as nobody has to wait for memory, `BoundedWait`. `Due` is
  the latest time at which the first in the queue gets the CPU, and each one behind it has to wait a
  slot (a quantum, and the tick that a completion costs) longer. `InTime` says that nobody's turn
  comes too late. No step puts `Due` off: the current process does not outstay its quantum
  (`WithinQuantum`), the scheduler works in every tick (`NoTickIsSkipped`), and a process is received
  in the tick of its arrival or in the next (`ArrivalsInTime`), which is where the memory comes in.

### The heaps (`HeapProofs`)

`heapify_up`, `heapify_down` and the loops of `pq_push` and `pq_pop` are functions that call
themselves last. `DataLemmas` has what a loop needs: as long as a measure falls there is one
function that satisfies the equation (`LoopExists`), and what holds at the start and is kept by
each round holds at the end (`LoopEnds`). What is kept: the array holds the same processes, none of
them twice, and it is in order but for one place that may still have to go up (`OrderedButUp`) or
down (`OrderedButDown`). One round moves that place (`StepUp`, `StepDown`); both say also that what is
below the place is not less than what is above it, without which they would not be inductive.

- `HeapIsSound`, `HeapStaysOrdered`, `HeapIsAReadySet`: for the ready heap. The case that is not
  obvious is `update_process_in_heap`, which sifts up and then down from the place where the process was:
  a changed key may have to go up or down, but not both (`OneChanges`); after it has gone up, the
  sift down finds an array in order and changes nothing.
- `ArrivalsAreSound`, `ArrivalsAreAReadySet`: for the arrival queue, where a hole moves up instead of
  a process, the array is longer than what is used of it, and is doubled when it is full.

So the set in `Scheduler` and the one in `Generator` are justified for heaps of any size.

### The waiting queue (`WaitingQueueProofs`)

`RingsAreSound` and `OrderOfArrivalIsKept`: a ring is read as a sequence; enqueuing appends to it,
dequeuing takes its head and `resize` leaves it alone, wherever the array wraps around
(`EnqueueQueue`, `DequeueQueue`, `ResizeQueue`). The two rings of `serve_waiting_queue`, one after
the other, are the line of `WaitingLine`: moving a process from one to the other, or back, is a
stutter of the line, or makes it shorter by the process that has been given memory.

### Start and end (`LifecycleProofs`)

- `ProgramsHaveTypes`, `ResourcesAreReleased`, with Ctrl-C at any moment: `Handlers` says how far the
  frames on the stack have come and what is removed by then, `Doomed` that after a SIGINT no child
  is left that does not get one too, so that none creates an object again, and `Objects` what of
  the start can already be there. Crashes of the other programs are included.
- `NaturalEndIsProper`, without Ctrl-C: the generator is in `Startup`, or in `Shutdown`, where the SIGCHLD
  handler has come to its own `killpg` (`First`) or has been interrupted by it (`Second`). For
  each place of `clear_resources` they say what is freed.

### Assumptions

They are the named `ASSUME`s: the set of processes is finite, `Depth`, the sizes, `MaxClk` and
`MaxInterrupts` are naturals, the quantum is positive, the requests of the input are among the
sizes, `None` is neither a process nor a number, the names of the programs are not names of processes,
priorities and arrival times are integers, the capacities are naturals (and positive where an array
is doubled), and `SignalAssumption`. Theorems that need more say so (`NarrowSizes`, `Timely`, the algorithm).

### What is only model-checked

- `MemoryIsKept` compares the search with the recursion of the C code, a `RECURSIVE` operator, which is
  out of the reach of the prover; its other part is `OwnersCorrect`.
- `Terminates` and `EverythingEnds`: liveness under fairness is out of the prover's reach.

## 5. What is not modelled

- Signal handlers in the middle of `traverse_MemorySegment`, of a heap operation or of `malloc` and
  `printf`, whose locks the interrupted code may hold.
- The averages of the report and the arrays of 100 results, all drawing, and what is written to the
  logs (except for the times in `scheduler.log`).
- `parse_args` and the parsing of the input file (the inputs are sets of parsed lines).
- System calls that fail: `fork`, `semget`, and `msgsnd`, which fails with EINTR when a SIGCHLD
  comes while the message queue is full, and then ends the generator without `clear_resources`.
- The semaphore and the shared memory of the single processes at the end (a Ctrl-C leaks them), and
  IPC objects left over from a run that was killed.
- Code that nothing calls: `find_process_by_pid`, `find_process_in_heap`, `destroy_min_heap`,
  `queue_free`, `down`, `up_nb`.

## 6. What is left

Done: all components, and proofs about each of them; every safety property of the passing runs is a
theorem but `MemoryIsKept`. Left: handlers inside the allocator's search, which would need the tree walk
as separate steps, and the ready heap inside the scheduler, whose completion handler may come in the
middle of a heap operation.
