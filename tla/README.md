# A TLA+ model of the hhuOS kernel

hhuOS is a small operating system for 32-bit x86 machines: a preemptive kernel
with processes and threads, paging, a network stack, file systems and device
drivers, and a user library shared by kernel and applications.  This directory
holds TLA+ modules for the parts of it whose correctness depends on the order in
which threads and interrupts run, the TLC configurations that check them on
small instances, and proofs that TLAPS checks for every instance.

Paths in this file are relative to `src/src/`.

| file | contents |
|---|---|
| `Scheduler`, `MCScheduler`, `SchedulerProofs` | the thread scheduler and its cleaner |
| `PagingPool`, `BlockPool`, `MCPagingPool`, `PagingPoolProofs` | the lock-free allocator of page tables and the abstract allocator it implements |
| `PipedStream`, `Channel`, `MCPipedStream`, `PipedStreamProofs` | the ring buffer of pipes and the FIFO channel it implements |
| `PageFrames`, `FrameOwners`, `MCPageFrames` | the page frame allocator and the exclusive ownership it implements |
| `FreeListHeap`, `MCFreeListHeap` | the heap of the kernel and of processes |
| `MemoryProofs` | the proofs about `PageFrames` and `FreeListHeap` |
| `ProcessLifecycle`, `MCProcessLifecycle`, `ProcessLifecycleProofs` | the end of a process |
| `LazyFpu`, `Preemption`, `MCPreemption`, `PreemptionProofs` | the FPU registers of threads, and the timer interrupt composed with them |
| `NetworkDevice`, `MCNetworkDevice`, `NetworkDeviceProofs` | packet queues and buffers, the packet reader, two network drivers |
| `NetworkStack`, `MCNetworkStack`, `NetworkStackProofs` | ARP, echo replies and UDP sockets above the packet reader |
| `MC*_<run>.cfg` | one TLC configuration per run |
| `PROJECT.json` | components, runs, mutants, the map from definitions to source lines, findings, hazards, theorems |

To check a run: `tlc -config MCScheduler_lifecycle.cfg MCScheduler`; to check the
proofs of a module: `tlapm SchedulerProofs.tla`.

## 1. Inventory

What runs concurrently in this system: kernel and user threads on one CPU, which
the timer interrupt preempts between any two instructions (`Scheduler::yield()`
returns without switching while `readyQueueLock` is taken, and only then), and
the interrupt handlers of the devices.  Locks are spinlocks that yield in their
waiting loop; there are no sleeping locks and no condition variables.

| component | state | operations | what is hard | what makes it correct |
|---|---|---|---|---|
| **Scheduler** `kernel/process/Scheduler` | `readyQueue`, `currentThread`, `sleepList`, `joinMap`, their locks | start, ready, exit, kill, yield, block, sleep, join, getThread | a thread enters itself into a list and blocks in a second step; the timer in between; locks taken under other locks | no wake-up lost or doubled, exclusion, nobody waits under `readyQueueLock`, sleepers run again |
| **Scheduler cleaner** `SchedulerCleaner` | queues of terminated threads and processes | cleanup, cleanupThreads, cleanupProcesses | frees what other threads may still point to; polls and adds without a lock while others offer | no use after free, everything terminated is freed |
| **Timers** `Pit`, `ApicTimer` | system time, reader counter | trigger, getTime | the interrupt meets a reader of the time, or the scheduler's locks | time is monotonic, `yield()` from an interrupt is harmless |
| **Processes** `Process`, `ProcessService`, `AddressSpaceCleaner` | process list, thread list of a process, exit code | create, exit, kill, join, loadBinary | list iterations while threads remove themselves; two terminations at once | memory stays mapped under a running thread, a process is freed once, joins wait for its end |
| **Locks** `Spinlock`, `ReentrantSpinlock` | holder, depth | acquire, tryAcquire, release | the waiting loop yields; the owner is read unlocked | exclusion |
| **Paging-area pool** `PagingAreaManager`, `Pool`, `AtomicBitmap`, `BitmapMemoryManager` | two bitmaps and an array of slots, the bitmap of the area, a counter | allocateBlock, freeBlock, refillPool, push, pop | no lock anywhere: every bit operation interleaves | every block has one owner |
| **Page frames** `TableMemoryManager` | two-level table with lock bits and use counts | allocateBlock, freeBlock, setMemory | lock bits in the same words as the counts | a frame is used as often as its count says |
| **Kernel heap** `FreeListMemoryManager` | list of free chunks, lock | allocate, free, realloc, aligned variants | merging neighbours, header arithmetic | chunks are disjoint |
| **Virtual memory** `Paging`, `VirtualAddressSpace` | page directories and tables | map, unmap, translate | tables allocated while mapping | a page maps one frame |
| **Pipes** `PipedInputStream`, `PipedOutputStream` | ring buffer, two positions, lock, peeked character | read, peek, write, available | waiting inside a call, full and empty look alike | FIFO, nothing lost |
| **Collections** `ArrayList`, `ArrayBlockingQueue`, `HashMap` | arrays and counters | add, remove, offer, poll | `ArrayBlockingQueue` is used between interrupt handlers and threads without a lock | sequence semantics |
| **Lazy FPU** `Fpu`, `Scheduler::switchFpuContext` | owner of the FPU registers, TS flag | switch, trap | the owner may have terminated | registers belong to the running thread |
| **Network devices** `NetworkDevice`, `PacketReader`, `Rtl8139`, `Loopback`, `Ne2000` | two packet queues, packet memory, count of postponed frees | sendPacket, handleIncomingPacket, getNextIncomingPacket, freeLastSendBuffer, trigger | interrupt against reader thread and sender on queues without a lock; merged interrupts | a packet buffer has one owner, none is freed that has to be sent |
| **Network stack** `ArpModule`, `Ip4Module`, `IcmpModule`, `UdpModule`, `DatagramSocket` | ARP table, socket list, datagram queue of each socket | resolve, send, receive, bind, close | one reader thread for all layers, lost and late replies, retries, timeouts | datagrams reach their sockets in order, calls return |
| **File systems** `FilesystemService`, `FileDescriptorManager`, drivers | mount table, descriptor table, nodes | open, close, mount, read, write | the descriptor table has no lock; the rest is mostly sequential | a descriptor names one open file |
| **Storage, graphics, sound, HID, PCI, ACPI drivers** | device registers | I/O | the other half is hardware | - |

How they interact: the timer handler calls `Scheduler::yield()`; the scheduler's
queues allocate from the kernel heap while `readyQueueLock` is held, which
couples its lock with the heap's; `ProcessService` turns system calls into
scheduler calls; the cleaners and the pool refiller are kernel threads that live
from `sleep()`; mapping a page takes page tables from the paging-area pool and a
frame from the page frame allocator; a page fault maps heap pages and `free()` may
unmap them; the packet reader runs the whole stack, up to the sockets' queues,
inside one call per packet; every thread switch arms the FPU monitor; pipes,
terminals and sound use the same ring buffer from several threads.

Everything here that is hard to test is listed under `hazards` in
`PROJECT.json`, with its source line and the properties that cover it.

## 2. Plan

Modelled, in this order: `Scheduler` (the part everything else depends on),
`PagingPool` with `BlockPool`, `PipedStream` with `Channel`, `PageFrames` with
`FrameOwners`, `NetworkDevice`, `NetworkStack`, `ProcessLifecycle`, `FreeListHeap`, and
`LazyFpu` composed with the clock in `Preemption`.

Worth modelling next: the descriptor table (`FileDescriptorManager`), `ReentrantSpinlock`
with its owner that is read unlocked, the `Ne2000` driver, and the raw ICMP and IPv4
sockets, whose `DatagramSocket` half is already in `NetworkStack`.

All safety properties of the passing runs but `SoundUnlessTorn` are proved as well
(section 4).  What is left to TLC is that one, liveness, and the properties that the
code violates.

## 3. The modules

### Scheduler

State, as in the code: `currentThread`, `readyQueue` with the `capacity` of its
array list, `sleepList`, `joinMap` with its key set `live`, the cleaner's
`threadQueue` (the slots of its `ArrayBlockingQueue`) with `ring` (`head`, `tail`, `length`, and
what the cleaner has loaded of them), the set `deleted` of freed thread objects, and the holder of each
lock (`readyQueueLock`, `sleepQueueLock`, `joinLock`, and `heapLock` of the kernel
heap, which the queues need to grow).  Added: `pc` and `target`, where in the
kernel each thread is and with which argument, `fault`, the way in which
the machine came to a halt, and the history variable `torn`: a termination has hit
the cleaner inside one of the updates of its queue (`Tears`).

A step is what a thread does between two points at which the timer may preempt it
*and* another thread can tell the difference.  Since `yield()` does nothing while
`readyQueueLock` is taken, a section under that lock is one step, except where
the code waits inside it.

| action | code |
|---|---|
| `Start`, `Ready`, `Exit` | `start()`, `ready()` and `exit()`, including `lockReadyQueue()` |
| `TimerTick`, `TimerPreempt` | the interrupt handlers of the timers; time as ticks left until each wake-up |
| `VoluntaryYield` | a thread that polls or spins on a lock |
| `SleepEnter`, `SleepAdd`, `BlockEnter`, `BlockSwitch` | `sleep()` and `block()`: list entry, lock, loop over `checkSleepList()`, switch or early return |
| `JoinBegin`, `LookReady`, `LookSleepLock`, `LookSleep`, `JoinLock`, `JoinAdd` | `JOIN_THREAD`: `getThread()` in two locked parts, then `join()` |
| `KillBegin`, `KillLock`, `KillRemove` | `kill()`, which waits for `sleepQueueLock` under `readyQueueLock` |
| `AllocEnter`, `AllocExit` | any kernel allocation: the heap's lock |
| `CleanerPoll`, `CleanerPollStore`, `CleanerPollRead` | `threadQueue.poll()` of the cleaner: the load and the store of `length--`, then the read of the slot |
| `CleanerRequeue`, `CleanerAddLoad`, `CleanerAddStore`, `CleanerAddSlot`, `CleanerAddLength`, `CleanerAddDone` | `threadQueue.add()`: room, the load and the store of `tail`, the slot, the load and the store of `length++` |
| `CleanerDelete` (and the `Look` actions) | the rest of `cleanupThreads()` |

`Yield` and `BlockSwitch` contain the whole of `checkSleepList()`, `poll()`,
`offer()` with the growth of the queue, and `switch_thread`.  A scan of the sleep
list that removes entries while it walks the list skips the one behind each
removed entry; it is modelled as the choice of positions that such a scan makes.

The cleaner's queue has no lock.  `exit()` and `kill()` offer to it under `readyQueueLock`,
so their part is one step (`Terminate`); the cleaner holds no lock, and each of its
memory accesses is a step of its own.  A termination between a load and its store
loses an update: an offered thread is overwritten and never freed, or `length` stays
too large and a stale slot is polled, which is the fault `wild` when the slot is empty
or holds a thread that was freed.  `NoUseAfterFree` holds up to that fault,
`TerminatedIsFreed` unless `torn`, and `SoundUnlessTorn` says that nothing but a
termination inside an update leads to it.

`TokenConservation` exempts one thread (`HalfKilled`): the victim of a `kill()` that ends
in an exception, because the cleaner's queue is full or the join list is missing,
after it has taken the victim off the sleep list.

Runs (workers `a`, `b`, the cleaner `c`, polling threads `s` and, in `liveness`, `s2`):

| run | result | distinct states |
|---|---|---|
| `lifecycle` | create, sleep, join, allocate, kill, exit: types, exclusion, no wake-up lost or doubled, no early return of `sleep()` or `join()` | 976,000 |
| `liveness` | two workers that sleep and exit, and two polling threads: no use after free, the cleaner's queue is sound unless torn, the ready queue is never empty in `yield()`, every sleeper runs again, every terminated thread is freed, unless the kernel has derailed or the queue was torn | 117,000 |
| `kill_free` | violated: a killed thread stays in a join list and is freed | |

Bounds: sleeps of 0 and 1 ticks (1 in `liveness`) and a cleaner period of 1 (0 in
`liveness`) make wake-ups fall before, into and after every window of `block()`; two workers
are enough for every pair of calls to meet, and the cleaner and the polling thread
add a third and a fourth actor.  Two workers in `liveness` let one exit while the
cleaner requeues the other, which is where its queue is torn.  The cleaner's queue has 1 or 2 places instead of 16
so that it fills up, and the ready queue of `lifecycle` starts with room for 3
instead of 16, so that it grows.

Fairness (`FairSpec`): the timer interrupt keeps coming (`WF` of `TimerTick` and
`TimerPreempt`), and a thread that gets the CPU again and again takes its next
step inside the kernel (`SF` of `Progress`), because a time slice is many
instructions long and the tick is not synchronised with the threads' loops.
Nothing is assumed of threads in their own code, except of the cleaner, whose
code is the kernel's.  The liveness properties exclude the states named by
`Derailed`, the defects of section 5.  A
worker that does nothing but allocate or search could keep the heap's lock, or
`sleepQueueLock`, taken at every single moment at which the cleaner or the timer
looks at it: the spinlocks are not fair, so `liveness` leaves those calls out.

### PagingPool and BlockPool

`PagingAreaManager` hands out page tables from a `Pool` of prepared blocks, which a
kernel thread refills from the `BitmapMemoryManager`.  The state is that of the code:
`bitmap`, `freeMemory`, `array`, `allocatedMap`, `writtenMap`, the locals of each thread
(`idx`, `block`, `reg`, `degree`, `round`) and `inUse`, the blocks that are page
tables.  No lock is taken, so one action is one atomic bit operation, one load or
one store: the scans of `findAndSet()` and `findAndUnset()` are `...Hit`, `...Miss`
and `...None`.  `freeMemory` is a plain variable: its read and its write are
separate steps in `allocateBlock()`, which checks in between, and in `freeBlock()`,
where an unoptimised build separates them.  It is counted in blocks modulo `Word`.

The refill thread zeroes the block that it has claimed.  Only the first part of the
paging area is mapped in advance, so the page may fault, and the fault may need a page
table itself: `PageFault` starts a `pop()` of the thread `Handler`, which stands for the
refiller inside the fault, and the refiller goes on when that is over (`Zeroed`).  A
`pop()` that finds nothing halts the kernel (`PopNone`), or ends the process when its
caller belongs to one (`PopNoneUser`).  A caller may be killed inside `pop()` or
`freeBlock()` (`Kill`); it keeps what it has in its hands for ever.

`BlockPool` says what this is meant to be: a block is free, in the pool, in use,
reserved, or in the hands of one thread.  Under the refinement mapping a thread
has a block in hand from the atomic reset of the slot's bit on (`HeldBy`), before
it has read the slot.

| run | result | distinct states |
|---|---|---|
| `pool` | the refiller with its page faults and a thread that allocates, frees and may be killed, four blocks, two slots: types, one owner per block, one owner per half-open slot, refinement of `BlockPool`, an empty pool is filled again unless an exception halted the kernel or killed threads have kept every slot | 763,000 |

Bounds: two slots make a full pool, an empty one and a scan that is overtaken;
four blocks let the area run out; `Word` = 5 makes the counter's wrap-around
visible.  Ownership and the refinement are proved for any number of threads, so
the run has one caller besides the refiller and its page fault.  Updates of `freeMemory` do get lost in this model, as they do in
the code; `TypeOK` shows that the underflow check still keeps the counter in range.
Deadlock is not checked: an exception halts the kernel.  The fairness is that of
threads that the scheduler runs round robin: weak fairness of the refiller, in its own code
and in a page fault, and of a thread that has found a bit and goes on to read the slot,
unless it is killed; the refiller's `sleep()`
between two refills has no effect on the pool and is left out.

### PipedStream and Channel

State: `buffer`, `inPosition` (-1 when empty), `outPosition`, `lock`,
`peekedCharacter`; per thread the locals of `read()` and `write()`; and three
history variables: what was put into the buffer, taken out, and returned to a
caller.  A byte is the pair of its writer and its number.  A round of a copy loop
is two steps, the copying and the update of the positions, between which another
thread could look at the buffer if the lock did not prevent it; waiting is a
release and a new acquire.  A call has a length greater than zero.

| run | result | distinct states |
|---|---|---|
| `pipe` | two writers, one reader that mixes `read()` and `peek()`, buffer of 2, arrays of 2 and 3 bytes: `available()` is exact, refinement of `Channel`, a peeked byte is delivered once, every `write()` returns, every byte is received | 46,600 |

Bounds: arrays longer than the buffer force waiting inside a call, and every
position wraps.  Fairness: threads are scheduled round robin (`WF`), and a thread
that tries to take the lock again and again finds it free at some time (`SF` of the
two lock actions), because its holder releases it while it waits; readers read
again, as the terminals do.  Deadlock is checked: the reader waits in a loop and
never stops.  A peeked byte has left the buffer: `available()` does not count it, although
`read()` will still return it.  `PeekedOnce` is a promise to one reader: two that peek can lose a byte,
because `peekedCharacter` is not protected by the lock.

### PageFrames and FrameOwners

`TableMemoryManager` keeps a use count per frame in two-level tables, with a lock bit
in the entry above each table; `MemoryService` takes single frames for `map()`, and
for `mapIO()` a block of the slab allocator or, if there is none, a run of frames
that follow each other, which it collects one by one.  State: `useCount`, `installed`,
`lock`, the frames `mapped` by each thread (those of the slab allocator apart), the
slab blocks in use, and the locals of the search.  A step is one operation on a
table entry: `TryLock` (with the allocation of a missing table), `Check`, `Take`,
`TakeUnlock` / `GiveUp`, the next of the three searches (`Retry`, `SearchFails`), `Extend`
and `Drop` of the run, and `Free`, which takes no lock.  `FreePageTable` unmaps the page
of a page table and does not return its frame.  Frame 0 has the address that means
"none" in the code.

`OneTableUser` is about those who get frames from the tables: a frame has at most one
user among them.  A frame that nobody uses keeps its count only if it is lost for good
(`Lost`): boot allocated it for the slab pools, `freePageTable()` forgot it, or
`freePhysicalMemory()` told the slab allocator instead of the tables, which it decides by
the first frame of a run alone (history variable `leaked`).  The users of slab blocks are
not counted.  In this very instance a frame can have a user from the tables and others
from a pool, because the pools reach past the memory that was allocated for them: the
model has these states, and neither property forbids them.

| run | result | distinct states |
|---|---|---|
| `frames` | two threads, five frames in two tables, runs of two: one user per frame among the users of the tables, counts that agree with them, no reserved frame handed out, refinement of `FrameOwners` | 2.22 million |

Bounds: two tables, the second not installed at boot, let a search skip a locked
table and find another; five frames run out, so that all three searches fail.  The
slab pool has a block of two frames of which boot allocated only the first, as the
last pools in the code have (section 5).  The threads are symmetric.  Deadlock is
not checked: running out of memory stops a thread.

### FreeListHeap

`FreeListMemoryManager`: the list of free chunks (`heap.first`, `next`, `prev`, `size`),
blocks with their `owner` and what was `asked` for.  Allocation and release are atomic
under the heap's lock.  `reallocateMemory()` takes and releases the lock several times:
`Shrink` and `ShrinkEnd`, `Grow`, `Move` and `MoveEnd` are its parts.  The list
operations are functions on the heap (`Insert`, `Unlink`, `Cut`, `Sliced`, `Merged`), checked
against what they are for: `Tiled` says that blocks and chunks partition the heap.

| run | result | distinct states |
|---|---|---|
| `heap` | two threads, a heap of 28 words, headers of 3, sizes 2 and 8, alignments 1 and 8: the tiling, the order and full merging of the list, size and alignment of every block | 13,900 |
| `unmap` | violated: `freeAlgorithm()` counts the header into the pages to unmap (line 229); the page behind the chunk goes with it, and with it the header of the next block | |

Bounds: the heap holds up to five small blocks or two aligned ones with a gap in
front, so that every case of slicing, merging with either neighbour and growing in
place occurs.  Sizes are in words, and a page has 8.

### ProcessLifecycle

One process with its loader, main thread and a worker, a thread of another
process that kills it and one that joins it.  State: the `status` of each thread, the
list `threads`, `mainThread`, `finished`, `listed`, `unmapped`, how often the process is
`queued` at the scheduler cleaner, `freed`, and `system`, what halted the kernel.  Calls
of the scheduler are single steps, as they hold `readyQueueLock`; everything
between them interleaves.  `ExitProcess`, `GetProcess`, `KillProcess`, `Kill`, `ReadyCleaner` and
`Finish` are `exitCurrentProcess()` and `killProcess()`; `AwaitAlone`, `Unmap` and `Cleanup`
the `AddressSpaceCleaner`; `DeleteThread`, `ThreadsDone`, `DeleteProcess`, `ProcessesDone` the
scheduler cleaner; `JoinProcess`, `AwaitMain`, `JoinMain` are `join()` of the process.

`FindThread` and `JoinThread` are `JOIN_THREAD` among the threads of the process, with `joins`,
whom each of them waits for.  `exit()` and `kill()` make ready whoever is in the join list
of their victim (`Terminated`), also a thread that was killed while it waited there: its
status becomes `revived`.  The process no longer counts that thread, so its memory may
be unmapped under it; `UserMemoryKept` and `JoinMeansEnd` are stated until this happens
(history variable `revived`), and what such a thread does is not followed.  Both forms
of `join()` return with `joinLock` taken (`joinLocked`) when the thread is not in `joinMap`.
For `Process::join()` this can be before the main thread is started, since
`setMainThread()` comes before `ready()` (BinaryLoader.cpp:98-99): the joiner returns too
early, and the main thread is never started, because `ready()` waits for that lock.
`JoinMeansEnd` says just this.

| run | result | distinct states |
|---|---|---|
| `process` | until a killed thread is made ready again, user memory is unmapped only when no thread can return to it and `join()` returns when the main thread has ended or never begins; a terminated process is freed in the end if nothing disturbs it | 380,000 |

Fairness: the scheduler cleaner sweeps for ever and the scheduler runs every ready
thread again (`WF` of `Sweep` and of `Proceed` per thread); nothing is assumed of user
code.  `CleanedUp` excludes what `Undisturbed` names: the kernel halted, a thread that
was created while the others were killed, two cleaners that wait for each other,
`joinLock` left taken, a killed thread made ready again.  It catches none of these.

### LazyFpu and Preemption

`LazyFpu` has the running thread, where each thread is in its `life`, `last`
(`lastFpuThread`), the monitor `armed`, the registers and the saved contexts; `own` remembers
what each thread left in the registers.  A thread is the address of its `Thread`
object, which is used again after the deletion: the trap handler compares
addresses.  `Preemption` adds the clock of the PIT: `time`, two words that a thread
copies in two steps, `intervals`, `readerCount`, and the interrupt (`Tick`), which counts
or postpones and then preempts.  With no other ready thread `yield()` waits for ever in
`readyQueue.poll()` under `readyQueueLock` (`waiting`).

A killed thread is `dead` but stays in the join list that it waits in (`joinList`); the end
of the thread it waits for makes it ready again (`Terminate`), and the cleaner may delete
it at any time (`doomed`).  Such a thread has lost its registers to
`resetLastFpuThread()`, and it may become `lastFpuThread` and then be deleted: `OwnRegisters`
and `LastFpuThreadAlive` are stated until a killed thread is made ready again (history
variable `revived`).

| run | result | distinct states |
|---|---|---|
| `preemption` | three thread addresses, a yield every second tick, three ticks: own registers and `lastFpuThread` alive until a killed thread is made ready again, no torn time, no tick lost | 9.7 million |

Bounds: three addresses let a thread be killed and its address be used by another
while a third runs; two intervals per second make every second tick carry, and three
ticks are two of them with a reader in between.  The threads but the first are
symmetric.  Deadlock is not checked: `yield()` may wait for ever.

### NetworkDevice

Two `ArrayBlockingQueue`s and their buffers, shared without a lock by the packet
reader, the sending threads and the interrupt handler.  `length++` and `length--` are a
load and a store, between which the handler may run (`PollLoad`, `PollStore`, `SendLoad`,
`SendStore`); the handler itself is not interrupted (`isr`).  The card is external: it
transmits in order, completes with or without an error, and reports several
completions by one interrupt.  `freeLastSendBuffer()` postpones its work while the heap
is locked (`toFree`).  With the driver `Loopback` the sending thread does what the
handler does.  There a thread can be preempted inside `length++` of the incoming queue,
and then it is the reader's `length--` that gets lost: the queue seems longer than it is,
and the reader polls a stale slot and frees a free buffer.  The model has these states;
`CardOneOwner` is claimed for the driver of the card only.

| run | result | distinct states |
|---|---|---|
| `packets` | two senders, both drivers, two packet buffers, queues of three: with the card, every packet buffer at one place; with both drivers, no buffer freed that has to be sent, and the handler never waits in `poll()` | 6.1 million |

Bounds: the pool has fewer buffers than the queue has places, as in the code (8
and 16), which is what keeps a lost `length++` harmless.
Senders and their buffers are symmetric.

### NetworkStack

The ARP cache, the addresses and queues of sockets, their locks and `UdpModule`'s
`socketLock`, the reader with the packet it handles, each application's call, and of the
device how many buffers its outgoing queue holds (`backlog`) and how many packets the
card has (`card`).  An ARP packet, an echo request or a datagram may be the next one that
the reader gets, at any time or never, which covers lost and late replies.  The reader
delivers under `socketLock` (`LockList`, `LockSocket`, `Offer`, `UnlockList`) and resolves the
address for its echo reply itself (`ReplyResolve`).  `SendResolve` counts the retries of
`resolveAddress()`; `Receive` has the blocking, timed and non-blocking form.

Whatever is sent (ARP requests and replies, echo replies, datagrams) goes through
`sendPacket()`, where the caller waits for room in the queue and for a descriptor
(`ReaderSend`, `AppSend`).  `Transmitted` is the card and the interrupt handler: a packet is
sent, and none, one or several buffers are freed, as `NetworkDevice` has them (merged
interrupts, errors, postponed frees).  When the queue is full of buffers that no
interrupt will free any more, `sendPacket()` waits for ever (`Clogged`); the two liveness
properties hold unless this has happened.

| run | result | distinct states |
|---|---|---|
| `stack` | two applications with a socket each: nothing is delivered to a deleted socket, datagrams are received once and in order, addresses are unique, the reader and every call return unless the kernel has halted or the device is clogged | 185,000 |

Bounds: one port makes binds collide; two retries and two datagrams suffice for a
reply between retries, after the last one, and for a queue of two.  The outgoing
queue has one place and the card one descriptor, so that a sender has to wait for another; one
of the applications and the reader send.  Fairness: the scheduler runs the reader and
every application inside a call, the card sends what it is given (`WF`), and a thread
that tries to send again and again finds room at some time (`SF` of `ReaderSend` and
`AppSend`); nothing makes a packet arrive, so a blocking `receive()` is excluded from
`CallsReturn` until there is a datagram.  `ReaderReturns` and `CallsReturn` are claimed for
threads that have their own sockets.  With a shared socket one of them can wait inside
`poll()` with its lock, and a thread that closes it does not wait for the others;
`Close` assumes that the program does.

## 4. Proofs

| theorem | statement | for |
|---|---|---|
| `SchedulerProofs!TypeCorrect` | `Spec => []TypeOK` | any finite set of threads, boot order, workload and capacities |
| `SchedulerProofs!LocksHold` | `Spec => []LockDiscipline` | the same |
| `SchedulerProofs!WakeupsAreConserved` | `Spec => []TokenConservation` | the same |
| `SchedulerProofs!ReturnsAreNotEarly` | `Spec => []NoEarlyReturn` | the same |
| `SchedulerProofs!JoinReturnsAfterExit` | `Spec => JoinMeansExit` | the same |
| `SchedulerProofs!YieldFindsThread` | `Spec => []NeverPollsEmptyQueue` | the same, with two polling threads among them |
| `SchedulerProofs!FreedIsUnused` | `Spec => []NoUseAfterFree` | the same, workloads without `kill` |
| `PagingPoolProofs!TypeCorrect` | `Spec => []TypeOK` | any number of threads, blocks and slots |
| `PagingPoolProofs!BlocksHaveOneOwner` | `Spec => []OneOwner` | the same |
| `PagingPoolProofs!SlotsAreOwned` | `Spec => []SlotOwned` | the same |
| `PagingPoolProofs!Refinement` | `Spec => ImplementsBlockPool` | the same |
| `PipedStreamProofs!AvailableIsExact` | `Spec => []AvailableExact` | any buffer size, any number of writers and readers |
| `PipedStreamProofs!Refinement` | `Spec => ImplementsChannel` | the same |
| `PipedStreamProofs!BytesAreReturnedOnce` | `Spec => []PeekedOnce` | any buffer size and number of writers, one reader |
| `MemoryProofs!TableFramesHaveOneUser` | `Spec => []OneTableUser` | any number of threads, frames, tables and run lengths |
| `MemoryProofs!Refinement` | `Spec => ImplementsFrameOwners` | the same |
| `MemoryProofs!HeapIsTiled` | `HeapSpec => []Tiled` | any number of threads, any size of the heap, of headers, of the smallest block and of pages, any sizes and alignments |
| `MemoryProofs!FreeListIsIntact` | `HeapSpec => []ListIntact` | the same |
| `MemoryProofs!BlocksFit` | `HeapSpec => []BlockFits` | the same |
| `ProcessLifecycleProofs!MemoryOutlivesThreads` | `Spec => []UserMemoryKept` | any number of worker, killing and joining threads |
| `ProcessLifecycleProofs!JoinWaitsForEnd` | `Spec => []JoinMeansEnd` | the same |
| `PreemptionProofs!RegistersAreOwn` | `Spec => []OwnRegisters` | any set of threads, any clock rate and number of ticks |
| `PreemptionProofs!LastFpuThreadIsAlive` | `Spec => []LastFpuThreadAlive` | the same |
| `PreemptionProofs!ReadsAreUntorn` | `Spec => []UntornRead` | the same |
| `PreemptionProofs!TicksAreCounted` | `Spec => []NoTickLost` | the same |
| `NetworkDeviceProofs!CardBuffersHaveOneOwner` | `Spec => []CardOneOwner` | any number of senders and descriptors, any ring that is larger than the pool |
| `NetworkDeviceProofs!InFlightIsKept` | `Spec => []InFlightKept` | the same |
| `NetworkDeviceProofs!HandlerNeverWaits` | `Spec => []NeverWaitsInHandler` | the same |
| `NetworkStackProofs!SocketsAreAlive` | `Spec => []SocketAlive` | any number of threads, sockets (also shared ones), hosts and ports |
| `NetworkStackProofs!AddressesAreUnique` | `Spec => []AddressUnique` | the same |
| `NetworkStackProofs!DatagramsInOrder` | `Spec => []ReceivedInOrder` | the same |

The assumptions are the named `ASSUME`s of the modules, which TLC evaluates in
every run.  The two further hypotheses, on the polling threads and on `kill`, are in
the statements of the theorems, and so is the single reader of the pipe.

*Scheduler, types and locks.*  `TypeOK` alone is not inductive: the cleaner frees
`target[Cleaner]` and `kill()` removes `target[t]`, which must be threads.  `HasTarget` adds
that a thread at a label that uses its target has one.  Three lemmas about
`ArrayList::remove` and the scan of the sleep list give the types of the queues; one
lemma covers everything that ends in a switch.  `LockDiscipline` is inductive together
with the types: a thread changes its label into or out of a locked section only in
the step that takes or releases the lock, and `yield()` switches only when
`readyQueueLock` is free.

*Scheduler, wake-ups.*  The argument is a count.  `Tokens(t)` adds the places of `t` in the
ready queue, in the sleep list and in the join lists of living threads, and the CPU;
`Due(t)` is 2 between the entry into a list and the end of `block()`, and 1 otherwise.
`TokenInv` says that a living thread has exactly what is due and a terminated one no
more than that, `AwakeInv` that a thread outside `block()` is on no list, `JoinInv` that a
joining thread is in the list of its living target.  `TargetInv` and `CleanerInv` are about
whom a call and the cleaner refer to.  The lemmas say what the operations do to the
count: a scan of the sleep list moves as many places into the ready queue as it
takes from the list, whichever positions it chooses; `remove` takes one place away;
`exit()` turns a join list into places of the ready queue.  `NoEarlyReturn` and
`JoinMeansExit` follow from `AwakeInv` and `JoinInv`.  When the kernel halts with an
exception the counts are off for one thread; `HaltInv` says for which.  With two
polling threads, which never leave their own code (`SpinnerInv`), one of them is not
running and its token can only be in the ready queue, so `yield()` finds a thread.

*Scheduler, freeing.*  Without `kill()` a terminated thread is on no list and only has to
leave the CPU (`EndInv`), after which nothing can bring it back; the cleaner's search
of the ready queue and of the sleep list are two steps, but what the first has seen
stays true: what the cleaner frees has left the CPU for good (`FreeInv`).  Nothing of
this depends on the cleaner's queue being in order.  Whatever a torn update leaves in a
slot is a thread that has terminated, or nothing (`CleanerInv`), so the theorem covers
the race; it says nothing about how often a thread is in the queue.  With `kill()` the
theorem is false (run `kill_free`).

*PagingPool.*  `OneOwner` speaks about blocks, the code about bits.  `IInv` connects
them: a slot whose bit is set in `allocatedMap` and not in `writtenMap` belongs to
exactly one thread (`SlotInv`), which therefore is the only one to read or write the
slot; what a thread holds in its locals depends on its label (`LocalInv`); the
places of a block are disjoint (`DisjointInv`) and cover the bitmap (`CoverInv`).
The refinement follows step by step: eight of the actions move a block, all
others stutter.  `SlotOwned` needs the other direction too: every half-open slot has an
owner (`OwnerInv`).  A killed thread keeps its label and its locals, so it stays the owner
of what it has in its hands, and the invariants need no exception for it.

*PipedStream.*  `IInv`: the lock is held by the thread in the section (`LockInv`),
`inPosition` is `Used` bytes behind `outPosition` modulo the size, and -1 when the
buffer is empty (`PositionInv`), the buffer holds `sent` behind `received`
(`ContentInv`), and between copying and moving the thread's copy is right although
the positions do not show it yet (`CopyInv`).  The modular arithmetic is in four
lemmas about the positions (`RoomToWrite`, `WriteAdvances`, `BytesToRead`,
`ReadAdvances`).  For `PeekedOnce`: no byte is sent twice (`SentInv`), no character is
peeked while the reader is inside `read()` or `peek()` (`ReturnInv`), and what has left
the buffer was returned once or is the one byte that is kept (`OnceInv`).

*PageFrames.*  `OneTableUser` is inductive with three additions.  `LockInv`: from `TryLock` to the
release the thread holds the lock bit of its table, and the frame that it found free
is free until it takes it, because counts rise only under that bit and `Free`, which
takes no lock, only lowers them.  `LocalInv`: what the locals of a search hold.
`ApartInv`: a thread has a frame in its page tables, in the run it collects or on the
way, in one place only; without it, freeing one copy would leave another.  The
refinement maps `Owns(t)`, the union of the three, to what a thread owns; only `Take`,
`Free`, `Drop` and `DropFrame` change it, all other steps stutter.

*FreeListHeap.*  The properties walk along the list; a walk is a recursive function, and
nothing about it can be shown by the prover's induction rules.  The invariant
`HeapInv` therefore describes the list by the order of addresses (`ListOf`): `first` is
the least chunk, and a chunk points to the least one behind it and to the greatest
in front of it.  `ListReached` shows once that the walk reaches exactly these chunks;
where an induction would be needed, the lemma `Smallest` (a set of numbers has a
smallest one) gives the first place where the walk goes wrong.  `Sound` adds that
the headers of chunks and blocks, with their sizes, partition the heap (`Tiling`), and
`Separated` that no two chunks touch.  Both are about a list, its chunks and the
blocks around them as parameters, not about the state, because most of the
operators run on intermediate lists: `Cut` leaves two chunks that touch, a freed block
is inserted before it is merged, and `reallocateMemory()` makes a block out of the end
of another one.  For each operator a lemma says which chunks and blocks result
(`UnlinkSound`, `InsertSound`, `CutSound`, `AbsorbedSound`, `MergedSound`, `FreedSound`, `TakenSound`,
`ExtendedSound`), on top of two lemmas on numbers: a header is split in two, and two
become one (`SplitTiling`, `JoinTiling`).  `Apart` names the at most two chunks that may
touch for the moment.  Sizes need care: between `Shrink` and `ShrinkEnd` the header of a
block still has the old size while its end is already free, so the tiling takes the
size of a block from the call that shrinks it (`SizeOf`), and `Held` says that the call
owns the block, so that nobody frees or resizes it meanwhile.  `PlaceFits` shows that the
aligned place that `allocAlgorithm()` computes is inside the chunk and leaves room for
a header in front.  TLC checked `HeapInv` on the instance of run `heap` before it was
proved.

*ProcessLifecycle.*  The crux is `AloneInv`: once a cleaner has found itself alone, no
user thread and no loader becomes ready again, except as `revived`.  Only a ready thread of the process
starts others, so this is stable; it needs that a cleaner runs only after it was
started by its terminator (`CleanerInv`), that kills are aimed at started threads
(`TodoInv`), and that the main thread is started once, by a loader which whoever
ends the process has killed first (`MainInv`, `LoaderInv`).  The last two give
`JoinMeansEnd`: no main thread appears after the end.  `QueueInv` bounds how often the
process is handed over by the number of cleaners that did so.  `ListInv` says who can be
in a join list: a thread of the user that waits there, or one that has terminated since.
`exit()` and `kill()` therefore wake only threads that run anyway, or set `revived`.

*Preemption.*  `FpuInv`: the registers hold what `lastFpuThread` left, the saved context of
every other thread what that one left, and while the monitor is disarmed the
running thread is `lastFpuThread`, or is about to end, or nothing has been switched
yet.  The reuse of addresses is harmless because `exit()` and `kill()` reset
`lastFpuThread` before the deletion.  All of it holds until a killed thread is made ready
again, which is the hypothesis of `FpuInv` and of the two theorems; the clock does not
need it.
`ReaderInv`: `readerCount` is at least the number of threads inside `getTime()` (killed ones
leave it too large), so that the clock stands still while one of them has copied
half of the time.  The carry of a tick is in two lemmas on division (`DivMod`,
`PlusCounts`).

*NetworkDevice.*  `length` is not the number of elements of a queue, since updates of it
get lost.  The invariants therefore speak of the true number, which `head` and `tail`
determine modulo the capacity, and bound `length` by it (`OutInv`, `InInv`): the handler's lost decrement makes the outgoing queue look longer, never
shorter, and its lost increment makes the incoming one look shorter, never longer.
That the pool is smaller than the ring keeps the incoming elements below the
capacity, whatever `length` says.  The outgoing queue holds n buffers that are sent,
then those of the card, then that of the sender; the frees that are postponed or
pending are at most n, which gives `InFlightKept` and `NeverWaitsInHandler`.

*NetworkStack.*  A socket that its thread is about to delete is in no list and nobody
else is using it (`ListInv`), and the reader keeps its list of receivers only under the
lock.  The order of datagrams is a chain of three places: what the socket has handed
out, its queue, and the packet in the reader's hands, each numbered behind the one
before (`SocketInv`, `ReaderInv`).

Only model-checked:

- `SoundUnlessTorn` of `liveness`, the soundness of the cleaner's ring buffer while no
  termination hits one of its updates;
- the liveness properties of `liveness`, `pool`, `pipe`, `process` and `stack`: fairness and
  `ENABLED` are beyond the prover;
- `HeaderKept` of `FreeListHeap` is false (run `unmap`);
- `NoUseAfterFree` with `kill` and `PeekedOnce` with several readers are false.

## 5. Behaviours seen while modelling

Each of these behaviours is in the model of the part it is listed under, where the
properties that would otherwise fail name the states it leads to; what a model does not
contain is said so.  The killed thread that stays in a join list is in `Scheduler`,
`ProcessLifecycle` and `LazyFpu`, the kill inside a call also in `PagingPool` and
`Preemption`; the other models have no `kill()`.

*Scheduler.*  A timer tick between `sleepList.add()` and `block()` can make `block()` return
with `readyQueueLock` held (Scheduler.cpp:247), or make `yield()` switch a thread to
the stack pointer of an earlier switch (:199).  `kill()` waits for `sleepQueueLock` under
`readyQueueLock` (:156), and the ready queue grows, which takes the heap's lock, under
the same lock (:292); if the holder was preempted, nothing runs again.  A `kill()` that
finds the cleaner's queue full, or no join list, throws after it has removed the
victim from the sleep list.  `join()` of a
thread that has just ended leaves `joinLock` taken (:275).  A killed thread stays in the
join list it waits in (run `kill_free`), and the end of the thread it waits for makes it
ready again (:129-131, :162-164); it may be freed by then.  A termination that hits the
cleaner inside `poll()` or `add()` of its queue loses a thread or lets it free one twice
(SchedulerCleaner.cpp:67, 71).  With no other ready thread `yield()` waits in `poll()`
under `readyQueueLock` for ever (Scheduler.cpp:185).

*FPU.*  A killed thread that is made ready again computes with registers that it did not
leave, and as `lastFpuThread` it may be deleted; the next trap then writes 512 bytes into
freed memory.

*Processes.*  Killing a process whose main thread joins a worker kills the main thread
first; killing the worker makes it ready again, while its memory is unmapped.
`Process::join()` returns at once, with `joinLock` taken, when the main thread is set but
not yet ready.  `killProcess()` and `exitCurrentProcess()` at the same time kill a thread
twice or start two cleaners, each of which waits to be alone.  The address space
cleaner's own `exit()` uses the process that it has handed to the scheduler cleaner.

*Memory.*  `pop()` throws although the pool is not empty when its scan is overtaken
(Pool.h:75).  The refill thread needs a page table for its own page fault; with an
empty pool that is the end of the kernel.  A thread killed inside `pop()` keeps its slot.
`freePageTable()` does not return the frame (MemoryService.cpp:222-230).  `map()` maps frame 0 when memory is exhausted (MemoryService.cpp:235).
A run of frames that `mapIO()` gives up and that starts in a slab pool is returned to
the pool as a whole; its frames behind the pool are lost.  The six slab pools of 1 MiB each reach past the 128 KiB that `MAX_SLAB_SIZE` allocates for
them, so a frame can have a user from the tables and one from a pool.  `reallocateMemory()` does not expect an empty free list
(FreeListMemoryManager.cpp:310).  `freeAlgorithm()` unmaps a page too many
(run `unmap`).

*Pipes.*  `peekedCharacter` is read and written without the lock: of two readers that
peek at the same time, one overwrites the byte of the other (PipedInputStream.cpp:59).

*Clock.*  A thread that is killed inside `getTime()` leaves `readerCount` raised and the
clock stands still; no interval is lost, but none is added.

*Network.*  Completions that one interrupt reports together free one buffer, so memory
leaks; enough such buffers fill the outgoing queue, and `sendPacket()` waits for ever
with `outgoingPacketLock` (NetworkDevice.cpp:81-82).  With `Loopback`, `length++` of a
preempted sender undoes `length--` of the reader, which then frees a buffer twice
(Loopback.cpp:29-34, ArrayBlockingQueue.h:102, 115).  `RECEIVE_OK` is cleared after the last look at the receive buffer
(Rtl8139.cpp:123).  The packet reader waits for the ARP reply to its own echo reply,
which it cannot read meanwhile; after the retries an exception halts the kernel
(Ip4Module.cpp:103).  Two threads that share a socket may wait with its lock
(DatagramSocket.cpp:58).  The test for the any-address of a registered socket in
`registerSocket()` never holds (UdpModule.cpp:57), and `generatePort()` throws with the
list's lock taken (:177).  `removeEntry()` releases a lock that it has not acquired
(ArpModule.cpp:133).

## 6. Not modelled

Most of the repository's lines are outside what a model of this kind is about:
bitmap fonts and image decoders, vendored libraries (among them that of FAT), games and applications, and drivers of storage, graphics, sound,
input, PCI and ACPI, which are register I/O whose other half is the hardware.  The
file system drivers are sequential readers of on-disk formats; paths, nodes and
mount points are strings and trees.  The share of the source that the map covers
stays small for this reason.

Of the modelled parts, these are left out: in the scheduler, `unblock()` and
`removeFromJoinMap()`, which nothing calls, and operations that only read; of processes, the parsing of binaries; of the timers, the programming of the
chips and the APIC timer's own clock; of the page frame allocator, the boot code
that reserves memory (its result is the initial state), allocation at a given
address, which only that code uses, and `mapIO()` of a physical address that the caller
names, which takes no frame; of virtual memory, the walk over page tables;
of the heap, requests that fail and `realloc` to the same size or to zero; of pipes,
`connect()`; of the network, packet formats, checksums, routing, `Ne2000`, raw ICMP and
IPv4 sockets.  Interrupt and system call dispatch are table lookups.  Several CPUs
are not considered: the scheduler runs threads on one.
