# A verification project for ssm-runtime

`ssm-runtime` is the C runtime of the Sparse Synchronous Model: programs are
routines that run in logical instants, wait for scheduled variables, and assign
them now or at a later time. This directory holds TLA+ models of it, TLC runs
over small instances, and theorems checked by TLAPS. Paths are relative to the
repository (`src/src/ssm-scheduler.c` is the scheduler).

Tools: in this directory, `tlc -config X.cfg M` runs a model and `tlapm M.tla`
checks the proofs of a module. `PROJECT.json` lists the runs, what every
definition translates, the hazards, and for every property a mutation of the
model (an operator commented "Mutant") that breaks it.

## 1. The system

| component | state | operations | talks to |
|---|---|---|---|
| **event queue** (`ssm-scheduler.c`) | `event_queue[]`, `event_queue_len`, `later_time` of each variable, `now` | `ssm_sv_later_unsafe`, `ssm_unschedule`, `ssm_set_now`, `ssm_reset`, update loop of `ssm_tick`, `ssm_update` | called by routines, by the platform, and by `ssm_drop_final`; calls `ssm_drop` half way through two of its functions |
| **activation queue** (`ssm-scheduler.c`) | `act_queue[]`, `act_queue_len`, `priority` and `scheduled` of each record | `ssm_activate`, run loop of `ssm_tick`, `ssm_reset` | called by variables that wake records; calls step functions, which call it back |
| **routines and the tick** (`ssm-scheduler.c`, `ssm-top-act.c`, `ssm.h`) | activation records (`caller`, `children`, `pc`, `priority`, `depth`), `last_updated` | `ssm_enter`, `ssm_leave`, `ssm_sv_assign_unsafe`, `ssm_tick` | user code between the calls |
| **trigger lists** (`ssm.h`, `ssm-scheduler.c`) | a doubly linked list of `ssm_trigger_t` per variable | `ssm_sv_sensitize`, `ssm_sv_desensitize` | walked by assignment and update |
| **memory pools** (`ssm-mem.c`) | a free list per block size, pages from the platform | `ssm_mem_init`, `ssm_mem_alloc`, `ssm_mem_free`, `ssm_mem_prealloc` | every object and record |
| **reference counts** (`ssm.h`, `ssm-mem.c`) | `mm.ref_count`, `mm.kind`, payload | `ssm_new_*`, `ssm_dup`, `ssm_drop`, `ssm_drop_final` | the pools, and `ssm_unschedule` |
| **closures** (`ssm-closure.c`, `ssm.h`) | argument vector with count and capacity | push, apply, clone, reduce (auto and not) | reference counts, activation |
| **POSIX platform** | input ring buffer, its lock, the pipe used as a semaphore | the main loop, the stdin thread, the stdout routine | `ssm_tick`, `ssm_set_now`, `ssm_sv_later_unsafe` |
| **Zephyr platform and timer** | input ring buffer written in interrupts, a semaphore, one alarm, a 32-bit counter with an overflow count | the tick loop, `ssm_insert_input`, `ssm_timer_*` | as POSIX |
| **simulation platform** | none of its own | start, tick until no event is left | `ssm_tick` |
| **throw handlers** | none | print and exit | every `SSM_THROW` |

Not components of their own: packing of values and the accessors of ADTs, arrays
and blobs (pointer arithmetic on caller-owned layouts), statistics and tracing,
board glue, examples, documentation, build files.

What is hard, and what makes each part correct:

- *Event queue.* `ssm_tick` updates the head, lets `ssm_update` drop the old
  value, and then removes "the head"; `ssm_sv_later_unsafe` drops the value it
  replaces while the heap is inconsistent. A drop can run a whole
  `ssm_unschedule` at those points. Correct means: `later_time` says who is in
  the queue; the array is a heap whenever the code relies on it; no event is
  passed over or delivered twice; every loop ends.
- *Activation queue.* Step functions activate records while the loop that runs
  them is under way. Correct means: the flag says who is queued, nobody is queued
  twice, the least priority runs first.
- *Routines.* A parent forks children with shares of its own priority range; the
  last child to leave calls its parent's step function; an assignment wakes only
  records after the writer. Correct means: the order is total, control only moves
  forward in it, every wake-up that is due happens and no other, and no freed
  record is reachable. `ssm_leave` checks none of this: it follows from the
  discipline of priorities.
- *Trigger lists.* A trigger is taken out through the address of the pointer to
  it, which lies in a variable or in another routine's record. Correct means:
  that address is never stale, whatever records are freed and used again, and a
  walk finds every trigger of its variable and no other.
- *Memory and reference counts.* Zero words in a fresh page stand for links; a
  count of 8 bits is never checked; what is freed must be what was allocated, in
  the same pool. Each function moves, shares or takes over references by rules
  that are only in its comments; a closure's arguments go either way.
- *Platforms.* A thread or interrupt stamps inputs and publishes them while the
  loop compares times it read before; it must not tick past an input, lose a
  wake-up, or stop early. On Zephyr the time is put together from three reads,
  and the alarm compares with its lower half.
- *Example programs.* They are what the runtime's rules are for: the same rules
  must be enough for them to compute what they should, at the right logical time,
  in whatever order the events of an instant are taken, and leave nothing behind.

`PROJECT.json` lists every hazard at its line, with the properties that cover it,
or why none does.

## 2. The modules

| module | models | level |
|---|---|---|
| `BinaryHeap` | the tests of the percolate loops and the loop invariants; shared by both queues | operators |
| `EventQueue` | the event queue and the time | one step per loop iteration; calls interleave where `ssm_drop` runs |
| `EventSet` | what the event queue promises: a set of pending times | abstract |
| `ActQueue` | the activation queue and the run loop | one step per loop iteration |
| `ActSet` | what the activation queue promises: a set from which a least record runs | abstract |
| `Scheduler` | records, forks, priorities, triggers, assignment, instants, of any program; both queues are sets | one step per call of the runtime |
| `TriggerList` | the doubly linked lists and the walk of an assignment or update | one step per call, and per trigger visited |
| `TriggerSet` | what the lists promise: a set per variable, each member activated once | abstract |
| `MemPools` | the pools, their free lists and pages | one step per call |
| `Allocator` | what the pools promise: disjoint ranges of memory | abstract |
| `Objects` | values, objects, reference counts, the parts of drop, assignment and update, closures | operators on a memory |
| `RefCount` | any program that follows the ownership rules | one step per call of the runtime, and per value that a call drops |
| `Collector` | what reference counting promises: what is out of reach is gone, nothing else is | abstract |
| `AtomicDrop` | drop, assignment and update whole, for the example programs | operators on a memory |
| `Machine` | records, forks, wake-ups and time on top of `AtomicDrop` | operators on a machine |
| `Fib`, `OneTwo`, `Clock`, `Hello`, `List`, `MapClosure`, `Closures`, `Counter`, `Echo` with `StdoutHandler`, `Blink` | the programs of `src/examples`, step function by step function | operators on a machine |
| `Examples` | those programs under the loop of their platform, updates in any order | one step per update and per step function |
| `PosixPlatform` | the POSIX main loop and the stdin thread; of the program only its next event | one step per access to what they share |
| `ZephyrTimer` | the counter, its overflow count, its interrupts, the alarm | one step per read |
| `ZephyrPlatform` | the tick loop against the interrupts that insert inputs; extends `ZephyrTimer` | one step per access to what they share |
| `MC...` | symmetry sets, sizes and inputs for TLC | |
| `...Proofs`, `Lemmas` | theorems; what several of them use. `MemoryProofs` is about `MemPools` and `RefCount` | |

**EventQueue.** `event_queue`, `event_queue_len`, `later_time` and `now` are the
C variables; slot 0 of the array is unused in C and left out. `pc` says where the
code is: between calls (`idle`), in one of the two `ssm_drop` calls (`dropping`,
`updating`), at the head of `ssm_tick`'s loop (`ticking`), or in a percolate loop
(`up`, `down`), whose locals are `hole` and `var` and whose return address is
`ret`. `target` is the variable being rescheduled or updated. Every throw is an
action that sets `error`, after which nothing happens; where the code changes
state before it notices (`LaterExhausted`), so does the action. `DropFinal` is
`ssm_drop_final` of a variable that the dropped value owned. It never concerns
`target`: in `ssm_sv_later_unsafe` the caller holds a reference to it, and in
`ssm_update` it would take a value that refers back to its variable, which
`RefCount` treats (`Cycles`).

What callers do is a parameter. `MinDelay` is 1 when they schedule strictly ahead
and 0 when they may schedule for the current instant; `MaxWhen` is the last time
they ask for, and `Never` (`SSM_NEVER`) is a value like any other for the code;
`DropInLater` says whether a replaced value may own a pending variable;
`ResetPending` whether `ssm_reset` may find events pending.

**ActQueue** is built the same way. `Enter` models a record used again with
another priority. Priorities may tie here, as nothing in the heap rules it out.
To `ActSet` a record is a member from the start of the percolation that places it,
although its flag is set only at the end.

**Scheduler.** A step function is arbitrary user code; the examples under
`src/examples` and the calling convention of `ssm.h` decide what it may do: it
sensitizes and desensitizes, assigns, schedules, and in the end sleeps, forks or
leaves. It leaves with no trigger in a list, it does not wait for variables and
children at once, and forking is the last thing it does. `Share` and `Bits` are
the formulas the step functions use to divide their priority range (`pinc` and
`new_depth` in `fib.c`). `Recycle` stands for dropping a variable and allocating
another. `stepped` and `wrote` record history for the properties and guard
nothing.

**TriggerList.** A cell is a place that holds a pointer to a trigger: the
`triggers` field of a variable or the `next` field of a trigger. `prev_ptr` of a
trigger is the cell that points to it. `Sensitize` and `Desensitize` write what
the C functions write, the successor's back pointer included; a trigger that is
taken out keeps its own pointers, and `Reused` lets the memory of any trigger
outside the lists become anything, as `ssm_leave` frees the record it lies in.
That a routine desensitizes before it sensitizes again is the rule the programs
follow (`MayWait`). `Walk`, `Visit` and `WalkEnds` are the loop of
`ssm_sv_assign_unsafe` and of `ssm_update`. `on` and `activated` are history.

**MemPools.** Memory is counted in units of `SSM_MEM_POOL_MIN` bytes, and of each
unit only the first word is kept, `next`: the link of a free block, zero in a
fresh page, and `Data` wherever an owner has written. `ssm_mem_alloc` is split by
its branches (`AllocFromList`, `AllocFromNewPage`, `AllocLarge`, `OutOfPages`),
`ssm_mem_free` into `FreeToList` and `FreeLarge`; owners free what they hold, with
the size `FreeSize` of its kind, where `AllocSize` is what it was allocated with. The
two may differ as long as an object is not freed with a larger size, and `free_mem`
gets what `alloc_mem` gave (`MemPoolsAssumption`). `alloc_mem` may return any range
that is not in use; ranges are `LargeSize` apart. `page_pool` records for the properties which pool took a page. The same
allocation handlers serve every platform; that `alloc_page` may fail is taken from
the POSIX one. The pools have no callbacks and one thread, so a call is one step.

**Objects** gives the functions of `ssm.h` and `ssm-mem.c` as operators from a
memory to a memory. A value is a number of `WordBits - 1` bits or an address. An
address is the least one that is free, so that memory is used again as soon as
possible and a reference that dangles finds another object. Counts have `CountBits`
bits. `m.fault` is set when memory that has been freed is read, counted, written or
freed. `ssm_drop` is given by its parts: `Release` and `Dies` are the decrement and
its test, `Unschedule`, `Payload` and `Free` what `ssm_drop_final` does, `later_time`
cleared before it is looked at as in the code. **AtomicDrop** puts them together by
recursion, as one step. **RefCount** puts them together step by step: `frames` is the
stack of calls of `ssm_drop_final`, each with the object it is for and the index of
its loop, and `DropNext` is one iteration, or the final `ssm_mem_free`; `call` is the
`ssm_assign`, `ssm_later` or `ssm_update` that waits for its drop to return, and writes
in `Finish`. RefCount is any
program over these that follows the ownership rules in the comments of `ssm.h`: it
drops only what it holds, hands what it holds to constructors and closures, and
may assign what it has only borrowed (`Borrowed`), as in `q <- deref d`. With
`Cycles = FALSE` it gives no variable a value from which a way leads back to the
variable (`Avoids`). `held`
counts the references of routines, `lost` those which a freed variable had in its
pending value. `seen` is what could be seen when last no call was running: the
promise of `Collector` is about that.

**Machine** adds activation records with their locals, the queue of activated
records, the trigger sets, global variables, output and time. Queues and lists are
sets, which is what `EventQueue`, `ActQueue` and `TriggerList` are shown to
implement. Each **program module** translates the step functions of one file, a
disjunct of a CASE per value of the program counter, and takes over its order of
dups, drops, forks and priorities. `Closures` has both builds of its file.
`Blink` is the code a compiler generated, with its inlined closure calls.
**Examples** chooses a program, its argument, its input and the simulation's
limit, and runs it; the order of updates in an instant is free, as the event queue
does not fix it for equal times. Printing is a sequence, `m.out`.

**PosixPlatform.** `main` and `thread` say where the two threads are. A step is
one access to the clock, the indices, the lock or the pipe: `ReadTimes`, `Poll`,
`ConsumeInput`, `Release`, `TickForInput` or `TickForEvent`, or else `Sleep` with
`Woken`, `FdSemRead` and `TimesOut`, or `Break`, against `GetChar`,
`LockAndStamp`, `Publish`, `Signal`. `r`, `w`, `wall_time` and `next_time` are the
main loop's copies, stale as in the code. The indices are atomics that never
wrap (`size_t`). The thread's test for room uses a read head that may move before
it writes; it can only move in its favour, and the write head is its own, so the
test and the read are one step. `rb` is a packet per slot: which input it is, for
the properties, and its time; scaling by 1 changes nothing. The program is reduced
to `event_time`: an instant leaves any later time or none. Two readings of
the clock may be equal. As `in_fds` is not cleared, pselect may always return for
another file (`Woken`).

**ZephyrTimer and ZephyrPlatform.** `time` is the time as a wider counter would
have it; the hardware has `time % Range`, and `overflow` is the interrupt that
adds to `hi`. A reading is three steps (`hi0`, `lo`, `hi1`), each followed by
anything, and `Calc` is the code's choice between the two counts. `alarm` is what
the channel compares the counter with, `expired` its pending interrupt. `TooLate`
is the driver's guard period of half a range. In `ZephyrPlatform` the handlers are
interrupts: while one is under way the thread does not run (`MainStep`), and the
counter's interrupt stops everything (`~overflow` in both kinds of step). That the
handlers' own interrupts do not nest, and that the counter's is served before the
next wrap, is the configuration the code relies on without saying so; with nesting
(`AnyIdle`) TLC finds an input lost. A reader's reads are less than half a range
of the counter apart (`Reading`) and the thread decides on a time before half a
range has gone by (`Deciding`): with the shipped counter these are minutes. The
program is reduced to `event_time`, as for POSIX.

A throw ends the program, so Scheduler leaves the full queues and the times in
the past to the queue modules.

## 3. The runs

| run | question | result |
|---|---|---|
| `EventQueueHeap` | are heap, times and update loop sound through every interleaving of drops, if callers schedule strictly ahead? | yes |
| `EventQueueImplements` | does the heap implement `EventSet`, with every throw, and does every call end? | yes |
| `EventQueueLaterDrop` | is the heap in order after `ssm_sv_later_unsafe` has dropped a value that owned a pending variable? | no |
| `ActQueueHeap` | is the activation queue sound, and does the heap implement `ActSet`, with activation from steps, ties and reuse? | yes |
| `SchedulerTree` | do priorities order the routines, do wake-ups reach exactly whom they should, is nothing freed reachable? | yes |
| `TriggerList` | do the pointers agree, do the lists implement sets, do walks end, whatever becomes of the memory of triggers? | yes |
| `MemPools` | do free lists end, is every block live or free, do the pools implement `Allocator`, if no object is freed with a larger size than it was allocated with? | yes |
| `RefCount` | are counts references, is nothing freed used, do they implement `Collector`, if values do not refer back to their variables? | yes |
| `Examples` | do the programs use nothing that is gone, compute what they should when they should, and leave nothing? | yes |
| `PosixPlatform` | is no input overtaken, overwritten or slept through (`NoInputSleptThrough`), is each consumed without waiting for time to pass, is the thread let go? | yes |
| `ZephyrPlatform` | the same, and: are times exact across a wrap, and is every sleep for an event going to end by then, and with an input in the buffer at once (`SleepsEnd`)? | yes |
| `ZephyrAlarm` | does the tick loop never throw an internal error? | no |

**Properties.** The type invariants hold in all runs but are in no cfg; those of
`EventQueue`, `ActQueue`, `Scheduler`, `TriggerList`, `MemPools` and `RefCount` are theorems, the
others document the types.

**Bounds.** *Heaps.* Six entries are the least number at which the entry that
fills a hole may have to move up: slot 6 is not below the parent of slot 4. With
five, the only hole below the second level that is not the last entry is slot 4,
and slot 5 is its sibling. Times up to `Never = 4` leave three distinct
finite times ahead of `now`, so entries tie and differ at every level of such a
heap; renaming times further apart changes no comparison. The queue of three with
four variables, and that of four with five records, reach the full queue. Indices have
the fewest values for which no slot's left child wraps (`IndexValues`).
*Nested drops* need four entries and five times to spoil the heap
(`EventQueueLaterDrop`). *Scheduler.* Four records with two bits of priority give one family
of up to four, a parent with up to three children, and chains of single children;
records that leave are entered again, so identity and freshness are confused if
they can be. Three instants let an event be scheduled in one, delivered in the
next and its effect seen in a third. All inputs, schedules and forks are
chosen freely by TLC. *TriggerList.* Three triggers let one be taken from the front, the
middle and the end; two lists let them be confused; the priorities are all
different, and every trigger's routine may be the writer. *MemPools.* Pools of
blocks of one and two units and pages
of four give a first, a middle and a last block, and pages with one or two blocks
besides the last; two pages can both be one pool's, or be shared out, and three
live objects and a page in advance exhaust them. There is a kind for each pool, one
that is allocated from the larger and freed into the smaller, and one too large for
both. *RefCount.* Three
objects are a variable, its value, and what that refers to, or a closure, its clone
and an argument; routines hold up to three references, and up to two refer to one
object (`MaxRefs`), which with the one that a call takes for itself is as many as a
count of two bits tells apart. One reference may be lost. Closures take two arguments, so that one is partial, completed
from shared and completed last. *Examples.* Arguments 0 to 5 (`fib` forks six
levels deep), limits of none, 3 and 20 seconds, words of 30 bits, a second of 1000
ticks and a priority of 14 bits, of which the deepest program takes 12: the counts
are those of the code divided so that TLC's integers hold them. Up to three
characters are typed to echo, before, at and after the 501 ticks it is busy.
*PosixPlatform.*
A ring buffer of three holds two packets, so four inputs fill it, make the write
head wrap around the slots and have a slot written twice; a pipe of one byte fills
with the first. Inputs and events of times to 3 tie, precede and follow each
other in every order. *ZephyrPlatform.* A counter of four values wraps at time 4 of
5, with either half of its range on both sides; three inputs through two slots fill
the buffer and wrap its indices. `ZephyrAlarm` has a counter that does not wrap in
its time, so that an alarm can only be late because time has passed. Symmetry is
only used for safety properties, on sets whose members the code never compares.

**Deadlock.** `Examples` and `TriggerList` check it: a program that is not done and
can do nothing is a deadlock there. The others set `CHECK_DEADLOCK FALSE`: a model
that has thrown stops, and so does a program in which nothing is pending and
nothing queued, or a model whose bounds are used up.

**Fairness.** `EventQueue!FairSpec` has weak fairness of the steps the code takes
by itself (`Internal`): the runtime has one thread, and nothing else runs until
the call returns. Nothing is assumed of callers. `TriggerList!FairSpec` is the same
for the walk. `PosixPlatform!FairSpec` has weak fairness of the main loop and of
the stdin thread once it has a character, as the operating system schedules both;
`ZephyrPlatform!FairSpec` of the interrupts that are pending and of the thread.
Nobody has to type, no interrupt has to come, and time may stand still: it is
inputs that end sleeps and not the bound on time. `HandlerReturns` is about a
sleeping main loop: a program that is always late never sleeps, and then a full
pipe does hold the thread. There is no liveness property of Scheduler: routines may
fork and leave for ever within an instant, and nothing in the runtime prevents it.

## 4. What the runs and the reading found

With a run:

1. *A drop inside `ssm_sv_later_unsafe` spoils the heap* (`EventQueueLaterDrop`).
   Line 335 gives the variable its new time, line 338 drops the old value, line
   341 repositions it. If the drop frees another pending variable, its removal
   percolates through an array with an entry out of place, and repositioning that
   one entry does not repair what follows from that. The heap then fails the
   assertion of `event_queue_consistency_check` (line 227), which is compiled out
   of ordinary builds.
2. *An alarm that comes too late is thrown* (`ZephyrAlarm`). The loop reads the
   clock (`zephyr-tick.c:129`), finds the next event ahead of it, and sets an
   absolute alarm (line 166). If the counter has reached the event by then, the
   driver answers `-ETIME`, and the loop throws `SSM_INTERNAL_ERROR`. So does an
   event that is more than half of the counter's range ahead, which the guard period
   cannot tell from one that is past.

What the models have and no run asks; each is a step that TLC takes:

3. *The test that "later must be in the future" accepts the present*
   (`ssm-scheduler.c:319`). An event scheduled for now during a tick's run
   loop outlives that tick, and the next one throws (`MinDelay = 0`). The POSIX loop
   relies on the test for inputs and is exposed to it in turn: where readings of the
   clock may be equal, a second input can carry the time that the first has just been
   processed at; it is accepted, and `ssm_tick` throws (`SsmTick` in PosixPlatform).
4. *A routine may run twice in an instant*, when its last child leaves in the
   instant it was forked in (`ssm_leave`, line 295). `doc/act.md:7` says that each
   coroutine executes at most once. What does hold is `RunsInOrder`.
5. *Times change pools*: `ssm_new_time_int` (`ssm-mem.c:267`)
   allocates the size of a `struct ssm_sv`, `ssm_drop_final` (line 329) frees that
   of a `struct ssm_time`. Every time that comes and goes takes a block of 64 bytes
   from its pool for good and gives the pool of 16 a block whose other 48 bytes
   nobody uses. `ssm_mem_free` asks for the size that was allocated. The blocks
   stay disjoint and are not lost to all pools: `MemPools` has such a kind, and its
   properties hold with it.
6. *`later_value` is never dropped*: `ssm_drop_final` tests `later_time` for a
   pending value (`ssm-mem.c:340`) after `ssm_unschedule` has cleared it. `RefCount`
   counts these as `lost`, and its properties hold with them.
7. *Cycles.* A variable whose value refers to it is never freed, as with any
   counting; and if the event queue updates it when its value is the last reference,
   `ssm_update` drops that value, which frees the variable, and writes to it
   (`ssm-scheduler.c:417`). With `Cycles = TRUE` TLC finds `NoFreedMemoryUsed`
   violated.
8. *Counts wrap.* Without the conjunct of `RefCountAssumption` that keeps `MaxRefs`
   below it, and with as many references as the count has values (`MaxRefs = 4`,
   `CountBits = 2`; 256 in the code), TLC finds `CountsAreReferences` violated.
9. *A POSIX program that waits for input ends*: the main loop breaks when
   nothing is scheduled and `ssm_active()` is false (`posix-main.c:153`), and it
   always is after a tick. The branch that sleeps until an input comes is never
   taken. On Zephyr the loop sleeps for ever there (`zephyr-tick.c:155`).
10. *`in_fds` is not initialised* (`posix-main.c:151`): `FD_ZERO` is missing, so
   pselect may watch other files as well; when one of them wakes it, `fd_sem_read`
   blocks on an empty pipe, past the next event.

What the models have and the passing runs exclude: `ssm_reset` empties the queues
and leaves `later_time` and `scheduled` of their members as they are
(`ResetPending`, `ResetQueued`); its one caller, `test-scheduler.c`, drops the
variables first. `SSM_NEVER` can be scheduled (`MaxWhen = Never`): the variable is
queued and does not count as pending. With these parameters the other way round,
TLC finds `QueuedIffPending` and `ScheduledIffQueued` violated, against the
invariants at `ssm.h:585` and `ssm.h:132`.

Of the programs: `hello`'s main leaves its variable behind; `putc` in `blink1.c`
gives away one reference more than it has to drop, once per call; the unoptimised
`closures.c` drops `b` twice, which is harmless as `b` is a number; `fib.c:139`
takes bits from an unsigned depth without a check, so that an argument of 17 or more
makes children share priorities; the comments at `list.c:26` and
`map-closure.c:31` give results of other programs.

Also seen while reading: inputs with equal times for the same
variable replace each other, only the last is seen; the comment at
`ssm-internal.h:126` names
`SSM_INTERNAL_ERROR` where `ssm_tick` throws `SSM_NOT_READY`; `SSM_MEM_POOL_SIZE` does
not parenthesise its argument (`ssm-internal.h:227`), which makes
`SSM_MEM_POOL_MAX` too large, but only comments use it.

## 5. What is proved

For any set of variables (records, triggers, handlers), any size of a queue or buffer,
any range of times or priorities and any number of inputs:

| theorem | states |
|---|---|
| `EventQueueProofs!TypeCorrect`, `PendingQueuedOnce`, `HeapOrderKept`, `NoEventPassed`, `PopsWhatItUpdated` | types, and the invariants of `EventQueueHeap`, for callers that are `Disciplined` |
| `EventQueueProofs!TickLeavesNothingDue`, `NeverFaults` | the two that also need `MinDelay >= 1` |
| `EventQueueProofs!Implementation` | `Spec` implements `EventSet!Spec` (`ImplementsEventSet`), for callers that are `Disciplined` |
| `ActQueueProofs!TypeCorrect`, `QueuedOnce`, `HeapOrderKept`, `PriorityOrder` | the invariants of `ActQueueHeap`, when `ssm_reset` finds the queue empty |
| `ActQueueProofs!Implementation` | `Spec` implements `ActSet!Spec` (`ImplementsActSet`), likewise |
| `SchedulerProofs!TypeCorrect`, `FreedIsUnreachable`, `ParentsResumeLast` | types, `NothingFreedIsReachable`, `ParentsWait`: for any records, variables and depth, and any routines that keep to the calling convention |
| `SchedulerProofs!PrioritiesDiffer`, `ControlGoesForward` | `NoTies`, `RunsInOrder`, likewise |
| `SchedulerProofs!WakeupsHappen`, `WakeupsHaveCauses` | `NoLostWakeup`, `NoSpuriousWakeup`, likewise |
| `TriggerListProofs!TypeCorrect`, `PointersAgree`, `NoneElseActivated` | the pointers of the lists, without any assumption on callers but `MayWait` |
| `TriggerListProofs!Implementation` | `Spec` implements `TriggerSet!Spec` |
| `MemoryProofs!TypeCorrect`, `BlocksLiveOrFree` | types, and `EveryBlockLiveOrFree`, for any kinds, pools and pages that satisfy `MemPoolsAssumption` |
| `MemoryProofs!Implementation` | `Spec` implements `Allocator!Spec` (`ImplementsAllocator`), likewise |
| `MemoryProofs!RefTypeCorrect`, `Counted`, `FreedMemory` | types, `CountsAreReferences`, `NoFreedMemoryUsed` of `RefCount`, if no value refers back to its variable (`~Cycles`) |
| `MemoryProofs!RefImplementation` | `RefSpec` implements `Collector!Spec` (`ImplementsCollector`), likewise |
| `ZephyrProofs!TimesAreExact` | `TimesExact`, which includes any width of the counter |
| `ZephyrProofs!CallbackIsThere`, `NoSleepIsTooLong` | `AlarmHasCallback`, `SleepsEnd`, likewise |
| `ZephyrProofs!InputsArriveInOrder`, `NoInputIsPast` | `InputsInOrder`, `InputsNotPast`, likewise |
| `PosixProofs!InputsArriveInOrder`, `NoInputIsPast`, `InputsWakeTheLoop` | `InputsInOrder`, `InputsNotPast`, `NoInputSleptThrough` of the POSIX platform |
| `EventQueueProofs!CallsGetOn`, `ActQueueProofs!PercolationsGetOn`, `TriggerListProofs!WalksSeeOnce`, `MemoryProofs!DropsGetOn` | every step of a loop brings its end nearer; under the assumptions of the module's other theorems |

`Disciplined` is what section 4 shows to be needed: no dropped later value owns a pending variable, `ssm_reset` finds no
event, nobody schedules for `SSM_NEVER`.

*The argument for the heaps.* `HeapOrderedBetweenCalls` is silent about the states inside a
loop, so it is not inductive. `IInv` adds, for each place the code can be in,
what the array looks like with the percolated entry imagined in the hole
(`Queue`): in `percolate_up` only the edge above the hole may be out of order
(`UpReady`), in `percolate_down` only those below it (`DownReady`), and where a
hole has been opened and no entry chosen, either (`HoleReady`); in all three the
hole's children are not before its parent, which is what makes moving an entry
across the hole harmless. `Lemmas` proves once for both queues that the
tests choose the right direction (`HoleFills`), that an iteration keeps the
condition (`UpStep`, `DownStep`), and that the loop's exit gives a heap (`UpDone`,
`DownDone`); `HeadIsLeast` needs an induction on slots, done as a least
counterexample (`NatMin`). `Members` says that the imagined array holds the
pending variables, each once: iterations permute it. `Updating` carries
`HeadIsTarget` through the percolations of a nested `ssm_unschedule`: the head is
due now and nothing is earlier, so whatever moves, moves below the root. `Quiet`
is the invariant behind the two theorems for `MinDelay >= 1`. Then there is a
lemma for each action, and `StepKeeps` combines them.

*The heap as a set.* With `IInv` the step simulation is short. A percolation is a
stutter of `EventSet`, whose phase is that of the function the percolation returns
to. The mapping of the other steps needs three facts: the length of the queue is the
number of pending variables (`LengthCounts`, as `Members` is a bijection), so both
are full at the same time; the head has the least pending time (`HeadTime`), so
the prologue of `ssm_tick` goes where the set allows and its loop ends only when
nothing is due; and the test for stale events never throws. `ActQueue` implements
`ActSet` along the same lines: `LengthCounts` again relates lengths, the head is a
record of least priority (`HeadRunsFirst`), and an empty array means an empty set, so
the run loop ends only when no activated record is left.

*The argument for the tree.* `NoTies` and `RunsInOrder` speak of numbers, and hold because
of the tree that the numbers encode. A record owns the priorities from its own up to
`End`. The invariant says that a record's range lies in its caller's (`Inside`), and
that two records of which neither is above the other have disjoint ranges (`Nested`),
so a tie is between a record and its ancestor; and that only leaves of the tree are
queued, run or wait (`Leaves`), which rules that out. A fork keeps this by `Shares`:
the children's shares follow each other and fit into the parent's range, as
`Bits` finds no more bits than the parent has (`EnoughBits`) and powers of two multiply
(`PowersMultiply`). What is above a record is the least set closed under `caller`
(`Above`), not a path, so that its lemmas need no induction: a closed set that could
hold it does. The powers are a recursive function, and what holds of them is proved
by a least counterexample. A leaf that leaves changes nobody's ancestors (`AboveKept`).
`NoneAhead`, that nothing has run that comes after the running record, makes `RunsInOrder`
inductive: whom an assignment wakes, and whom a fork queues, comes after
the running record, hence after everything that has run; the parent that the last child's
return resumes comes before all of its range, and is allowed as an ancestor. That it
was its last child, and that the parent was not queued, is `ParentsWait`, for which `Tree`
has the counts equal to the numbers of children. `Woken` is `NoLostWakeup` in every
phase; the event updates of a tick are done before anything has run, which is why it
survives them.

*The argument for the lists.* That each trigger is pointed to by the cell it names
is inductive by itself, but does not say that a list ends or that a walk misses
nobody: two triggers pointing at each other satisfy it. The invariant adds that the
lists are acyclic, as a rank for every trigger that grows along `next`
(`Acyclic`): a new trigger is put before all others, and the ranks that exist move
up. For the walk it adds `SeenFirst`, that whatever is sensitized to the variable
and after the writer, and has not been activated, is not before where the walk is.
When the walk is at the end, a trigger that had been missed would, taken
with the greatest rank, have a successor that was missed too, or be last and have
been passed: a least counterexample again. That is the step in which `WalkEnds`
maps to `Written`, which needs `todo` to be empty; the other steps map to the
actions of the same name, and a visit of a routine before the writer to a stutter.

*The argument for the pools.* What a free list holds is not in the state: it is where the
links lead, and they lead over words that owners may write. The invariant says that there
is a family `F` of sets, one for each pool, such that every list is a sequence of
different blocks from its head to its end that has the blocks of `F[p]` (`Lists`), and
that pieces of memory are clear of each other (`Pieces`): free blocks, and live objects
with the whole of the block they got (`Extent`), as it may come back into a smaller
pool. So what an owner writes, and the link that `ssm_mem_free` writes, are
outside of all free blocks, and a write outside of a list leaves it as it is (`ListKept`). A
new page is a list by itself, its zeros read as links to the next block, and goes on
with the old one (`PagePushes`); that pages not yet taken are zero is `Fresh`. `Owned`
says where blocks come from and that none is lost; each operation moves a block
between `F[p]` and `live` or adds those of a page. That blocks of a page are clear
is arithmetic (`BlocksOfPage`), and that a block given back fits
is that powers of two grow (`PoolSizes`). From the invariant, `Allocator` has each new
object apart from the others; and `Walk` is the list, as there are no more blocks than
units (`ListIsShort`), and as two functions with the same recursive definition are
equal (`OneWalk`, a least counterexample).

*The argument for the counts.* An object with count zero is still there while its values
are dropped, those it has dropped are still in its fields, and a call in the middle has a
reference that is in no field yet. `References` counts all of this: a place whose value
the frames or the call have already dropped (`Dropped`) is no reference, the value of
the call is one. The invariant `Good` is stated of a state in which one more value is
about to be dropped, so that the drops that calls, loops and routines make are one
lemma. It says that the balance holds for allocated objects and that others are not
referred to (`Balanced`), which rules out faults; that the frames are for different
objects, of count zero, and that there are no other objects of count zero (`FramesOK`,
`Alive`); that the variable of a call is not among them (`CallOK`); and that there is a
rank that falls along references (`Ranked`), which the call's value keeps to as
well. The rank is why the variable outlives its old value: all that dies has a smaller
rank. That is where `~Cycles` is needed, and finding 7 is what happens without it.
A new object is ranked above what it refers to (`RankedAbove`), and before an assignment
all that the value cannot lead to, which is the complement of a closed set (`Avoids`),
is ranked above the value (`Reranked`). How many references a step adds and takes is
the difference of two sets of places (`BalanceKeeps`).

*The argument for the collector.* Nothing that has been freed is within reach, by the
balance. That nothing out of reach is left when a call returns needs the rank once more:
of the objects out of reach, one with the greatest rank has a count that is not zero, so
something refers to it, which is out of reach itself and has a greater rank (`AllReached`;
`Spanned` is the result, as the definition of a least closed set puts it, and
`CollectedIs` that a store with this property is what a collection leaves). `Collector`
takes a call in one step, so the state before its begin has to be compared with the one
after its end: all objects that are neither being freed (the frames) nor the variable of
the call are as they were when the call began (`Kept`). No step changes what is seen of
more than one other object, and only a step that ends a call does so (`Moves`). So at the
end all objects that are left but one are as they were (`Settled`), and that is
`Collects`, or `Changes` for the one.

*The argument for the Zephyr clock.* `TimesExact` speaks of readings that are done. The
invariant adds what an unfinished one is worth. `__ssm_timer_hi` counts the wraps of
the counter, but for one whose interrupt is pending (`ClockSound`), and as that
interrupt goes before all others a reader always finds it right. After its first read
a reader has the wraps at that moment (`HasHi0`). After the second, `lo` is exact and
`hi0` is right or one behind, and in the latter case `lo` is in the counter's lower
half, for a reader is not held up for more than half a range (`HasLo`). The third read
then tells the cases apart, as `ssm_timer_calc` does: if the counts differ and `lo` is
in the upper half the wrap came after `lo` was read, else before. A tick of the counter
keeps the three conditions (`HalfARange`), and what is written to the buffer or taken as
wall time is `Exact` from then on. The bound of half a range is the model's
(`TimePasses`), and is 2^31 ticks on the device. For the alarm: outside of a sleep
there is no callback, and between the two steps of `ssm_timer_cancel` no alarm that
could want it (`AlarmInv`).

*The argument for the inputs*, on both platforms. The heads of the buffer never wrap, so
the packets that wait are `rb_r..(rb_w - 1)`, and as there are never more than the
buffer has slots less one, two of them are never in one slot (`Lemmas!Apart`). An
inserter that has found room keeps it, since the read head only moves forward
(`Heads`). Then the order of times: who inserts has read the clock after all packets
in the buffer were stamped, and holds the others off until its packet is in
(`Ordered`; the lock on POSIX, interrupts that do not nest on Zephyr). The loop reads
the clock before it looks at the buffer, so what it does not see came after
(`Looked`), and an event due at that reading is before it; an input it consumes is
the first of the buffer, and `NotAfter` passes from `event_time` to `now` in `ssm_tick`.

*The argument for the sleep.* The loop decides within half a range of its reading
(`Timely`). Were the event due in the meantime, it would have come due within the guard
period, and the driver would refuse the alarm (`GuardPeriod`): so an alarm that is set
lies ahead, at `next_time`, and each tick of the counter brings it nearer or is it.

*The argument for the wake-ups.* That a byte (on POSIX) or a post (on Zephyr) is there
whenever the loop sleeps with an input in the buffer depends on what happened before it
slept. Bytes are read and posts forgotten only after a sleep, before the loop reads the
clock. So from that reading on an input that is stamped later, and from the loop's look
at the buffer on one that it has not seen, has its byte or its post still, or its
inserter is about to give it (`Wakes`, `PostInv`). An input that the loop has seen and
left in the buffer comes after the next event, which comes after the reading, so it is
one of those (`SleepWakes`, `SleepKeepsPosts`).

*The argument for the ends of loops.* That a loop ends, under fairness, is a liveness
property and beyond the prover; that its steps cannot go on for ever is not. The
theorems give each loop something that its steps lower. In the event
queue that is the queue's length and, as long as it stays, the weight of what is left to do:
the iterations to the root or to the last slot (`ToGo`) and what is worth more than
any percolation may cost, for what follows it (`Left`). For the percolations of the
activation queue `ToGo` is enough. A walk has the triggers that it will come to by the
pointers as they are (`ToSee`), from which each visit takes one, as the list is acyclic. Nested drops
have the objects allocated, then those for which no drop has begun, then the values that
the innermost drop has left; each step makes the first of these that changes smaller
(`ShrinksTo`, a set and a proper subset of it). As each of these is finite and nothing
but the end of the call stops it, a call is finitely many steps.

*Only model-checked.* `CallsReturn`, `WalksEnd`,
`InputsConsumed` and `HandlerReturns`, as liveness under fairness and `ENABLED` are
beyond the prover (what of them is safety is proved, as said above: the loops get on, and
no input is slept through); the properties of Examples, for the next reason. Recursive functions over
0..n are within reach, as least counterexamples; what recursive operators compute needs
induction over data, which the prover does not support. `AtomicDrop` and `Closures`
use recursive operators, and with them the modules that extend these; no module with a
theorem reaches one.

## 6. What is not modelled

- Programs other than the examples beyond the calls they make: `Scheduler` and
  `RefCount` let a routine make any call the rules allow, in any order, each with
  one half of its effects (control, references); `Examples` has both.
- The width of priorities and child counts. That of heap indices is modelled
  (`LeftOf`, modulo `IndexValues`), for queues in which no slot's left child wraps
  (`2 * QueueSize < IndexValues`, an assumption of both queues). That is so up to 32767
  entries; the sizes by default are 2048 and 1024, and nothing checks those that a build
  sets.
- Arrays and blobs: offsets into a payload whose layout is the caller's. An array
  drops its elements like an ADT its fields. `ssm_closure_apply_final_auto`, a dup
  and a call, which no program uses.
- The block an object lies in: `Objects` has addresses and not sizes, `MemPools`
  blocks and not contents.
- POSIX: cancelling the stdin thread, the exit code, arithmetic on `timespec`,
  `getchar` at the end of the input. The wrap of `rb_r` and `rb_w` (64 bits).
- Zephyr: `zephyr-main.c` and `zephyr-dev.c`, which start the thread and bind
  devices; drivers of one board.
- Builds with `CONFIG_MALLOC_HEAP` or Valgrind. Alignment of memory.
- `ssm_mem_destroy` (does nothing), statistics, tracing, printing, parsing of
  arguments. `test-scheduler.c` is a fixed sequence of calls that the queue modules
  take among all others.

## 7. Plan

Done: BinaryHeap, EventQueue with EventSet, ActQueue with ActSet, Scheduler, TriggerList with
TriggerSet, MemPools with Allocator, PosixPlatform, ZephyrTimer and ZephyrPlatform, with
their proofs; Objects with RefCount and Collector, with the proofs of its invariants and
of the implementation; Machine and the programs.

Left: nothing that the plan named. Sections 5 and 6 say what is only model-checked, and
what is not modelled.
