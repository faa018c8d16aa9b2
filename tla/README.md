# RT-Thread on the STM32F429: a TLA+ verification of STM32F429_RTT

The repository is a firmware for the STM32F429 (one Cortex-M4 core): an RT-Thread 3.x
kernel (`src/rt-thread/src`), its port and board glue (`src/rt-thread/libcpu`, `src/rt-thread/bsp`),
the finsh/msh shell (`src/rt-thread/components/finsh`), board drivers (`src/BSP`) and a demo application
(`src/Src`). `src/Drivers` (CMSIS and the ST HAL) and `src/MDK-ARM` are vendored or generated.

This directory models the parts that carry state and concurrency, model-checks them with TLC
and proves the central results about the scheduler, the threads, the timers, the IPC objects, the heap, the UART, the context switch, the board
timers and the keys with TLAPS. All paths below are relative to the repository.

## 1. Inventory

| Component | State | Operations | What makes it hard | What makes it correct |
|---|---|---|---|---|
| Scheduler (`scheduler.c`) | ready list per priority, bit map of non-empty lists, current thread, lock nesting | `rt_schedule`, insert, remove, enter/exit critical | called from threads and from the tick; bit map and lists must change together | a node on one list, bit map = lists, a switch goes to the most urgent ready thread, a locked scheduler does not switch |
| Threads (`thread.c`) | `stat`, `current_priority`, `remaining_tick`, `error`, `thread_timer`, the one list node `tlist` | init/create, startup, yield, sleep/delay, suspend, resume, control, detach/delete, exit, timeout callback | each call has points at which interrupts are enabled and another thread or a timeout comes in; resume, control and suspend of another thread return without scheduling | `stat` says which list; dead threads stay dead; sleepers wake |
| Tick and idle (`clock.c`, `idle.c`, `irq.c`, `board.c`) | tick, slice of the current thread, defunct list | `rt_tick_increase`, `rt_thread_idle_excute` | the tick preempts every call; the idle thread frees what other threads closed | equals take turns; the dead are reclaimed |
| Timers (`timer.c`) | list sorted by expiry on a 32 bit wrapping tick, flags | start, stop, control, detach/delete, `rt_timer_check` | expiry computed with interrupts enabled; callbacks start and stop timers; wrap-around | list stays sorted, a timer fires exactly in its tick, a stopped timer is silent |
| Semaphores (`ipc.c`) | 16 bit value, suspend list (FIFO or by priority) | take, try, release, control, detach/delete | a timeout races a release; deletion with waiters | permits conserved, nobody waits beside a free permit, order of service |
| Mutexes (`ipc.c`) | value, owner, original priority, hold count | take (nested), release, detach/delete | priority inheritance across nested mutexes, hand-over to a waiter that times out | one owner, owner inherits, priority restored |
| Events (`ipc.c`) | 32 bit set | send, recv (and/or, clear), control | one send wakes many waiters, each may clear bits | nobody sleeps over a satisfied condition |
| Mailboxes, message queues (`ipc.c`) | ring / linked blocks, two waiting lists for mailboxes | send (wait), urgent, recv, control | a woken waiter competes again, its timeout is recomputed | FIFO, nothing lost or duplicated |
| Heap (`mem.c`) | chain of block headers in one array, `lfree`, `used_mem` | init, malloc, realloc, calloc, free | splitting, joining, the `lfree` hint | chain covers the array, no two free neighbours, `lfree` is on the chain, no memory shared or lost |
| Objects, devices (`object.c`, `device.c`) | containers, reference counts, open flags | init/allocate/detach/delete; register/open/close/read/write | objects: little, the containers are linked inside masked sections; devices are not compiled (`rtconfig.h:185-187` defines `RT_USING_DEVICE` only under `RTE_USING_DEVICE`) | an object is in the container of its type |
| Context switch (`context_rvds.S`, `cpuport.c`) | saved stack pointers, from/to/flag variables, interrupt mask | switch request, PendSV, first switch | requests pile up before PendSV runs; PendSV itself may be delayed or find nothing to do; frames with and without FPU registers | a thread goes on exactly where it stopped; thread code with interrupts on is that of `rt_current_thread`; a requested switch happens |
| UART driver (`bsp_uart.c`) | transmit and receive rings, counts | send, get, clear, interrupt handler | thread and interrupt share counts; overflow | bytes come out in order, none twice |
| Keys (`bsp_key.c`) | filter counters per key, ring of events with two readers | scan (10 ms), put, get | bouncing pins, long presses and repeats, two read positions, overflow of the ring | a press is reported after three to four equal samples, DOWN and UP alternate, both readers see every event in order |
| Board timers (`bsp_timer.c`) | countdown variables shared with SysTick, the running time | start, stop, check, delay | the flag is tested with interrupts enabled; zero periods; wrap of the running time | a timer ends after its period and is found over as often as it ended; a delay lasts as long as asked; differences of running times are right across the wrap |
| ESP8266 (`esp8266.c`) | matcher position, frame parser | wait for response, read line, receive frame | partial matches, timeouts, split frames; switched off in `bsp.h:59-64` | a response in the stream is found |
| Shell (`shell.c`, `msh.c`, `cmd.c`) | line buffer, cursor, history ring | line editing, completion, history, dispatch | edits in place with `memmove`, boundaries of the buffer and of the history | the line entered is the line the user sees |
| SPI flash, EEPROM (switched off in `bsp.h:59-64`), buses, GPIO | chip contents, page buffer | paged and sector writes | unaligned boundaries, partial failure | read returns what was written |

How they interact: `SysTick_Handler` calls `SysTick_ISR` of the board (timers on every tick, keys on every tenth)
and then `rt_tick_increase`, which spends the slice of the current
thread and runs `rt_timer_check`; timer callbacks (`rt_thread_timeout`) put threads back on
ready lists and call `rt_schedule`; threads block through `rt_thread_suspend` in `ipc.c`; any
`rt_schedule` requests a PendSV, which is taken as soon as interrupts are enabled; the idle
thread returns the memory of dead threads to the heap; drivers talk to threads through
rings filled in interrupt handlers.

The properties are chosen from the hazards listed in `PROJECT.json`: each is a place in the code
where an order of steps nobody wrote a test for, a race between a timeout and an answer, a stale
value or a boundary could break the component.

## 2. Plan

The order is by importance: what everything runs on comes first.

| Step | Modules | State |
|---|---|---|
| 1. Scheduler, threads, tick, idle thread | `RtKernel` (kernel state and the operators on it), `RtThread` (the calls, cut where they enable interrupts) | done |
| 2. Its inductive invariant, proved | `RtKernel_proofs`, `RtThread_proofs` | done |
| 3. Timers | `RtTimer`, implements `Countdown`; `RtTimer_proofs` | done |
| 4. Waiting, semaphores, mutexes under the scheduler | `RtIpc` EXTENDS `RtThread`; `RtSemaphore` (implements `Permit`), `RtMutex` EXTEND `RtIpc` | done |
| 5. Mailboxes, queues, events | `RtMail` (implements `Channel`), `RtEvent` EXTEND `RtIpc`, composed with the semaphore and the mutex in `RtObjects` | done |
| 6. Heap | `Heap`, implements `Allocator`; `Heap_proofs` | done |
| 7. UART | `Uart`, implements `Channel` towards the line; `Board_proofs` | done |
| 8. Context switch | `ContextSwitch`, with `Board_proofs` | done |
| 9. Board timers, key scanner | `BoardTimer` and `Keys`, both under one tick in `Board`; `Board_proofs` | done |
| 10. The line editor of the shell | `Shell`, implements `LineEditor`; `Board_proofs` | done |
| 11. More theorems | the most urgent thread runs, order on a ready list, closed threads; order and refinement of the timers; soundness, accounting and refinement of the heap; rings, wake-up and refinement of the UART | done |
| 12. Theorems above the scheduler | `RtObjects_proofs`, `RtMail_proofs`: permits, owners of mutexes, blocks, lost wake-ups, deletion; order of service, events consumed once, priority inheritance; the refinement of `Permit`, and of `Channel` by mailboxes and queues | done |
| 13. A lock with inheritance | an abstract specification `RtMutex` implements, where its mutexes are not taken under a boost | left |

Abstract specifications: `Permit` (what a semaphore promises), `Countdown` (a timer),
`Channel` (a FIFO of mails with urgent ones, used for the mailbox, for the message queue and for the
transmit side of the UART), `Allocator` (disjoint regions), `LineEditor` (a text with a cursor and the lines
entered before). Still to state: a lock with inheritance for the mutex.

## 3. Modules and the code

Three conventions hold everywhere.

* *One action is what runs with interrupts masked* (or, in the heap, under `heap_sem`). A call
  that enables interrupts in the middle is cut there: `call[t].at` says where the call of thread
  `t` stands, `call[t].on` the thread it is about, and the tick or another thread may run in
  between. Code that runs with interrupts enabled and only touches locals is joined to its neighbour.
* *A context switch happens as soon as it is pended and interrupts are enabled* (PendSV has the lowest priority): `kern.cur`
  changes in `Schedule`, and only `kern.cur` takes steps. `ContextSwitch` models the request, PendSV and the interrupts in
  between and justifies this: whenever thread code runs with interrupts enabled, it is that of `rt_current_thread`.
* Operators named `Name_word` are variants of `Name` with one plausible mistake in them. No specification
  uses them. Putting one in the place of the operator it varies makes the property that guards
  against that mistake fail; `PROJECT.json` pairs them.

| Module | Models | State and its counterpart |
|---|---|---|
| `Lists` | `rt_list_remove` of `rtservice.h` | none: lists are sequences of the objects whose nodes are linked |
| `RtKernel` | `scheduler.c`, the state changes of `thread.c`, `ipc.c` (suspend lists), `clock.c` | one record `kern`: `list` (ready lists, defunct list, suspend lists), `group` (`rt_thread_ready_priority_group`), `stat`, `prio`, `slice` (`remaining_tick`), `error`, `armed` and `left` (`thread_timer`), `cur`, `nest` (`rt_scheduler_lock_nest`). `kern` is passed to operators, so that a call is a composition like in the code |
| `RtThread` | the calls of `thread.c`, `rt_enter/exit_critical`, SysTick, the idle loop | `call` (the unfinished call of each thread), `isr` (the tick handler between its timers) |
| `RtTimer` | `timer.c` | `tm`: the sorted list, `timeout`, `init`, the flags, the timers that exist, the tick modulo `Modulus`; `call` and `isr` as above |
| `RtIpc` | what the objects of `ipc.c` share | `want[t]` (the list a thread waits on), `alive`, `wild` (a list head was taken for a thread) |
| `RtSemaphore` | `rt_sem_*` | `value`; `held` and `supply` are history: permits clients have, and permits there should be |
| `RtMutex` | `rt_mutex_*` | `mutex[m]`: value, owner, hold, original priority |
| `RtMail` | `rt_mb_*`, `rt_mq_*` | `box`: ring, indices, count; `mq`: free list, queue, count, contents of the blocks; `job`: the locals of an unfinished call |
| `RtEvent` | `rt_event_*` | `events` (`event->set`), `interest` (`event_set` and `event_info` of a thread) |
| `RtObjects` | an application that uses the objects of `ipc.c` | composes the four: one of `Worlds` says which objects exist, `Users` which threads have been started |
| `Heap` | `mem.c` | `heap`: the headers by offset, `lfree`, `used_mem`; `given` and `handed`: what clients believe they own; `job`: an unfinished `rt_realloc` |
| `Uart` | `bsp_uart.c` | `port`: rings, `sending`, the bits of CR1 and SR and the data registers; `sender`, `reader`: the unfinished calls of the two threads |
| `ContextSwitch` | `context_rvds.S`, `rt_hw_stack_init`, the part of `rt_schedule` that asks for a switch | `current`, `request` (flag, from, to), `pend` (PENDSVSET), `mask` (PRIMASK), `nest` (`rt_interrupt_nest`), `pc` and `frame` (where `PendSV_Handler` is, and what it returns to), `cpu` and `sp` (the context in the processor and those saved on stacks); `own` is history: the context each thread has brought itself into |
| `BoardTimer` | `bsp_timer.c` | `tmr` (`s_tmr`), `delay` (`delaycnt`, `timeoutflag`), `runtime`, `slot` (`s_count`); `clock` is history: the ticks since something was started |
| `Keys` | `bsp_key.c` | `btn` (`s_tbtn`), `fifo` (ring and three positions); `seen` and `unread` are history: the last samples of the pins, and the events each reader has not had |
| `Board` | what `SysTick_Handler` does for the board | composes `BoardTimer` and `Keys` under one tick |
| `Shell` | the line editor of `shell.c`, completion of `msh.c` | `shell` (`struct finsh_shell`: the buffer in place, position, history); `filled` is history: a line was discarded because it filled the buffer |
| `..._proofs` | nothing: theorems about the module of that name, `Board_proofs` about `ContextSwitch`, `Uart`, `Shell` and, under the tick of `Board`, `BoardTimer` and `Keys`, `RtObjects_proofs` about the properties of `RtIpc`, `RtSemaphore`, `RtMutex`, `RtMail` and `RtEvent` in the composition of all of them, `RtMail_proofs` about the channels of `RtMail` there; `Lists_proofs` has the lemmas about sequences, least elements and finite sums that the others share | |
| `MC...` | nothing: the values of the constants for TLC (the refinement mappings stand at the end of `RtSemaphore`, `RtTimer`, `RtMail`, `Heap`, `Uart` and `Shell`, where the proofs need them). `RtObjects` and `MCBoard` choose in the first state which objects, or which part of the board, a behaviour is about |

Calls are enabled whenever the program could make them. `RtThread` has three rules an
application may keep, chosen by the constant `Rules`: with "claims" no thread calls the kernel
about a thread that another thread's unfinished call is about; with "timers" no thread deletes a
thread whose timer runs; with "unlocked" no thread sleeps, suspends itself or exits while it has locked the scheduler. The code checks
none of them. It needs the first (two `rt_thread_resume` calls about one thread
corrupt its list node) and the third (`rt_schedule` does nothing then, and the thread runs on off every list), and violates its own documentation without the
second, see section 6. `RtIpc` and its objects run with no rules: they contain no calls of one thread about another, and their application never
locks the scheduler.

Which calls end with `rt_schedule` is kept as in the code: `rt_thread_startup` does, `rt_thread_resume`, `rt_thread_control` and
`rt_thread_suspend` of another thread do not (`ResumeInsert`, `ThreadPriority`, `ThreadSuspend`); a thread that suspended itself calls it
next, as the note of `rt_thread_suspend` demands. `rt_thread_delete` and `rt_thread_detach` take four steps (`DeleteRemove`,
`DeleteTimer`, `DeleteClose` with interrupts enabled, `DeleteDefunct`). `rt_exit_critical` may be called without its counterpart. Of the memory that
`rt_ipc_list_resume_all` writes when it takes a list head for a thread nothing is modelled but the fact (`wild`).

What the data abstraction leaves out: names of objects, stack contents, hooks, messages of
`rt_kprintf`, the contents of memory blocks. A message is one model value; a context is whose it is, how far that thread
has come, and whether it holds FPU registers.

## 4. Runs

| Run | Instance | Shows |
|---|---|---|
| `RtThread_calls` | 4 threads (idle, main, two more), 3 priorities, slices of 1 and 2 ticks, delays up to 1, one level of locking, all rules | the lists, the bit map, states and timers agree between any two masked sections; only suspended threads have a running timer; switches go to the most urgent ready thread, and only the calls that return without scheduling leave one waiting; interrupted calls find what they left; no overtaking on a ready list |
| `RtThread_live` | 3 threads, 3 priorities: two equals above idle, either of which may be raised to the top, all rules | sleeps end; threads of the priority that has the processor take turns; dead threads are reclaimed when idle runs again and again and no more die |
| `RtThread_detach` | 3 threads, without the rule "timers" | a deleted thread may be on a ready list (section 6) |
| `RtLocks` | a semaphore (FIFO, timeouts of 0 and 1 ticks and for ever, releases by interrupts, reset, deletion) or a mutex (threads of three priorities, nesting 2), each in behaviours of its own | permits are conserved over timeouts and hand-over; waiters keep their order, newcomers stand behind them and nobody is served before one ahead of him; `Permit` is implemented; one owner at every moment (also for waiters that time out as they are served), the owner has at least the priority of every waiter, and its own again when it holds no mutex |
| `RtLocks_wild` | a semaphore whose deletion races a timeout | the list head is resumed (section 6) |
| `RtLocks_boost` | two mutexes | a boost that is never taken back (section 6) |
| `RtTimer_calls` | 3 timers, a task interrupted anywhere, callbacks that call, an 8-tick counter | the list is sorted across the wrap; timers of one tick fire in the order they were started; every timer fires in its tick (`Countdown`) |
| `RtTimer_restart` | a callback that starts its own timer | a running timer that cannot be stopped (section 6) |
| `RtObjects` | a mailbox of 2, a queue of 2 blocks or an event object with 2 events; idle, two threads, handlers | no lost wake-up; no block lost or used twice; delivery in order (`Channel`, twice); nobody sleeps over its events, which are consumed once; deletion leaves nobody on either list of a mailbox, on a queue or on an event object |
| `Heap_calls` | 2 threads, 21 units, requests of 1, 4 and 8 | the chain is sound, `lfree` is on it, nothing is shared (`Allocator`), lost or miscounted |
| `Uart_calls` | rings of 2, a buffer shorter and one longer than the ring, two bytes | rings in step, nothing waits for an interrupt that is off, bytes leave in order (`Channel`), `comsendbuf` returns |
| `Board_calls` | one timer with periods 0, 1 and 3 and the delays; two pins that change between two positions, repeats off and on; a shell with a buffer of 3 and 2 lines of history; three threads and two levels of interrupts | board time agrees with the ticks; keys are debounced and both readers see all events; the shell edits the line the user sees (`LineEditor`); contexts are kept, the current thread runs, a requested switch happens |

Bounds, and why they are enough:

* *Threads.* Interference needs a caller, the thread it is about and a third one that comes in; equals and
  more urgent ones behave differently, so the instances have both. Idle is always there.
* *Ticks.* `MaxDelay` bounds the timeouts asked for; what matters is whether a
  timeout comes before, between or after the sections of a call, and one tick gives all three. `Forever` stands for a
  negative timeout. `RtTimer` keeps the arithmetic modulo `Modulus` (8 for 2^32) and its times below
  half of it, like `RT_TICK_MAX / 2` in the code; `MaxWindow` bounds the ticks between the computation of a
  timeout and its insertion.
* *Rings and blocks.* Size 2 has empty, full, wrapped and half-full rings, and the wrap is reached within two steps.
* *Heap.* 24 units with headers of 3 hold up to three blocks, which is what splitting and joining on both sides
  needs; 1 is below the minimal size, 4 and 8 allow shrinking, exact and near fits.
* *Board.* `RuntimeTop` is 4 for `0x7FFFFFFF`: the wrap comes within a period. The keys are scanned on every 2nd tick for
  every 10th, a long press is 2 scans instead of 100, the ring has 3 places instead of 10, and a task leaves at most `MaxBehind` events
  unread (the ring does not notice that it overflows). One key that changes next to one that is held down, and one
  alone, are the cases the filter tells apart; where keys are looked at, no board timer runs. `MaxWait` bounds how late a
  task looks at a timer.
* *Shell.* A buffer of 3 is filled, edited at both ends and in the middle; the commands "A[" and "AA" share their first character, so
  completion stops there; "[" is also the second character of the cursor keys. Two lines of history (the default of
  `shell.h` is 5, `rtconfig.h` has 1) have a first, a last and a wrap.
* *Context switch.* Three threads are the one that is left, the one entered and one asked for meanwhile; two nested interrupts ask
  while another asks; two steps of a thread are before and after it was stopped. The proofs need none of these bounds.
* *Semaphore values* stay below `Modulus`, nesting of mutexes below `MaxHold`, locks below `MaxNest`. The 16 and
  8 bit wrap of the code is not reached in the runs (see the hazards).

No run switches deadlock checking off: the tick can always come, a client can always call.

### Fairness

`RtThread_live` assumes weak fairness of the tick (the timer of the core runs), strong fairness
of the steps inside kernel calls of a thread that is the current one again and again (such a call takes
microseconds and a tick lasts a millisecond, so ticks cannot come before every step of it), and of the idle
loop. Application code may loop for ever: there is no fairness on leaving it.
`RoundRobin` is about the threads of the priority that has the processor. It promises nothing to a more urgent one: `rt_thread_yield` of a thread that is
alone on its list returns without `rt_schedule` (`thread.c:465, 484`), at the end of its slice too, so that a more urgent thread made ready by
`rt_thread_resume` or `rt_thread_control` waits until a timeout or a call that schedules, perhaps for ever. It supposes that the priority of the
thread that waits is not set for ever: setting it puts the thread at the tail.
`DeadAreReaped` is stated for executions in which idle gets the processor infinitely often, since busier threads may keep it from running, and in
which threads stop dying at last: the list of the dead is last in, first out, so an older one waits as long as others follow.
`Uart_calls` assumes weak fairness of the handler (its interrupt has a higher priority than threads), of the line,
and of the thread that sends, which spins with interrupts enabled.
`Board_calls` assumes `ContextFair`: handlers return (weak, and strong for the outermost one, which may be
nested again and again), sections with interrupts masked end, and PendSV, which has the lowest priority, gets the processor if it can have it
again and again. Threads need not do anything: `SwitchHappens` does not count on them beyond leaving masked sections.

## 5. Theorems

The theorems hold for every set of threads, every number of priorities, every slice, timer, period and bound.

| Theorem | Statement |
|---|---|
| of `RtThread_proofs`: | |
| `Invariance` | `Spec => []IInv` |
| `TypeCorrect` | type correctness |
| `ListsStayLists` | `OneList`: a thread is on at most one list, once |
| `GroupCorrect` | `GroupMatchesLists` |
| `StatCorrect` | `StatMatchesLists` |
| `TimeoutAssertion` | `TimerOnlySuspended`: the assertion of `rt_thread_timeout` never fails |
| `RunningIsReady` | only READY threads execute application code |
| `CallsGoOn` | `CallsHold` |
| `ClosedOffQueue` | `ClosedIsOffQueue`: a closed thread is on no ready list |
| `MostUrgentRuns` | `HighestRuns`: switches go to a most urgent ready thread; only `rt_thread_resume` and a change of priority leave one waiting |
| `FifoAmongEquals` | `NoOvertaking`, with `NewPrio = {}` |
| of `RtTimer_proofs`: | |
| `TimerInvariant` | the inductive invariant `TInv` |
| `TimersSorted` | `Sorted`: the list is in the order of expiry, across the wrap |
| `TiesKeepOrder` | `EarlyFirst`: timers of one tick fire in the order they were inserted |
| `RefusalMeansStopped` | `RefusedIsStopped`, where no callback starts or detaches its own timer |
| `TimersAreCountdowns` | `ImplementsCountdown`: every timer fires in the tick it was started for |
| of `Heap_proofs`: | |
| `HeapInvariant` | the inductive invariant `HeapInv` |
| `ChainStaysSound` | `ChainSound` |
| `NothingLeaks` | `UsedIsGiven`: used blocks are the clients', `used_mem` is their sum |
| `HeapIsAllocator` | `ImplementsAllocator`: no two clients share memory |
| of `RtObjects_proofs`, about `ObjectsSpec`: | |
| `ObjectsInvariant` | the inductive invariant `ObjInv` |
| `MutexesHaveOneOwner` | `OneOwner`: a mutex is free or has one owner, who never waits for it |
| `BlocksStay` | `BlocksConserved`: no block of a queue is lost or used twice |
| `MailIsNotSleptOver` | `NoSleepBesideMail`: no lost wake-up at a mailbox or a queue |
| `EventsAreNotSleptOver` | `NobodySleepsOverEvents` |
| `PermitsAddUp` | `PermitsConserved`, with `MaxSupply < Modulus` |
| `SemaphoreIsPermit` | `ImplementsPermit`: every semaphore is a counter of permits, with `MaxSupply < Modulus` |
| `NobodyIsLeftBehind` | `DeletedHasNoWaiter` |
| `FirstComeFirstServed` | `FifoServed`: waiters keep their order, newcomers stand behind all of them, or with `RT_IPC_FLAG_PRIO` before the first less urgent one, and nobody is served before one ahead of him |
| `NoEventIsConsumedTwice` | `ConsumedOnce` |
| `OwnersInherit` | `OwnerInherits`, one mutex at a time, `RT_IPC_FLAG_PRIO` |
| `PrioritiesComeBack` | `PriorityRestored`, likewise |
| of `RtMail_proofs`, about `ObjectsSpec`: | |
| `MailIsDelivered` | `ChannelsDeliver`: every mailbox and every queue is a channel |
| of `Board_proofs`: | |
| `ContextInvariance` | the inductive invariant `CInv` |
| `ContextsAreKept` | `ContextsKept`: a thread goes on exactly where it stopped, with the kind of frame it had |
| `CurrentThreadRuns` | `CurrentRuns`: thread code with interrupts enabled is that of `rt_current_thread` |
| `TimeIsKept` | `TimeKept`: timers, delays and running times agree with the ticks, across every wrap |
| `EveryKeyIsRead` | `ReadersSeeAll`: both readers get every event, in order and once |
| `KeysAreDebounced` | `KeysDebounced`, for every length of a long press and every speed of repetition |
| `RingsAgree` | `RingsInStep` |
| `SomebodySends` | `NothingWaits` |
| `PortIsChannel` | `TransmitsInOrder`: bytes leave in order, each once |
| `ShellIsEditor` | `ShellEdits`: the line buffer is the line its user sees, the history the last lines entered |

Assumptions: those of the constants, and five more where they are named.

* The theorems of `RtThread_proofs` assume that the application keeps the three rules (`RulesKept`);
  without them the statements are false; without "timers" that is the first finding of section 6.
* `FifoAmongEquals` is about applications that do not call `rt_thread_control` to change a priority
  (`NewPrio = {}`, as in `RtThread_calls`): that call puts a thread at the tail of a list, its own included.
* `RefusalMeansStopped` assumes that no callback starts or detaches its own timer. With "start" it is
  false, the finding `RtTimer_restart`; with "detach" a periodic timer is started again behind its owner's back (see the hazards).
* `PermitsAddUp` and `SemaphoreIsPermit` assume that fewer permits are given than the 16-bit value of a semaphore can count (`MaxSupply < Modulus`, as in the
  runs). `rt_sem_release` does not check its value; beyond the bound it wraps to 0 and the permits are lost (see the hazards).
* `OwnersInherit` and `PrioritiesComeBack` are about applications in which a thread has one mutex to take (`Worlds` with one mutex each, nested takes
  included) and mutexes are created with `RT_IPC_FLAG_PRIO`, as in `RtLocks`. With two mutexes the original priority that `rt_mutex_take` notes may be a boosted one, the
  finding `RtLocks_boost`; with `RT_IPC_FLAG_FIFO` the next owner is the first of the list, and it does not inherit from those behind it.

The assumption on the constants of `RtTimer` says that the times asked for and the window between computing a timeout and inserting
the timer stay below half of the counter together: RT_TICK_MAX / 2 is what the code itself asserts of a time, and the
window is the length of one interrupted call against 24 days.

The inductive invariant of `RtThread` is `IInv`: `KInv(kern)`, the consistency of the kernel state,
`CallsAgree(kern, call)`, the types of `call` and `isr`. No property is inductive alone. That
lists stay lists needs that a thread whose call is between "unlink" and "insert" is on no list, which is in
`CallsAgree`; that in turn needs that nobody else links it, which follows from the rule "claims" and from
`TimersAgree` (a running timer belongs to a suspended thread that no call holds); the bit map needs the lists.
`RtKernel_proofs` has one lemma per kernel operator (`InsertThread`, `RemoveThread`, `Schedule`, `Suspend`, `Resume`,
`Timeout`, `Yield`, the tick, ...): it preserves `KInv` and changes only what is named.
`RtThread_proofs` has one step per action, built from these lemmas and from one about `CallsAgree` when a call moves to its next place.

`CInv` of the context switch has four parts beside the types. `Served`: from the time a switch is written down until
the handler has served it, the request names the thread in the processor (`from`, until it is saved) and
`rt_current_thread` (`to`), and PendSV is pended or about to look; otherwise the processor holds the current thread. `Parked`: every other
thread's context is on its stack as that thread left it, and while the handler loads, everybody's is. `Alone`: nothing
interrupts the handler once it has disabled interrupts. `Framed`: the frame it returns from is of the kind the processor holds. That a second
request keeps the first `from` is what makes it inductive. The theorems of the timers and the keys are about `BoardSpec`, the tasks of both and their common tick. The
invariant `TInv` of the timers adds to `TimeKept` that a stopped timer counts nothing, that a flag a task has found set is still set (only
its owner clears it), that the rest of a delay and the ticks since add up, and that the running time is what was read plus
the ticks since, modulo its top.

`MostUrgentRuns` is about single steps (`KeepsTop`): one that is not on the way into `rt_schedule` (`Leaving`) either
leaves the ready lists and the current thread alone, or only takes threads off, or ends with `rt_schedule`, which picks the top, or is one
of the two the property names (`Unscheduled`). Every switch is made by `rt_schedule`. `FifoAmongEquals`
is proved operator by operator: each kernel operator keeps the order of every two threads that stay on a list, but for the current
thread that yields or has used its slice.

`TInv` of the timers: the list is injective and sorted by `Rem`, the signed distance from the tick to the expiry in the arithmetic of the counter;
nothing on it is later than the longest time set or late by more than `MaxWindow` (one more inside a check, when the tick has gone on but the
timers due have not fired); an interrupted `rt_timer_start` has its timer off the list and has not waited longer than `MaxWindow`; no two
calls are about one timer. The insertion compares differences
with `RT_TICK_MAX / 2`; the key lemma is that this is the order of `Rem` as long as both are within half a turn, whatever the counter shows. The refinement maps a timer
to whether it is linked and how much is left: each action of `RtTimer` starts, stops or fires one countdown, or is a stutter, and the tick takes one off all of them.

`HeapInv` has the chain in both directions (`Chain`: successors and predecessors agree, and no block begins inside another), no two free
neighbours (`Tidy`, with a set of exceptions for the moments in between), the hint (`Hint`), the accounting, the
clients (`Serves`) and the calls in the middle of `rt_realloc` (`JobsOK`). There is one lemma per operator: split, join on both
sides, mark, search, free, shrink. `used_mem` is a sum over a set of blocks that every step changes. The invariant carries a
witness of it: a function along the chain that says what the used blocks before a block take (`Counted`); each operator changes it in the places the
operator touches. That its last value is the sum which `UsedIsGiven` names follows at the end from the smallest block at which
they differ. `Lists_proofs` proves that sums over finite sets exist and can be taken in any order (`SumsExist`, `SumsAdd`). The
library's induction theorems have operators as parameters and cannot be cited; its place is taken by `NatSet`, induction for a set of numbers, which follows from
`LeastExists` (a set of numbers has a least one), and that from the well-foundedness of `<`.

`UInv` of the UART says of both rings that indices and count agree, also between the two halves of a store (the byte is there, the count not yet), that the interrupt
is enabled whenever something is in the ring or the sender is about to enable it (`NothingWaits`), and that the reader
holds the oldest byte, unless the ring was overrun. The refinement to `Channel` maps shift register, data register and ring to one queue.

`ObjInv` of the IPC objects has a part that all of them share and one for each kind. `IpcInv` is `KInv` of the kernel with what ties the
waits to it: a thread on a waiting list has called that list's object and is suspended, with no error noted yet; one that still wants a list it was
taken off is queued to run; every ready thread is on a ready list. A thread is *served* (`ServedIn`) from the moment it is taken off a list without an
error until it returns: these are the threads on their way that the properties of this section count or exclude. Each kernel
operator either wakes a set of threads and leaves the waits of the others alone (`Wakes`), or puts one to sleep (`Sleeps`). A step of an
object is described by the pairs (thread, list) it may move (`Moves`), and a list in no such pair is `Quiet`: nobody joins it
and nobody is served from it. That carries the composition: a step of one kind of object keeps the parts of the others because their lists are quiet.

`MutexInv` is `OneOwner` with types. `MailInv` gives each block of a queue one place (`Blocks`); the threads that
fill or copy one are among the places. `NoSleep` counts: while somebody waits, there are no more mails (or places) than threads on their way. A
thread on its way goes back to sleep only when it finds nothing, and then there is nothing to count. `EventInv` needs the outcome of
the loop of `rt_event_send` (`Resumed`), found by going along the list (`Handled`): who was looked at and stayed is not satisfied by
what the earlier ones left. `SemInv` adds up columns of `held` with the sums of `Lists_proofs`. `DeadInv` says more than its
property: besides the waiters that a deleter in its loop will wake, nobody is on his way to a deleted mailbox or queue or holds a block of it,
since he could go back to sleep there, where no deleter comes any more.

`FirstComeFirstServed` and `NoEventIsConsumedTwice` are about single steps. The former has two halves. For those who leave (`NobodyIsPassed`) there is one case for each way
a list can lose somebody without an error: a call that resumes the head, which is before everybody it could pass over, or `rt_event_send`,
whose lists this half leaves out; a timeout and a deletion note an error. For those who stay or come (`StepSettles`) a step either takes
threads out of a list or puts one where `rt_ipc_list_suspend` puts him (`Arrived`, `NewcomerStands`). The latter follows from `Handled`: an event that was consumed is not in the
set against which the threads behind are tested.

`SemaphoreIsPermit` needs no invariant beyond `SemInv`, but both kinds of facts about steps: who is served (`Moves`) and who leaves a list (`Held`,
`OneOff`). A step of another object leaves list and value alone (`QuietPermit`), a timeout or a round of the deletion loop lets one waiter give up
(`OneOffPermit`), and a release is one of two arrivals (`PermitArrives`). Counting up without wrapping
around is where the bound on the supply enters: a permit that is in the value, on its way or held has been supplied.

`MailIsDelivered` adds `ChanInv` to `ObjInv`. Of every mailbox: the next free slot is as many slots behind the oldest mail as there are mails (`Ring`;
`Behind` takes the place of the modulo), so that what is put goes last and what is taken was first. Of every call that
is about to send, into the block it fills or to a full mailbox it sleeps on: it has a mail (`LettersInv`), so that what it links is the mail it was called with and
never an empty block. The rest is `Blocks`: a block in hand is not in the queue and in nobody else's hands, so no
send, reset or read of another changes what a reader copies. `BoxGoes` and `QueueDelivers` say what a step is to each object; `Delivers` puts them together, one lemma per action.

`LocksInv`, behind `OwnersInherit` and `PrioritiesComeBack`, has a third and a fourth part beside the two properties: the waiters of a mutex are in the order of their priorities, and what an owner gets back is what it was
created with. The order is needed at a hand-over: the head becomes the owner, and must be as urgent as everybody behind it. The invariant also
counts a deleted mutex as long as somebody owns it, since its owner may still be boosted. Every step but those of a mutex is `Steady`: it changes no
priority and only takes waiters out of the lists of mutexes, keeping the order of who stays (`Thins`). What remains is five cases of `rt_mutex_take`
and `rt_mutex_release`.

`KeyInv` of the keys says of the ring that what lies between a reader's position and the writer's (`Unread`) is what that reader
has not had, that it is at most `MaxBehind`, and that a reader that found something has something to read. `Place` takes the place of the modulo in these proofs. The writer puts up to one event per key and tick, a fold over the keys: `PutAll` follows it by induction with
`NatSet`, as for the sums. For a key it says where the filter counter and the long and repeat counters may stand after the samples seen
last (`Filtered`); that bounds in both directions how many samples it takes until a key is reported, which is `Debounced`.

`ShellInv` of the shell says what every key keeps of the buffer: the cursor is inside the line, what is before `line_position` was typed
and what is from there on is zero (`Clean`), the latter unless the line filled the buffer and was discarded; the remembered lines are clean too. Without the
last part `shell_push_history`, which compares whole buffers, could take one line for two. The loops that make room
or close the gap are functions of the index, so that what they do to the text (`InsertAt`, `RemoveAt`) follows position by position, as
do completion and the move of a full history. Each key is then one step of `LineEditor` or a stutter (`Follows`). A Tab on a discarded line whose buffer has no zero left is not modelled, and the theorem says nothing of it.

Checked by TLC only: the liveness properties (`SleepEnds`, `RoundRobin`, `DeadAreReaped`, `SendReturns`, `SwitchHappens`), which are
beyond the proof system. Every other property of a passing run is stated by a theorem; where a theorem has a
hypothesis that the run does not need, it is in the list of assumptions above.

## 6. Findings

Each is a run that TLC ends with a counterexample; the quotation of the source that it contradicts is in `PROJECT.json`.

* `RtThread_detach`: `rt_thread_delete` and `rt_thread_detach` unlink the thread and release its timer in two masked sections. If
  the timer fires in between, `rt_thread_timeout` makes the thread ready again, and the call goes on to mark it closed while it is on a ready list.
* `RtLocks_wild`: `rt_ipc_list_resume_all` tests the list before it masks interrupts. When the last waiter
  times out in between, the list head is taken for a thread and resumed.
* `RtLocks_boost`: `rt_mutex_take` records the current priority as the original one. A thread that takes a second
  mutex while it is boosted, and releases both, keeps the boost.
* `RtTimer_restart`: `rt_timer_check` clears the active flag of a one-shot timer after its callback, also when the
  callback has started the timer again; `rt_timer_stop` then refuses to stop it.

Other behaviour worth knowing, which the models follow or leave out on purpose, is among the hazards, with a note: an
exact fit at the end of the heap is refused, shrinking a block does not lower `lfree`, a full receive ring is written over and gets
out of step, two threads in `bsp_delayms` share one delay, `DISABLE_INT` and `ENABLE_INT` of the board do not nest, an overrun of the key
ring goes unnoticed. Three comments are loose: `shell.c:756` says "clear command line" of a line that filled the buffer, but only
its positions are reset; `bsp_key.h:21` speaks of 50 ms of unchanged samples, three to four samples of 10 ms suffice;
`bsp_timer.c:86` gives the period of `bsp_start_autotimer` in units of 10 ms, but `SysTick_ISR` counts the timers of both modes down once in every 1 ms (as line 59 says of
the other mode), and `TimeKept` holds of the code with periods in ms, not of that comment.

## 7. Not modelled

* *Objects and devices.* The containers are linked lists changed inside masked sections, for `rt_object_find` only; the
  device layer is not compiled.
* *ESP8266, SPI flash, EEPROM.* Their includes are switched off in `bsp.h:59-64`; `mempool.c`, `memheap.c` and `signal.c` are
  not compiled either.
* *Register-level drivers* (pins, clocks, buses, PWM, the LEDs), the fault handlers, `bsp_delayus` (it polls a counter):
  sequences of register accesses without state of their own.
* *Of the modelled drivers*: the shell's echo and its commands, a Tab on a line buffer that has no zero left;
  `bsp_setkeyparam` beyond the choice it makes at the start; `comclear*` of the UART, which nobody calls.
* `src/Drivers` and `src/MDK-ARM` are vendored or generated. Tick counts are taken as they are: `rt_tick_set` has no caller.
* Contents of the objects' memory after deletion: an object is deleted only while the threads that called about it
  wait on its lists.

`PROJECT.json` lists each component with its reason.
