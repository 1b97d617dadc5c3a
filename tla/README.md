# Formal models of the SAM reusable components

TLA+ models, TLC configurations and TLAPS proofs for the core logic of this
repository, a library of embedded components for Analog Devices' SC5xx parts
(one ARM core, two SHARC cores): drivers, services, and a bootloader with its
host tool.

Modelled are three parts. The **SHARC Audio Engine** (SAE), the layer through
which the cores exchange messages in shared L2 memory: the one part of the
repository in which several processors, several tasks and interrupt handlers
work on the same data structures, and on which nearly everything else
(soundcards, streams, examples) sits. The **UART driver**, whose tasks share
rings with an interrupt handler, as the first of the drivers of that shape. And
the **firmware update**: the SAM-flasher on the host, the USB serial link, and
the bootloader that erases and programs the flash, the one protocol of the
repository between two programs that may stop and start independently.

## Inventory

| Part | State | Operations | What is hard | What makes it correct |
|---|---|---|---|---|
| SAE lock (`sae_lock.c`, `sae_util.c`) | lock word in L2, each core's exclusive monitor, interrupt mask | lock, unlock, nested interrupts | two instruction sets share one word; a handler spinning on code it preempted; an exclusive store whose failure nobody looks at | mutual exclusion, no self-deadlock, the word LOCKED exactly while held, progress |
| SAE messages (`sae.c`, `sae_irq.c`, `sae_util.c`) | buffers with 8-bit counts, a ring per core, trigger table, latched interrupts, callbacks | create, ref, unref, send, receive, broadcast, handler | checks outside the lock, interrupt raised after the lock, handler and task draining one ring, partial failure of a broadcast | counts equal references, no use after free, no leak, no lost wake-up, order, delivery |
| SAE heap (`sae_alloc.c`) | boundary tags in L2 | malloc, free, check | splits and merges at boundary sizes, stale tags under data, an unlocked free | blocks apart, tags consistent, free memory merged and found |
| SAE streams (`sae_stream.c`) | list of named streams in L2 | register, unregister, announcements | two allocations under one lock, frees without it, announcements after it, unchecked allocation | names unique, every stream keeps its blocks |
| UART driver | two rings per port, semaphores, `transmitting` | open, close, read, write, timeouts, interrupt | ring shared with a handler, timeout against give, close while sending | bytes in order, none lost, a full ring drains, readers wake |
| UART over CDC | the same over USB callbacks | the same, transfer complete, errors | errors of a transfer, port closed by the host | as above, and the transmitter restarts |
| SPI, TWI, SPORT, PCG | lock and completion semaphore per port | open, transfer, close | completion against timeout | one transfer at a time |
| Firmware update (bootloader1, SAM-flasher) | receive buffer and its state, decoder, erase in progress, flash pages; the tool's step, the page it is at | nop, erase, program, acknowledgements, pause and resume of USB transfers | a buffer shared by interrupt and main loop, the tool ended and started again with commands and replies still under way, lost replies, failing pages, lengths that nobody checks | success reported implies flash equals file; an undisturbed run succeeds |
| syslog | ring of lines | log, dump | dropped lines while dumping | oldest first, newest kept |
| fs-dev | device list, descriptor table | register, open, read, close | shared without a lock | a descriptor belongs to one file |
| buffer-track, cpu-load | timestamps, averages | sample | timer wrap | bounded estimates |
| USB audio, mass storage, telnet, RTP, VBAN, WAV, A2B, lwIP netif, SD card | mostly inside vendor libraries | adaptors, formats, I/O | outside this code | – |
| vendored and generated code | – | – | – | not this project's logic |

How they interact: the application calls the SAE API from tasks and from the
message callback; `sae_interruptHandler` runs in interrupt context of each core
and calls back into the application; every API call goes through
`sae_lockIpc`, which masks the core's interrupts and spins on the shared word;
message buffers come from the shared heap; stream registration broadcasts
events through the message layer. Drivers are per core and talk to tasks
through semaphores given by their interrupt handlers. The host tool and the
bootloader talk over USB CDC.

## Modules

| Module | Models | Role |
|---|---|---|
| `SaeMutex` | – | abstract: a mutex |
| `SaeLock` | `sae_lock.c`, `sae_lockIpc`, `sae_unLockIpc` | spinlock on ARM and SHARC, masking, nested interrupts; implements `SaeMutex` |
| `SaeLockProofs` | – | proofs about `SaeLock` |
| `SaeMailbox` | – | abstract: bounded in-order mailboxes of buffers that are created and freed |
| `SaeIpc` | `sae.c`, `sae_irq.c`, `sae_broadcastEvent`, callbacks of `sae_stream.c` | rings, counts, interrupts, handler, broadcast; implements `SaeMailbox` |
| `SaeIpcProofs` | – | proofs about `SaeIpc` |
| `SaeArena` | – | abstract: disjoint regions of the lengths asked for |
| `SaeAlloc` | `sae_alloc.c` | boundary-tag heap; implements `SaeArena` |
| `SaeAllocProofs` | – | proofs about `SaeAlloc` |
| `SaeStream` | `sae_stream.c` | stream list on the heap of `SaeAlloc` |
| `SaeStreamProofs` | – | proofs about the list of `SaeStream` |
| `SaeStreamHeapProofs` | – | proofs about `SaeStream` together with the heap under it |
| `ByteFifo` | – | abstract: a byte queue that only opening the port empties |
| `SimpleUart` | `uart_simple.c` | one port: rings, handler, blocking calls; implements `ByteFifo` in each direction |
| `SimpleUartProofs` | – | proofs about `SimpleUart` |
| `Updater` | – | abstract: an update whose success means something |
| `Slip` | `slip.c` | the frame codec of both sides |
| `SlipProofs` | – | proof that `unslip` undoes `slip` |
| `FlashUpdate` | `bootloader1/src/flash_cmd.c`, the receive path of `user_cdc.c`, the SAM-flasher | host tool, link and bootloader; implements `Updater` |
| `FlashUpdateProofs` | – | proofs about `FlashUpdate` |
| `MCSaeLock`, `MCSaeIpc`, `MCSaeAlloc`, `MCSimpleUart`, `MCFlashUpdate` | – | instances for TLC |

The layers of the SAE meet in one place each. `SaeIpc` treats a stretch of code
between `sae_lockIpc` and `sae_unLockIpc` as one step; that is what `SaeLock`
(checked and proved to implement a mutex that handlers take part in) justifies.
`SaeIpc` takes a message buffer to be one of finitely many that the heap has
room for; that blocks are disjoint, and stay so until freed, is `SaeAlloc`'s.
`SaeStream` extends `SaeAlloc`: its calls go through the heap step by step, so
that registering, unregistering and the messages of other cores interleave
there.

### SaeLock

A core runs code at several levels: level 0 is the main loop or whichever
FreeRTOS task runs, level k an interrupt handler of priority k. A context is a
pair of core and level; it runs when nothing above it on its core is active.
One action per memory access of `sae_lock`/`sae_unlock`: the ARM
compare-and-exchange (`CompareExchange`, `Store`) and the SHARC exclusive
load/store pairs (`LoadExclusive`, `StoreExclusive`, `StoreRefused`,
`UnlockLoad`, `UnlockStore`). `monitor` is the hardware's exclusive access:
any store to the word ends everybody's. `StoreRefused` may also happen with the
access intact, as hardware may; `UnlockStore` does not, because the code has no
answer to it (it would leave the word locked) and the only reason a program
could cause, another store to the word, is what `LockedMeansHeld` is about.

### SaeIpc

State: `ref`, `type`, `live` (message buffers), `queue`, `head`, `tail` (ring of
each core, indices modulo its size), `trigger` (`idx2trigger` not zero), the two
callbacks, `pending` (the latched edge of the interrupt), `isr` (where
`sae_interruptHandler` is), and per context the API call it is in and its
pointer variables (`hand`). Steps follow the lock: `RefCheck` and `UnRefCheck`
are the tests made before the lock, `RefLocked`, `UnRefLocked`, `SendLocked`,
`ReceiveMsgBuffer` the locked parts, `RaiseInterrupt` what `sae_sendMsgBuffer`
does after it. `sae_broadcastEvent` runs the same steps, driven by `bstep` and
`bidx`. The handler's loop is `IsrEnter`, `IsrReceive`, `IsrDispatch`,
`IsrLoop`, `IsrExit`; during a callback the context `<<"isr", c>>` makes API
calls of its own. The callback for events, which `streamMsgRx` calls before
it gives the message up, makes none here: what it could do is what the callback
for messages does.

The application is modelled by what it may do: any sequence of the calls that
`TaskCalls` and `CallbackCalls` allow on each core, with pointers it owns. An
owner passes its reference on by a successful send and gives it up by unref;
the callback owns what it is given. That protocol is the API's, not checked
code: an application that breaks it (unref without owning) is not modelled.

### SaeAlloc

Memory is an array of words; the tags are words of it like any other, so a
wrong walk would read data as tags (callers fill their words with `Data`, which
looks like a tag of a free block). Sizes count words, 8 bytes being 2. The
walk of `sae_alloc_malloc` is a step per block, so that the unlocked free of
`sae_unRegisterStream` (`FreeMark`, `FreeLook`, `FreeMerge`) can come between
two of them. What a locked call writes is one step. Nothing keeps other cores
off the heap during such a free; the code itself brings them there, as the
handlers of the broadcast of line 158 give its message up meanwhile. What the
tags are worth afterwards cannot be said, so the history variable `spoiled`
notes the first heap call of a core that begins while another is between two
steps of an unlocked free (or the other way round), and the properties speak of
the heap up to that step. Without the exception they fail (run AllocStream).
`asked` is the length that a caller waits for; `SaeArena` gives out regions of
at least that length.

### SaeStream

`streamList` is the linked list as a sequence; `job` is what a core is in the
middle of. `sae_registerStream` is `RegisterStream` (lock, look for the name,
start of the first allocation), `NoMemory` (it is refused, and the call fails)
or `NodeAllocated`, then `AddStream` (second allocation, link, unlock) and
`AnnounceAdd`. If the second allocation is refused the code goes on with the
null pointer (`sae_stream.c:100`): `AddNameless` adds the stream without a name
and counts the memory as spoiled, since what the store through the null pointer
changes is not known. `sae_unRegisterStream` is `Unlink` under the lock,
`AnnounceRemoval`, `FreeName` and `FreeNode`, each free with the unlocked steps
of `SaeAlloc`, with the other cores' calls between them.

An announcement is a broadcast, whose result both callers ignore. How it is
delivered, or is not (no memory, a full queue), and what becomes of its message
then, is `SaeIpc`'s; here it is what it does to the heap, an allocation that
may be refused and later a free, both among `Messages`. That listeners know
what is in the list is not claimed: a failed broadcast is not repeated, and
removals and additions of one name by two cores are announced in any order.

### FlashUpdate

The device: `xfer_state`, `paused` and the receive buffer `rxBuf` are shared by
the USB interrupt and the main loop `flash_cmd_main`. In the interrupt,
`PacketArrives` offers a transfer, which is accepted or, while the buffer is in
use, held by the library (`held`) and `paused` is noted; `TransferComplete`
makes it DATA_READY. The main loop is cut where the interrupt can come between:
`DecodeFrame`, a `ProcessCommand` per frame, `Release` (the buffer is given
back), `Unpause`, `Resume` (the library offers the held transfer again), then
`EraseSector`: one sector and one status message per pass. `tx` is the one
reply that can be in transmission; a further one is refused by the library, the
refusal ignored, and the buffer it was built in already overwritten
(`Transmit`).

The host: `Start` opens the port and sends NOP; `Receive` takes a reply and
goes on to the next command; `Timeout`, `Interrupt` (the user) and any
unexpected reply end the run. The port drops what has come in (`replies`) and
any part of what was not sent; what has reached the device stays and will be
answered. Commands carry nothing that tells the runs apart.

Data: an address counts pages, and a page is the few bytes that it has in the
files. `BufSize` stands for the 512 bytes that the tool's `sBuf`, an USB
transfer and the device's buffers have in common. `Files` includes bytes that
need stuffing and bytes that look stuffed; the codec `Slip` works on the bytes
themselves. `Burn` is NOR flash: a page that is not blank is spoiled by
programming other data over it, and so is one that gets data of no file.

Nobody looks at lengths. The tool slips a page into `sBuf` without a look at
what comes out (`SAM-flasher/src/flash_cmd.c:43`): a page with some 243 bytes
or more that need stuffing makes more than 512. The tool then writes beyond
`sBuf`, which may end it (`Interrupt`), and if it lives on the frame goes out
in two transfers (`Transfers`). The device decodes each by itself: of the
first it keeps only that a frame, perhaps an escape, has begun, and takes the
second for a whole frame, that is, for whatever command its first byte names.
It programs what the bytes of `cmd` say, those left from earlier frames
included (`ProgramAnything`), and its acknowledgement may be the one that the
tool waits for. Likewise a file may be longer than the sectors that are erased
for it, and longer than the chip (`ChipPages`). All this is in the model and in
the run; `misfit` says that a file that does not fit has been sent since the
device was last found quiet, and the properties that could not hold then except
it.

`Faults` names what may go wrong:

| Fault | Allows | Effect |
|---|---|---|
| `interrupt` | the user ends the tool at any point | in the run |
| `programFails` | `flash_program` fails and leaves anything in the page | in the run |
| `overrun` | a reply is due before the last one has been fetched: one of them is lost | in the run |
| `eraseFails` | `flash_erase` fails | ImplementsUpdater fails: the result is ignored (`flash_cmd.c:217`), pages are programmed over old data and acknowledged |
| `abort` | an accepted transfer is aborted | PausedResumes fails: nothing resets `xfer_state`, and every later transfer is paused for ever; ImplementsUpdater holds |

`Haste` bounds how many times in a row the tool is started while the device is
still busy (`Quiet` fails). The run has 2. With 3 `ImplementsUpdater` fails, with
`interrupt` as the only fault: each hasty restart can leave the replies one
further behind the commands, and with three an acknowledgement of a page that
the run before the last has sent is taken for that of the new run's page, which
has other data. It takes four starts within the time of a few commands, each
interrupted at the right moment; waiting for the device to finish, before the
tool is started again, avoids it. A start that finds the device quiet makes the
count zero, so the number of runs is not bounded.

### SimpleUart

One port of `simple-drivers/peripherals/uart` under FreeRTOS (the bootloader
has a copy of the same file). State: both rings with their indices, the flags
`rxSleeping`, `txSleeping`, `transmitting`, the four semaphores, and of the
hardware the transmit interrupt enable, whether the holding register is empty,
and a received byte. `uart_write` is `WriteBegin` (take `portTxLock`), per byte
`WriteCheck` (critical section), `WriteWake` if the ring was full, `Put` and
`PutWrap`, then `Kick` (second critical section, unlock). `uart_read` is
`ReadBegin`, `ReadCheck` (critical section), `ReadWait`, `ReadWake` or
`ReadTimeout` followed by `ReadExpired`, `Copy` and `CopyWrap` per byte,
`ReadReturn`. The handler is one step, `Irq`: tasks cannot run in the middle of
it (the yield it asks for is taken when it returns). `Arrive` and `Shift` are
the line.

The handler and the application are free to do what the code lets them: the
handler runs between any two steps of a task, a port is closed with bytes still
in its ring, opened again, opened while it is open, and timeouts are set at any
time. Three of these hurt, and history variables, which no step reads, say when
they have:

| Noted | When | Effect |
|---|---|---|
| `TxOffEnd`, `RxOffEnd` | the handler runs between the two stores of an index that wraps (`uart_simple.c:360-364`, `303-306`) and the ring is empty, or full | it sends a byte that is not there, or overwrites the ring: `AlwaysInOrder` fails (run UartWrap). `SendsInOrder` and `ReadsInOrder` except that one step |
| `upset` | since the port was opened the handler has done so while sending, or the port was opened with `transmitting` still set from before (`371`, `641`) | the transmitter may stop with bytes left: `NeverStalled`, the writers' half of `SleepersAwaited` and `WritesReturn` except it |
| `late` | the token in `portRxBlock` was given after the wait it was meant for had timed out | a later read is woken by it with nothing to read: WokenFindsData fails (run UartTimeout), and `TokensMeanBytes` says that there is no other cause |

A `uart_open` of an open port takes the handler away (`606`): nothing is sent
or received on the port after that, and `WritesReturn` excepts it. The
passing run does not go on from there (constraint `Connected`), to stay short:
without the constraint it has 523,000 states and the same result. The proofs
have no such limit.

## Runs

| Run | Configuration | Shows |
|---|---|---|
| Lock | 1 ARM + 2 SHARC cores, main loop and one interrupt level; 1,280 states | the lock's safety, progress, and that it is a mutex |
| IpcRef | 2 cores, a task each, 1 message, rings of capacity 1; 657,000 states | counts, no use after free, no leak |
| IpcOrder | 2 cores, 2 messages, ring size 4; 607,000 states (symmetric in the messages) | no lost wake-up, implements the mailbox |
| IpcLive | 2 cores, broadcast against sends; 29,000 states | delivery and eventual freeing |
| IpcWrap (violated) | count of two bits | `ref` wraps to zero |
| IpcUnregistered (violated) | callbacks not registered yet | a message leaks |
| Alloc | 24 words, requests of 1 and 4 words, 2 cores, 2 stream names, up to the spoiling of the heap (constraint `Unspoiled`); 91,000 states (symmetric in cores and names) | the heap's invariants, implements disjoint regions of the lengths asked for; streams unique, with blocks of their own |
| AllocStream (violated) | as Alloc, also a spoiled heap | a live block is swallowed |
| Uart | 2 tasks, 2 byte values, rings of 3 (capacity 2), transfers of up to 2, 3 bytes in all, up to a second `uart_open`; 263,000 states | the two byte queues, no stall, no task waits in vain, tokens mean bytes |
| UartTimeout (violated) | as Uart, 2 bytes | a stale token ends a read that should block |
| UartWrap (violated) | as Uart, without the exception | stale bytes are sent |
| Update | 2 sectors of 1 page on a chip of 2, files of 2 pages and 1 that fit and one of 3 that does not, buffers of 9 bytes, Haste 2, faults `interrupt`, `programFails`, `overrun`; 191,000 states | commands are understood, the buffer is not overwritten, a run that found the device quiet tells the truth, implements the updater; undisturbed runs succeed, paused transfers resume |

Bounds, and why they are enough. Two cores and one task each give two senders
to one ring, one of them preempting the other's core, and a handler that
competes with its own task; a third core adds senders but no new pairing. Ring
size 2 (capacity 1) makes full rings, hence failed sends and the undo of a
broadcast, the normal case; size 4 lets two messages queue and the indices wrap
around. One message buffer is enough for counts, which concern one message at a
time; order needs two. Full rings are IpcRef's, in which no task polls, and a
task that polls is IpcOrder's, whose rings never fill; the proofs have both at
once. `Hand` = 2 is what the broadcast needs. `RefMax` is 255
as in the code except in IpcWrap, where 3 lets two cores reach the limit. In
the heap 20 words are tiled by blocks of 4 and 6: splits that leave a rest too
small (2 words), exact fits, merges on either side and both, refusal with and
without fragmentation all occur. In the UART three bytes fill a ring of
capacity 2 with a writer left over, and take both indices once around; the
second task waits for the port's lock or is in the other direction. MaxLen is
below Size as 255 is below 1024: a write that starts with an idle transmitter
must fit in the ring, since the transmitter is started after the last byte is
in. In the update each of the two sectors is a page, so that pages are
programmed in sectors erased at different times; of the two files that fit the
second is one page shorter, so that a page of an earlier run lies behind it,
and the first takes up the nine bytes of a buffer to the last when slipped. The
third has a page too many, and its first page makes two transfers of which the
second begins with a command. Two hasty restarts leave up to two commands in
the device and on the link in addition to the run's own. The proofs have none
of the bounds of the models they are about.

Fairness. In the lock, weak fairness of a context that is inside the lock
functions and of a handler's return, and strong fairness of the exclusive
store, which may lose its access again and again but not for ever. Entering the
lock functions and interrupts arriving are not fair. In the message layer a
handler whose interrupt is latched runs and its steps go on (the callback
returns); the application registers its callbacks; a task in the middle of a
call gets on if it gets the core infinitely often (strong fairness: the handler
preempts it). A task is never obliged to start a call. Both liveness properties
assume `NoFlood`, that no core is kept in its handler for ever by others that
keep sending: the handler loops until its queue is empty and the code has no
limit.

In the UART a byte leaves the holding register, the handler runs while the UART
requests it (a received byte, or the transmit interrupt enabled with the
register empty), and a task in a call gets on. Tasks are not obliged to start
calls, nor bytes to arrive.

In the update the device's main loop runs, the library and the host's USB stack
move transfers, and a tool that waits reads replies and gives up when there is
nothing left to wait for: `Timeout` has no other guard than that nothing is
under way, as its five seconds are longer than the device takes for a command
and for a sector. Nobody has to start the tool, and no fault has to happen.
`disturbed` notes faults since the last start on a quiet device, so
`UndisturbedSucceeds` is about every run after such a start.

Deadlock is checked in every run but the UART's, which stop when the bound on
the bytes (`Quota`) is used up and the port is being read.

## What the runs found

* `sae_refMsgBuffer` tests `msg->ref == 0xFF` before it takes the lock
  (`sae.c:160`): two cores pass the test together and the count wraps, which
  the comment above it says it must not. The proofs assume that fewer
  references exist than the count can represent (`RefRoom`), the condition
  under which this cannot happen.
* A message that is dispatched before the application's callback is registered
  is dropped with its reference (`sae_irq.c:40`) and leaks. `sae_initialize`
  enables the interrupt, so the window is always there; an application closes
  it by keeping the interrupt masked until it has registered (`BootMasked`).
* `sae_unRegisterStream` frees without the lock (`sae_stream.c:163`), while the
  cores that its own broadcast has reached use the heap.
* A `uart_read` that times out can leave a token in `portRxBlock` that ends a
  later read early (`uart_simple.c:284-290`).
* The indices of the UART rings pass through `UART_BUFFER_SIZE` outside any
  critical section (`uart_simple.c:360`, `303`).
* Without a run, in the update: a sector that cannot be erased is not noticed,
  an aborted transfer stops the device's receiving, a fourth start in quick
  succession may report success wrongly, and so may a run with a page that
  makes a frame too long for a transfer (see FlashUpdate).
* Without a run, in the streams: announcements can get lost and come in the
  wrong order, and the second allocation is not checked (see SaeStream).
* Without a run, in the UART: `transmitting` survives `uart_close`, and a
  second `uart_open` takes the first one's handler away (see SimpleUart); a
  read timeout is passed to FreeRTOS in milliseconds (`284`) although
  `uart_setTimeouts` computes the ticks; the write timeout is computed from the
  read timeout (`524`) and never used (`349`).
* Not a run: `IPC_MAX_MSG_QUEUE_SIZE` is described as the number of outstanding
  messages (`sae_cfg.h:35`), but a ring of that size holds one less.

## Proofs

`SaeLockProofs`, for any set of cores, any split into ARM and SHARC and any
number of interrupt levels. The inductive invariant adds to type correctness:
a context inside the lock functions has its core's interrupts masked, and is
the only one of its core there (so nesting cannot hurt); an exclusive access
still intact in a context about to store means the word has not changed since
it was read; the holder is unique and exists exactly while the word is LOCKED;
and the releasing context's access is intact. Mutual exclusion alone is not
inductive: it needs the monitor part for SHARC, and that needs the masking part
because the monitor belongs to the core and not to the context.

`SaeIpcProofs`, for any number of cores, tasks, messages, pointers and any ring
size. First the control state (`ControlInv`): which callbacks run where, which
handler states go with which pointers, that a context in the locked part of a
call still owns the pointer it started with. Then the counting argument:
`Refs(m)`, the number of hands and occupied ring slots holding m, changes by
one exactly where the code changes `ref[m]`, and does not change when a pointer
moves from a hand to a ring or back. The 8-bit arithmetic is exact because
Refs(m) is at most the number of places (`RefRoom`). From equal counts follow
no use after free (a place that holds a message makes its count positive, and
only a count that reaches zero frees) and no leak. The lost wake-up invariant
is inductive by itself and needs only that every send signals. Last, each step
of the ring maps to a step of the mailbox: queueing appends, dequeueing takes
the head, freeing happens only when no ring holds the message.

`SaeStreamProofs`, for any number of cores and names and any heap, whichever
allocations fail. A core that is registering is in the walk of an allocation
and so holds the lock; hence the list does not change between its look at the
names and its own entry, and `NamesUnique` is inductive together with that
(`ListInv`). The heap does not come into it: the proofs never look at a tag.

`SaeAllocProofs`, for any heap, any requests, any alignment and any number of
cores that share it. The invariant (`HeapInv`) is that the words are tiled by a
set B of block addresses (`Tiled`): Start and End are in it, a block's size
leads to another, the tag at its end repeats the tag at its beginning, and no
block lies within another. Everything the heap does splits a block of B in two
or joins two into one, and what has been handed out is just the blocks that are
not free (`Sound`). With it goes what a core in the middle of a call knows: in
the walk it stands on a block, and those before it do not fit (`WalkInv`); in
the two halves of an unlocked free it holds the block that it has marked, and
neighbours can be free only next to that one (`ApartBut`, `Joinable`). Tags
alone are not inductive: user data may look like tags, so it has to be said
which words are. `Walk`, the recursive function that the properties use, is
shown to be B: the least address at which it would not be leads to a
contradiction. The refinement maps a split to an allocated region, which has the
length asked for because a block that fits has room for it and its tags, and the
marking of a block to the release of one. All of it holds until `spoiled`: two
cores are in the heap at one time only if one of them is freeing without the
lock, and a step that makes it so sets the variable.

`SaeStreamHeapProofs` carries that invariant over to the stream list, whose
calls are steps of the heap with some of the list's in addition, and adds who
owns which block (`OwnInv`): a stream in the list has its two blocks, a core
that is registering or unregistering one those that it has in hand, all
handed out and all different. A stream without a name has one block, but by then
the heap is spoiled.

`SimpleUartProofs`, for any tasks, any ring size and any transfers, with the
handler anywhere and the application free to close, open and set timeouts when
it likes. `PortInv` has types, locks and where each call may be. `SyncInv` adds
what the two sides of a ring know of each other. `WriterInv`: a writer that
sleeps has left `txSleeping` set with the ring full, or its token has been
given. `DrainInv`: unless sending is upset, the transmitter's flag and its
interrupt agree, and bytes are left only with the transmitter running or with a
writer on its way to start it, whose bytes all fit in the ring. `ReaderInv`: a
reader that waits has left `rxSleeping` set with the ring empty, or its token
has been given. `TokenInv`, apart from these: a token that is not late is for a
reader that waits, and there are bytes. The refinements of the byte queues compare the
ring before and after a step as a sequence: an index that moves by one appends
an element or drops the first; an index that only wraps changes nothing, as
positions count modulo the size.

`SlipProofs`, for frames of any length over any symbols that include the bytes,
as long as what `slip` makes of them fits a buffer: `unslip` makes of
`slip(frame)` just `frame`, and is between frames then, whether it was so before
or in the middle of a frame that was never ended. An escape that has been left
over is harmless if the first byte of the frame is a plain one, as the
identifiers of commands are. The codec is a fold of `Feed` over the bytes. The
proof names the run of the decoder over a sequence of bytes (`Runs`), shows that
runs over two sequences join, and then takes the shortest prefix of the frame
whose stuffed form would not be decoded to it (`LeastFailure` does the work of
an induction).

`FlashUpdateProofs`, for any flash, any files, fitting or not, any number of
restarts, and any faults unless said otherwise. First who may touch the receive
buffer when
(`BufferInv`), and that a held transfer is noted in `paused` or about to be
resumed (`HeldNoted`), which is what `PausedResumes` rests on. Then types and
what is on the link (`LinkInv`): as long as the files fit, whatever is under way
to the decoder is the slipped form of a command; with `SlipProofs` it follows that every transfer is
understood. Last the update itself. As long as no start has found the device
busy (`hasty = 0`), there is one command or one reply under way, or the
messages about the sectors erased so far, and the flash is as far as they say
(`RunInv`, with a part for each thing that the tool can be waiting for): while
it waits for the last sector's message the sectors reported are blank, when the
message has been sent all are; while it programs, the pages before the current
one hold the file's and those behind it are blank. Hence `QuietRunTells`, for
every run that finds the device quiet and whose file fits, also after hasty ones
and files that did not fit, and the refinement
of `Updater` if all runs do. Both assume that sectors can be erased
(`"eraseFails" \notin Faults`); without that they are false, see FlashUpdate.

Assumptions on the application, stated in the theorems: `RefRoom`,
`BootMasked`, `Signals \subseteq {TRUE}`, and on the device `"eraseFails" \notin
Faults`. The runs that expect a violation, and the table of faults above, show
what happens without them. The exceptions `spoiled`, `upset`, `late` and
`misfit` are in the properties themselves, and what the program does beyond
them is in the models.

Only model-checked: the liveness properties (`KeepsMoving`, `Delivered`,
`EventuallyFreed`, `WritesReturn`, `ReadersWake`, `UndisturbedSucceeds`,
`PausedResumes`), which need fairness, and `ImplementsUpdater` with hasty
restarts, which holds only up to a bound on them: with up to two in a row the
run shows it, with three it fails. The safety part of every run that expects no
violation is otherwise proved.

## Not modelled

UART: `uart_setProtocol` (registers only), `uart_deinit`, closing a port while
another task is in a call on it (its handle goes away under it; the API has no
answer), the build without FreeRTOS.

Within SAE: re-initialisation (a master that restarts clears the area under its
partners; a core that initialises twice clears its context under its handler),
`sae_deInitStream`, a broadcast that cannot take a reference because the count
is at its limit, `srcCoreIdx`, the statistics of `sae_heapInfo`. Memory is
sequentially consistent: the SYNC and barrier instructions of `sae_lock.c` and
uncached L2 are taken to give that.

Streams: the fields of a stream other than its name (format, rates), which
announcements arrive and in what order. Firmware update: the windowed tool
around the same protocol, the choice of the flash chip and its commands,
bootloader1's start of the application, replies of more than one transfer.

The parts of the repository without a module are in the inventory. Most of its
lines are vendored or generated (FreeRTOS in several versions, lwIP, FatFs, the
A2B stack, register headers and example projects): they are not this project's
logic and no model of it can speak of them. Of the rest the drivers of SPI,
TWI, SPORT and PCG have the UART's shape with less state (one transfer at a
time, a completion semaphore), and the audio, file and network services are
mostly calls into those libraries.

## Plan

1. `ImplementsUpdater` with one hasty restart, if an invariant about the two
   queues (how far replies can be behind commands) stays readable; with three
   it is false, so there is no theorem about any number of them.
2. That the locked steps of `SaeIpc` are those of the context that `SaeLock`
   lets in, as one composed module.
3. UART over CDC with failing transfers, the completion semaphores of SPI and
   TWI, then syslog and fs-dev.
