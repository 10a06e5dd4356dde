# The Danube board support package: TLA+ models, checks and proofs

The repository is a Linux 2.4.31 board support package for Infineon's Danube, a
chip with two MIPS cores.  Almost all of it is the kernel and other open source.
Its own core logic is in three places:

- the MPS driver, which connects CPU0 (network stack, owner of all packet memory)
  with CPU1 (wireless).  The same source is compiled for both cores
  (`CONFIG_DANUBE_CORE1` selects CPU1).  No lock works across the cores; they
  share SRAM and memory and can interrupt each other;
- the DMA core and the Ethernet driver on top of it, which share descriptor rings
  with the DMA engine;
- the interface to the DSL modem, whose own processor (the ARC) answers requests
  through a mailbox.

`mps/` below is `src/core1/source/kernel/ifx/danube_bsp/arch/mips/infineon/danube/mps/`; the DMA core is `basic/dma-core.c` beside it, the drivers are under
`src/core1/source/kernel/ifx/danube_bsp/drivers/`.

## Inventory

| Component | State | Operations | Interaction | What is hard |
|---|---|---|---|---|
| Buffer pool, `mps/mps_tpe_buffer.c` | `alloc_q`, `free_q` per size class in uncached shared memory, hit counters, `mps_list_book_keep_x` | top-up and release (CPU0: timer, receive tasklet, send); allocate, free (CPU1) | queues shared by the cores; CPU0 contexts share the counter | two cores without a lock; several contexts per core; test and use apart; write-back after publication; failure half-way |
| Mailbox FIFO, `mps/mps_tpe_device.c` 188-465, 1395-1551 | words in SRAM, read and write index, ready and wrap bits in headers | `mem_request`, `write`, `not_empty`, `read`, `read_ptr_inc`, `mbx_send` | writer on one core, reader on the other, an interrupt | only the bits and indices coordinate; wrapping; failed wraps |
| Receive path, `mps_tpe_device.c` 1079-1193, 1566-2231, `mps_tpe_linux.c` 1588-1671, 2466-2504 | receive rings, tasklets, two tables of callbacks | interrupt handler, tasklet, register, unregister | handler fills what the tasklet empties; process changes what the tasklet calls | lost wake-ups, full rings, two stores that belong together |
| Remote calls, `mps_tpe_linux.c` 245-468, 797-993, 1674-1898 | one reply slot, one flag, one wait queue | version, allocation and free on the other core | through the command mailboxes | shared slot, ignored failures, signals, late replies |
| Statistics and ready bits, `mps_tpe_device.c` 1032-1076, 2058-2138, 2670-2715 | two boot-configuration registers | request and poll (CPU0), interrupt handler and ready bits (CPU1) | two uses of one register | order of two registers; read-modify-write against an interrupt |
| Device lifecycle, `mps_tpe_device.c` 476-1014, 1207-1388, `mps_tpe_linux.c` 1914-2447, 2921-3092 | open flags, semaphores, FIFO set-up | open, close, ioctl, reset, restart, module load and unload | resets what the other core uses | reset while messages are in a FIFO; two readers of one FIFO |
| DMA core, `basic/dma-core.c`, under `net/danube_ppa_eth_d2.c` | descriptor rings with their positions, noted channels, the running flag, weights and budget; the driver's open devices and queue | register, unregister, open, close, interrupt handler, tasklet, read, write; the driver's open, stop, transmit, callbacks and watchdog | the engine passes descriptors by their OWN bit; the handler notes what the tasklet serves | events between acknowledging and looking again; fairness of the weights; no memory half-way; stop with packets under way |
| DSL modem interface, `char/danube_mei_core.c`, `char/danube_mei_mib.c` | `mei_sema`, `cmv_waiting`, `arcmsgav`, `CMV_RxMsg`, reset, halt and showtime flags, the image | requests (`meiCMV`), start, showtime, reset, halt, diagnostics, MIB thread, download, interrupt handler | processes share the flags with the handler; the ARC sends replies and indicators through one mailbox | a timeout that meets its reply; replies that do not say what they answer; a semaphore that one call takes and an interrupt releases |

The properties that make each correct: no buffer has two owners and none is
lost; what a FIFO accepts is read once, in order and whole; a message the
handler took is handled or accounted for as dropped; a remote call returns its
own reply; a register that is read holds what its reader takes it for; no event of
a ring is lost and no descriptor has two owners; one request at a time is with the
modem, and its reply is its own.

Other parts the repository holds (board set-up, VCPU download, crypto, flash, PPE
set-up, serial and other drivers, ATM OAM, a socket daemon) are listed in
`PROJECT.json` with the reason they are left out.

## Modules

`MpsChannel` is the abstract specification of a mailbox.  The others are
components; `MC...` modules instantiate them for TLC; `...Proofs` modules hold
theorems.  Operators marked `Fault:` are single plausible mistakes in the code.
No specification uses them; they document what each property is sensitive to.

### MpsBuffPool (the pool)

One service and one size class.  `aBuf, aR, aW` and `fBuf, fR, fW` are the two
`MPS_BUFF_HEAD`s; `owner` records who holds each `sk_buff`, `dirty` the buffers
whose write-back is outstanding.  A CPU0 context goes through `TopupHit` or
`ReleaseHit` (counter and threshold), `TryLock` (`atomic_dec_and_test`), the
loop of `mps_topup_q_list` (`TopupCount`, `TopupAlloc` or `TopupNoMem`,
`TopupSet`, `TopupPublish`, `TopupFlush`, `TopupDone`) or of `mps_queue_free`
(`ReleaseSnap`, `ReleaseFree`, `ReleaseDone`), and `Unlock` (`lbl_ret_ok`, which
winners and losers both pass).  A CPU1 context allocates (`AllocCheck`,
`AllocTake`, `AllocAdvance`, `AllocInv`) and frees (`FreeCheck`, `FreePut`,
`FreePublish`); `MayRun` keeps other contexts of CPU1 out while interrupts are
off.  `SendUp` and `SendDown` are buffers that travel as data messages.  CPU1 tests a
queue before it turns interrupts off and does not test it again; `overrun` is a
history variable that says a queue was used although another context of CPU1 had
emptied or filled it since the test.

Abstractions: the increment and test of a hit counter are one step, as the
counter only paces the work; each step is one access to shared memory.  The
queues of the malloc pool run the same queue code with another `free_fn`.

### MpsFifo (one FIFO) and MpsChannel

`mem` holds the words as a reader would see them if it took them for `val1`:
the two flags, the length, and which message they came from.  `Send` is the
front half of `ifx_mpsdrv_mbx_send`; `Entry` to `Clear` are the accesses of
`ifx_mpsdrv_fifo_write` in order; `Raise` is the interrupt.  `Isr`, `Poll`,
`Poll0`, `Read`, `Fetch` or `NoMem`, `Release`, `Step` are the handler's loop.
`Rcv` and `RcvFetch`
are `ifx_mpsdrv_mbx_rcv`, which a process calls; `Reset` is `ifx_mpsdrv_reset`,
which stops CPU1 wherever it is and sets the indices to 0, but leaves every header
as it was.  All four FIFOs use this code.  Both cores may be inside it at any time.
`fifo_data` looks at the FIFO through the view `Shape`, which forgets which message a
word came from: no step depends on that.

Neither core can see how far the other is with a message.  The history variable
`race` says that one has met the other where that matters:

- `Unfinished`: the reader copies a message whose header is there and whose body is not;
- `Uncleared`: the reader looks at the header behind the last message before the writer
  has cleared it, and what is left there looks like a message or a wrap marker;
- `HalfReleased`: in a full FIFO, with both indices at the same place, the writer finds
  the ready bit there cleared and the read index not moved, and takes the FIFO for empty;
- `InUse`: the FIFO is reset while a message is being written or read, or waits in it.

Every other meeting is harmless, which `IsChannel` shows; and all four are needed: if
any one is not counted as a race, TLC finds that `IsChannel` fails.

### MpsMailbox (receive path)

One mailbox of one core.  The FIFO is a sequence here.  Handler, tasklet and
process share a processor, so `GotoT` needs the handler to be idle and `GotoP`
both.  The handler's loop body is one step, since nothing on its core interrupts
it and the sender only appends.  The map names the upstream data mailbox for some
actions and another of the four copies of the code for others; they differ only
in the names of the FIFO, ring and tasklet.

### MpsRpc (remote calls)

`slot` and `flag` are `mps_cmd_control.msg_data` and `cmd_callback_flag`; a reply
is named after the call it answers, which the code's replies do not carry.  The
caller's steps are those of `ifx_mps_get_version`, `ifx_mps_skbuff_alloc`,
`ifx_mps_app_buff_kmalloc` and `ifx_mps_datalist_alloc`, which are the same
text.  Any number of processes call.  `MayRun` is external: a 2.4 kernel does not preempt
a process inside the kernel.  `Store` runs in the tasklet and may come between any two steps.

What two calls can do to each other is in history variables: `joined` are the calls
that were in progress together, `late` those that began with a reply to an earlier
call still to come, or come after it had returned (`stray`), `lost` those whose command or reply was
not sent, `troubled` those that got a signal or the reply 0.

### MpsStats (statistics and ready bits)

`status` is `MPS_CP0_STATUS`, `size` is `MPS_BOOT_SIZE`.  A value of `size` is
nothing, ready bits under the fingerprint `0x4F6B`, or an address; a kernel
address is in `0x80000000..0xBFFFFFFF` and cannot show the fingerprint.
`App` is an
application that writes `/proc/driver/ifx_mps/mps1_apps_ready`.  `IsrEnter` ...
`IsrExit` are the accesses of `ifx_mpsdrv_cmd1_irq`, `Command` any other cause of the
same interrupt, at any point of a request.  CPU0's callers are taken to be one process,
as the code has no exclusion between two of them.

### DmaCore (DMA core and Ethernet driver)

`own` and `buf` are the OWN and C bits and the data pointers of the descriptors,
`curr` and `prev` the two positions of a channel, `hw` the engine's.  `dma_interrupt`
notes the channel and masks its line; `RunTasklet`, `Choose`, `NewWeights`,
`LoopEnd`, `OutOfBudget` and `Finish` are the loop of `do_dma_tasklet`;
`rx_chan_intr_handler`, `Replace` or `NoMemory` (`dma_device_read` under the driver's
`dma_rx_int_handler`), `RxAcknowledge` and `RxForget` one visit to a receive channel;
`tx_chan_intr_handler` and `TransmitComplete` one to a transmit channel.
`eth0_xmit`, `Reclaim`, `ReclaimEnd`, `Refuse` or `Put`, and `WriteEnd` are a
transmission, with interrupts off.  `eth_open`, `eth_stop`, `dma_device_register` and
`dma_device_unregister` come at any time while nothing else runs on the CPU.

External assumptions: the engine latches an event when it finishes a descriptor; the
line is raised while an event is latched, enabled in `CIE` and not masked in the
interrupt controller; resetting a channel clears its events and its position.  One
CPU, no preemption, without `CONFIG_NET_HW_FLOWCONTROL`, with
`ENABLE_DANUBE_ETHERNET_D2`.

### MeiCmv (DSL modem interface)

A step of `meiCMV` is one access to the state it shares with the handler: the flag
and the mailbox (`CmvArm`), the bit that tells the ARC (`CmvRaise`), the poll for the
ARC's taking it (`CmvPoll`), the wait (`CmvQueue`, `CmvWake`), the test after it
(`CmvTest`), the two stores after a timeout (`CmvExpire`, `CmvClear`), the store and
the copy after a reply (`CmvTake`, `CmvCopy`).  `count` and `waking` are the fields of
the 2.4 MIPS semaphore without `lld`/`scd`, as configured; `DownSignal` is its way
out on a signal.  `stranded` are sleepers that a `sema_init` has cut off.

Messages are not numbered by the code, and the model needs only their age: the reply
to the newest request is `"new"`, everything older and every indicator but
`MODEM_READY` is `"old"`.  This keeps the state space finite without any bound.
Six history variables say why a property may no longer hold: `late` (a request was
given up, or a message came that is not the reply), `spoiled` (a mailbox write failed,
or two requests overlapped), `failed` (a mailbox write failed, and no request has timed
out since), `intruded` (a request was under way while the ARC booted), `disturbed` (a
`sema_init` met a user of `mei_sema`), and `boot` (a start left the semaphore taken).
A reset of the ARC with no request under way clears `late`, a timeout clears `failed`,
a reset or a new start `boot` and `intruded`; nothing clears the others.

A call is a session (under `mei_sema`), a bypass (requests without it), a halt or a
write of the image.  The driver is not in the configuration that is checked in but can
be selected (`drivers/char/Config.in`).

## Runs

| Run | Shows |
|---|---|
| `pool_safety` | two contexts on each core, queues of two, three buffers, no threshold (it is one in `pool_live`): types and index ranges, exclusion by the counter; no buffer shared and none lost up to an overrun; `FlushedBeforeFreed`: no buffer is freed while its write-back is outstanding, although CPU1 can have it back in `free_q` by then |
| `pool_live` | `FreedEventually`: every buffer CPU1 returned is freed by CPU0's timer (one context on CPU0) |
| `fifo_channel` | `IsChannel`: with both cores inside the code the FIFO implements a channel that loses nothing, across wraps, failed wraps and resets, and with a process that reads too (a torn message counts as lost); `Delivered`: what it accepts is read; both up to a race, and memory is never short |
| `fifo_data` | `IndicesInFifo` through every race, with memory short and resets at any time, for data messages (four words) |
| `fifo_torn` (violation) | the reader sees a ready header before the body is there |
| `mbx` | `AccountedOnce`: each message is in one place; `IsLossyChannel`: the callback sees the order of sending; `NullOnlyUnregistering`: registering exposes no NULL; `Settles`: no lost wake-up.  `kmalloc` may fail and callbacks come and go |
| `rpc` | two callers, failures, signals and late replies: `OwnReply`: a call that is neither `joined` nor `late` returns its own reply, whatever went before; `ReplyOnce`: only joined calls return one reply twice; `CallReturns`: only a lost message or another call leaves a call waiting |
| `stats` | requests, commands and ready bits: `AnswersRequest` for requests that no application disturbs, `NoFalseReady`, and `RequestReturns`: CPU0's polling loop ends |
| `dma_live` | one device that stays open: `RunIsDue`: the flag and the scheduled tasklet agree; `NoLostPacketEvent`: a packet is noted or raises its interrupt; `NotedIsServed`, `PacketIsRead`, `QueueWakes`: nothing noted starves, no packet waits for the next one, a stopped queue wakes without the watchdog |
| `dma_stop` | two devices, stop and unregister at any time: `RxRingInOrder` and `TxRingInOrder`: the positions cut the rings as they should; `BuffersAccounted`: no buffer leaks or is freed twice; `EngineOwnsLive`: the engine never works on freed memory; `ClosedIsQuiet`: with the last device stopped, no receive channel is noted or served, whatever was scheduled |
| `dma_stall` (violation) | after reads without memory a receive ring is dead |
| `mei` | `OneCmv`: sessions exclude each other in `meiCMV`; `ClosedWhileBooting`: none is there while the ARC boots; `NoStaleFlag`: no flag stays set between requests, even if they overlap; `OwnReply`: a request returns its reply; `ReadyOpens`: `MODEM_READY` opens what the start has closed |

### What the limits mean

- `NoBufferShared` and `NoBufferLost` end with the first overrun: two contexts of CPU1
  both pass the empty test before either takes the last buffer, and the second gets
  the marker `0xEEEEEEEE`; or both pass the full test, and the second makes a full
  queue look empty.  CPU1 does have two: its interrupt handler frees a buffer when the
  receive ring is full (`mps_dev_kfree_skb_any`), and drivers allocate in processes
  and tasklets.  Nothing else breaks them, and with one context there is no overrun
  (`StaleNeedsTwo`).
- `mps_topup_q_list` publishes a buffer before it writes it back, so CPU1 can allocate
  it with the write-back outstanding; no property denies that.  What the code keeps,
  through the book-keeping counter, is that CPU0 does not free it before
  (`FlushedBeforeFreed`).
- `IsChannel` and `Delivered` of the FIFO end with the first race, where the protocol
  itself is at fault: a message is read before it is copied (`fifo_torn`); an old
  header is read as a message, or the writer clears a header that `fifo_not_empty` has
  just found ready, so that `fifo_read` returns NULL and the handler dereferences it
  (`Read` reaches `rpc = "null"`); an unread message is overwritten; after a reset an
  old message is read again.  `IndicesInFifo` does not end there.  The mailbox model
  above it assumes a FIFO that works.
- `Rcv` has no interrupt of its own core between its steps, and no property says
  anything about one.  `ifx_mpsdrv_mbx_rcv` itself leaves
  interrupts on: a handler that reads the same FIFO between its test and its
  `read_ptr_inc` makes it skip a message, and the read index can leave the FIFO.
  `ifx_mps_data_rcv` turns interrupts off, but its `memset(&rw, 0, ...)` zeroes
  the pointer it was given.
- `Delivered` needs memory: a handler whose `kmalloc` fails leaves the loop with the
  interrupt acknowledged, and the message waits for the next one.  `MpsMailbox` has
  that failure: `left` records those messages, and `Settles` promises nothing of
  them.  Nor does it once the tasklet has called NULL.
- `FreedEventually` is about the timer alone.  With a second context on CPU0
  fairness does not help: each of the two can find the counter taken by the
  other every time it tries.
- A signal that ends a wait leaves the reply under way, and the next call can return
  that reply, leaving its own to the one after it.  `OwnReply` excepts these calls
  (`late`); it holds again for the first call that begins with no older reply to come.
- Calls in progress together share the slot and the flag: one can clear the reply of
  the other, return it, or consume the flag the other waits for, which then waits for
  ever.  All three properties except them (`joined`).  `CallReturns` also excepts the
  calls whose own message was `lost`, as the wait has no timeout.
- A ready bit written during a request overwrites the answer, so CPU0 returns the
  fingerprint and the bits as the pointer; `undisturbed` excludes such requests
  from `AnswersRequest`.  The reverse happens too: a request overwrites the ready
  bits, and `NoFalseReady` is only one half of what a reader of them would like.
- `IndicesInFifo` is about data messages, which all have four
  words.  A reader whose header is cleared under it may step into a message's
  body and take `msg_buf_len` for a header.  `PacketBits` gives the values such a
  word can have for packets (shorter than 16 KB: no flag set, any low byte).  For
  a buffer of 32 KB or more the word could look ready, and the index could
  leave the FIFO.
- `RxRingInOrder` and the liveness of the rings except rings that a short
  registration left (`Short`), and what follows a read without memory (`Starved`),
  where their definitions say so.  Registration stops at the first buffer it cannot
  get and still reports success; the descriptors behind it stay as they are.  In a
  ring that was never used these are empty, and `EngineOwnsLive` and
  `BuffersAccounted` hold; but a descriptor of the CPU without the C bit keeps the
  tasklet at this channel while lighter ones wait.  In a ring that was registered
  before (`Stale`), they are the engine's and point to freed memory, and both
  properties fail; the model registers nothing again after that (a bound).
- `NoLostPacketEvent` is about devices that stay open (`MayStop` false).  Closing and
  opening a channel after its event was acknowledged leaves the packets in it to the
  next event.
- `ClosedIsQuiet` is about receive channels, whose notes `disable_ch_irq` removes.
  A transmit channel that is noted when the DMA is unregistered calls the driver with
  a device pointer that is NULL; the model stops there (`pc = "oops"`).
- In the build with the packet processor the second device's transmissions go to
  channel 0, and its queue is never stopped; a queue that wakes to a full ring drops
  the packet (`Refuse`).
- A mailbox write that fails leaves `cmv_waiting` set.  What follows: the next message
  is taken for a reply that nobody waits for, the next request finds `arcmsgav` set and
  returns at once with that message, and so does each one after it; if the next message
  is `MODEM_READY`, the semaphore is not released.  A request that times out clears both
  flags and ends this.  `NoStaleFlag` and `ReadyOpens` except the time in between
  (`failed`), `OwnReply` all that follows (`spoiled`).  A reset of an ARC that does not
  run gets there: `mei_mib_adsl_link_down` makes a request first.
- The calls that bypass `mei_sema` can have a request under way while the ARC boots.
  The handler then takes `MODEM_READY` for its reply and does not release the semaphore:
  `ReadyOpens` excepts these starts (`intruded`), and no others because of a request.
- Requests that overlap, again through a bypass, can take each other's replies:
  `OwnReply` ends there (`spoiled`), `NoStaleFlag` does not.
- A start without a reset before it runs `sema_init` itself, after its own `down`:
  the semaphore is open while the ARC boots and counts to 2 afterwards.  `OneCmv` and
  `ClosedWhileBooting` end with such a `sema_init` (`disturbed`).  A start that fails
  keeps the semaphore (`StartFails`); only a reset helps.
- `OwnReply` ends with the first request that times out, up to the next reset
  (`late`): its reply may come while the next request waits.  An indicator that comes
  while a request waits does the same.
- Deadlock checking is off in the FIFO, mailbox and call models, whose bounds on
  messages and calls end every behaviour, and in the DMA model, where a call through
  NULL does.

### Bounds

Queues of one or two slots fill, empty and wrap within a few steps, and the code
treats positions alike but for the wrap.  Three buffers leave one outside both
queues.  A FIFO of 12 or 16 words wraps after two or three messages, and `MaxMsgs`
of 4 or 6 passes the wrap; lengths 2, 3, 4 and 6 reach both sides of every
comparison with the margin.  Rings of two slots overflow with a FIFO of three
messages, and four messages pass the ring's wrap.  Three requests, two with and one
without an answer, and two ready bits tell all values of the registers apart.
`MaxCalls` of 3 for two callers with a FIFO of two leaves a late reply and a lost
command under way while a third call begins.  `BeforeOverrun` and `BeforeRace` stop the
exploration of `pool_safety` and `fifo_channel` where `overrun` or `race` is set: neither
is ever reset, and every property of these runs that speaks of what follows holds
trivially from there (the others of the pool are proved without the bound).

Rings of two descriptors are full, empty and half full; the weights and the budget of
1 or 2 run out within one visit; a receive and a transmit channel compete for the tasklet.  `mei` has no bound but two processes, which have all calls
between them.

### Fairness

- Pool: `mps_timer_handler` re-arms itself and calls both routines at every tick,
  hence strong fairness of `TopupHit` and `ReleaseHit` (the context is busy with
  the other in between); what is begun ends.
- FIFO and mailbox: a core finishes its routine; a pending interrupt is taken; a
  scheduled tasklet runs.  Strong fairness of `Fetch` says that `kmalloc` does
  not fail for ever.
- Calls: a runnable process runs, each core serves its command mailbox.
- Statistics: CPU0 polls on, CPU1 takes its interrupts.
- DMA: the engine sends what it was given; the CPU ends what it has begun.  Strong
  fairness of `dma_interrupt` and `RunTasklet`: transmissions turn interrupts off
  only for their length, and a scheduled tasklet runs at the latest from ksoftirqd.
  The engine need not receive anything.
- Modem: a pending interrupt is taken, and an ARC that boots reports it.  No process
  need make progress.

## Proofs

All theorems hold for every value of the constants that satisfies the named
`ASSUME`s.

- `MpsBuffPoolProofs`.  `TypeCorrect` needs `TypeInv`, which adds to `TypeOK` that
  the local copies of indices are in range in the program points that use them.
  `MutualExclusion` needs `LockInv`: the counter is 1 minus the number of contexts
  between decrement and increment (`Busy`), losers included, so a context that
  sees zero was alone; this uses that `Ctx0` is finite.  `NoSharing` and `NoLeak`, for
  any contexts, rest on `PoolInv`, which holds until an overrun (`UntilOverrun`): CPU0's
  count of `alloc_q` is never smaller than the real one (`TopupOK`), its copies of the
  indices of `free_q` lie between `fR` and `fW` (`ReleaseOK`), and what CPU1 holds with
  interrupts off is its own (`Cpu1OK`).  `StaleNeedsTwo` adds to it that with one context
  what CPU1 tested is still true when it acts, since only the other core has moved an
  index since, and in the harmless direction.  `CleanWhenFreed` (`FlushedBeforeFreed`)
  combines that only a buffer in the hands of a top-up between publication and flush is
  dirty (`FlushFollows`) with the exclusion of top-up and release.
- `MpsFifoProofs`, first part: the refinement, up to a race.  Nothing is assumed;
  sizes, lengths and numbers of messages are arbitrary.  `ChannelInv` says
  where the unread messages are: in one piece between the indices, or in two, the
  first ending in a wrap marker and the second starting at 0 (`OnePiece`,
  `TwoPieces`; a `Chain` gives the place of every message).  Every message in a piece
  has its ready bit, its length and its own words, and the header behind the last one
  is clear (`EndClear`), or, at offset 0, not ready, which is what stops the reader.
  This is needed because the code keeps no count: that a message is there can only be
  seen from its header, so the invariant must tell old words from new ones.  With both
  cores in the code that layout does not hold of the words as they are: the reader
  clears a ready bit before it moves its index, the writer sets one before the body is
  there and moves its index before the next header is clear.  It is stated of `Ideal`,
  the words as if these half-done steps were not begun or were done.  `Phase` says what
  the writer may rely on at each of its steps (`Fits`: the room it has found is still
  there; `Turning`: between marker and jump, when the reader may have jumped already),
  `WriterInv` and `ReaderInv` what each core has found out.  `LayoutInvariant` proves it;
  `FifoIsChannel` (`IsChannel`), `NothingTorn`, `NeverNull` (`fifo_read` does not return
  NULL to the handler), `ChannelIndices` and `FifoTypes` follow.
- `MpsFifoProofs`, second part: the data FIFO through every race.  Assumes `DataFifo`: all
  messages have four words, and `msg_buf_len` never looks like a header that is ready
  (as for packets, see `PacketBits`).  Nothing is assumed about races, memory or resets.
  The layout above does not survive there, but alignment does (`DataInv`):
  the writer is always at a multiple of four with a margin behind it, a ready word,
  old ones included, is the header of such a place, and a header has the length 4 or,
  cleared, 2.  So the reader advances only from a header, by 2 or 4: it may stop in
  the middle of a message, where nothing is ready, but not outside the FIFO.
  `DataIndices` (`IndicesInFifo`) and `DataFifoTypes` follow from
  `AlignmentInvariant`.
- `MpsRpcProofs`, for any number of callers and calls, with failures and signals.
  `OwnReplyWhenAlone` (`OwnReply`) rests on `CallInv`: when a call that is neither
  `joined` nor `late` begins, nothing is under way (`Quiet`) and the flag is down, and
  from then on all that is under way, and what is in the slot, is its own (`Place`).
  That the flag is down needs `FlagInv`: a set flag has a call that will reset it, or
  its reply was `stray`; a call that begins after that is `late`.  `RepliesOnce`
  (`ReplyOnce`) rests on `NumberInv`: a reply under way was never taken (`Once`), and a
  reply that is still in the slot after it was taken can only be seen by a call that
  was in progress together with its taker, as each call clears the slot (`Takers`).
- `MpsStatsProofs`.  `ReadySound` needs that what the application read before the
  interrupt handler ran is either no ready bits or bits that were set (`ReadyInv`);
  `StatsAnswered` follows the answer to an undisturbed request from the handler
  through the register to CPU0 (`AnswerInv`).

- `MpsMailboxProofs`.  `ReceivePathIsChannel` proves the refinement of the lossy
  channel: `OrderInv` says that messages are numbered as sent (`Numbered`), that the
  ring holds them in order (`RingInOrder`), that the one in the tasklet's hands
  comes before those (`HandInOrder`), and that what is gone is behind (`Gone`).
  `AlwaysAccounted` shows that each message sits in one place (`Sits`).
  `NullOnlyThere` rests on `Callbacks`, which relates the two tables.
- `DmaCoreProofs`.  `TypeCorrect` needs `Locals`: which channel the tasklet and
  `dma_device_write` are at in each of their program points.  `EngineAlwaysOwnsLive`
  rests on `RingInv`: a channel is on only while registered (`Registered`), the
  tasklet reads only a packet (`ReadsPacket`), and a registered ring is filled
  (`Filled`).  `BuffersAlwaysAccounted` counts the live descriptors (`Live`), one
  more or less for each step.  `NoPacketEventLost` rests on `EventInv`: an open
  channel is noted or unmasked (`Watched`), it is unmasked before the descriptor is
  looked at again (`EnabledFirst`), and a closed ring holds no packet
  (`ClosedEmpty`).  `ClosedAlwaysQuiet` rests on `ClosedInv`: with no device open
  the receive channels are off, and what is still latched of them is not enabled.
  `RxRingsInOrder` and `TxRingsInOrder` state the cut of a ring by
  distances from its positions, for every ring size.
- `MeiCmvProofs`.  `FlagsDown` (`NoStaleFlag`) rests on `StaleInv`: until a write fails,
  a flag that is set belongs to a request that is under way, two flags to two requests,
  and what a request leaves set when it ends belongs to another one; so overlaps are
  included.  `RepliesOwned` (`OwnReply`) needs `FlagInv`: one request at a time unless
  spoiled, never both flags, and `cmv_waiting` down once the wait has ended; it adds that
  a set `arcmsgav` and a process about to copy have the newest reply in `CMV_RxMsg`
  (`ReplyInv`), which needs that one process runs at a time (`OneRuns`).
  `CmvExclusive` rests on `SemInv`: the semaphore has one owner, a
  process or the ARC that boots, `count` is 1 or 0 less the number of sleepers, and
  `waking` is at most 1 and only while nobody has the semaphore; the ARC reports once
  for each start (`ReadyOnce`, `ResetQuiet`).  Signals are included.
  `ClosedUntilReady` (`ClosedWhileBooting`) follows from it too.

Only model-checked: liveness (`FreedEventually`, `Delivered`, `Settles`,
`CallReturns`, `RequestReturns`, `NotedIsServed`, `PacketIsRead`, `QueueWakes`,
`ReadyOpens`), as fairness is out of the prover's reach.  Every invariant, the action
property and both refinements that a passing run checks are proved.

## Findings

Two violation runs quote a comment of the code that the code does not keep:
`fifo_torn` (a message is visible before it is copied) and `dma_stall` (a read
without memory does not replace the buffer, and the ring stalls).  `PROJECT.json`
has the lines.

Others came up while modelling and are described under "What the limits mean" or
here: two contexts of CPU1 that allocate the last buffer; a buffer published before
its write-back; a tasklet that calls NULL while a callback is being unregistered
(`mps_tpe_linux.c` 2499); one reply slot for all callers, so that a second caller
clears the first one's reply (`mps_tpe_linux.c` 451) and that call returns 0
although "if return 0, some error occurred" (467); short registrations; the flag a
failed mailbox write leaves; the semaphore a start opens again.

## Not modelled

- Of the MPS driver: open, close and ioctl (flags and dispatch), restart of CPU1
  (boot registers), module load and unload; creation of the pool while CPU1 runs,
  the choice of the size class, the malloc pool (the same queue code); the composition
  of remote calls with the pool, that is, whose buffer a late or lost reply names.
- Of the DMA core: `memcopy.c` and the crypto engine as further users of it, and the
  flow-control variant, which is not built.
- Of the modem interface: `DANUBE_MEI_RUN`, `DANUBE_MEI_REMOTE` and
  `DANUBE_MEI_DOWNLOAD`, clear-EOC, dying gasp, HDLC, LEDs, code-swap requests (the
  handler ignores them), MIB counters, unloading.  Two faults seen in
  that code: a 16-bit counter that wraps (`danube_mei_mib.c` 3606) and a retry
  counter that is never increased (`danube_mei_core.c` 1269).
- Code that is not built (`mps_device.c`, `mps_linux.c`, the kernel-thread path),
  straight-line register access, drivers whose protocol lives in firmware that the
  repository does not hold, and the open source that makes up almost all of the
  repository: the kernel, its drivers and busybox are not this system's own logic.

Next steps, in order: `MpsRpc` composed with the pool; the pool's creation; the DMA
core's other users.
