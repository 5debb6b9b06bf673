# Verification of arteryCmake

arteryCmake is firmware for an AT32F437 board: FreeRTOS, lwIP with a port for
the on-chip Ethernet MAC (EMAC), a small telnet server, a USART library that
sends through the EDMA, and the newlib stubs. This directory holds TLA+ models
of the parts that have a logic of their own, the TLC runs that check them and
proofs that TLAPS checks.

Paths below are relative to the repository: *ethernetif.c* is
`ExternLibOpts/lwipSetting/port/ethernetif.c`; *netconf.c*, *at32_emac.c* and
*telnet.c* are in `ExternLibOpts/lwipSetting/hEmac/`; *hUsart.c* is in
`intLib/SysComponets/hUsart/`.

## Inventory

| Component | State it keeps | Operations | Hard because |
|---|---|---|---|
| Start-up (main.c, clock.c, at32_emac.c, netconf.c) | what is configured | `main`, `system_clock_config`, `emac_system_init`, `tcpip_stack_init`, `helloworld_init` | waits without a bound, a PHY reset that may time out, retries that reset what was configured, an interrupt that is enabled before its handler's data exist |
| Tasks (main.c) | the LED | `hNetHelloThread`, `LedToggleThread` | one priority, and one of them busy-waits |
| Receive driver (ethernetif.c) | ring `DMARxDscrTab`, `dma_rx_desc_to_get`, `rx_frame` | `emac_rxpkt_chainmode`, `low_level_input`, `ethernetif_input` | shares the ring with a DMA that runs on its own; frames over several descriptors; out of descriptors; no pbuf |
| Transmit driver (ethernetif.c) | ring `DMATxDscrTab`, `dma_tx_desc_to_set` | `low_level_output`, `emac_txpkt_chainmode` | the same, and a ring too full for a packet |
| Contexts (main.c, netconf.c) | none of their own | `hNetHelloThread`, `EMAC_IRQHandler` | both call the receive driver and, through lwIP, the transmit driver |
| Periodic processes (netconf.c) | `local_time`, `tcp_timer`, `arp_timer`, `link_timer` | `time_update` from the TMR6 interrupt, `lwip_periodic_handle` | time wraps; rounds are late |
| Link supervision (at32_emac.c) | link flag of the netif, MAC mode, MAC on or off | `emac_system_init`, `ethernetif_set_link`, `ethernetif_update_config`, `emac_speed_config` | the cable changes at any moment, reads of the PHY fail |
| Telnet server (telnet.c) | a `struct name` per connection, on lwIP's heap | `helloworld_accept`, `_recv`, `_conn_err` | order of lwIP's callbacks, memory that is freed by two of them, lines in pieces |
| USART library (hUsart.c) | descriptor table `EdmaDescriptors`, static `count` | init, add descriptor, start, interrupt of the EDMA | a chain that the EDMA follows on its own; `count` is shared and has no bound; `_write` uses the same data register |
| newlib stubs (newLibs.c) | `heap_end`, `MemRegs` | `_sbrk`, `_write` | limits and the wrap of addresses |
| FreeRTOS and lwIP configuration, build files, board tests | | | nothing: constants; the tests have no assertions |

How they interact: `main` configures the clocks, creates the two tasks and
starts the scheduler. `hNetHelloThread` sets everything up, beginning again as
long as `emac_system_init` fails, and starts the MAC inside `netif_add`,
before it has gone on to the link callback and the telnet server.
`UsartHelloThread`, which *main.c* keeps commented out, prints through
`_write` and sends through the EDMA, both into the data register of one USART.
The EMAC DMA raises `EMAC_IRQHandler` when a frame is complete; the handler
calls `lwip_pkt_handle` -> `ethernetif_input` while
`emac_received_packet_size_get` finds a frame. `hNetHelloThread` also calls
`lwip_pkt_handle`, once per round, then `lwip_periodic_handle(local_time)`,
and sleeps for a second. Both contexts thus run lwIP, which calls
`low_level_output` to send and the telnet callbacks. TMR6's interrupt only
adds to `local_time`. `lwip_periodic_handle` calls `ethernetif_set_link`,
which through lwIP's link callback calls `ethernetif_update_config`.

What makes each correct:

* Start-up: nothing is used before it is set up, by whatever number of
  attempts; a network thread that hangs does not stop the LED.
* Receive driver: it reads and gives back only descriptors that it owns; its
  cursor stays with the DMA's; frames come out whole, once and in order; no
  frame is stuck; a DMA that stopped for want of descriptors is restarted.
* Transmit driver: the same in the other direction; both of its ways to count
  buffers agree; and ERR_OK is true.
* Contexts: one call of the driver does not disturb another.
* Periodic processes: none is overdue after a round and none runs early.
* Link: netif and MAC follow the PHY, and the MAC works in the PHY's mode.
* Telnet: a name belongs to one connection and is given back with it; the
  reply is what was typed.
* USART: the EDMA sends what was added, in order, and no byte is overwritten
  in the data register. `_sbrk`: blocks are disjoint and inside the heap, also
  after calls that failed.

## Modules

| Module | Models |
|---|---|
| `DescRing` | the chained ring: indices, successor, distance |
| `FrameFifo` | abstract specification: frames go in, come out whole, once, in order; the oldest may be lost if `Lossy` |
| `EmacRx` | receive driver and DMA, one call of the driver at a time |
| `RxContexts` | `EmacRx` in thread and interrupt, which share the globals and have locals of their own |
| `EmacTx` | transmit driver and DMA, one call at a time |
| `TxContexts` | `EmacTx` in thread and interrupt |
| `NetTimers` | `time_update` and `lwip_periodic_handle` |
| `LinkMonitor` | link supervision against cable, PHY and MDIO bus |
| `Boot` | the whole firmware around `LinkMonitor`: clocks, scheduler, both tasks, set-up |
| `Telnet` | the server's callbacks, connections and heap |
| `UsartEdma` | the table of EDMA descriptors and the chains in it |
| `Sbrk` | `_sbrk` over the heap |
| `HelloThread` | `UsartHelloThread` over `UsartEdma`, `Sbrk`, `_write` and the USART |
| `DescRingProofs` | lemmas about the ring |
| `EmacRxProofs`, `RxContextsProofs`, `EmacTxProofs`, `NetTimersProofs`, `TelnetProofs` | the theorems about these |
| `BootProofs` | the theorems about `LinkMonitor` and `Boot` |
| `HelloThreadProofs` | the theorems about `UsartEdma`, `Sbrk` and `HelloThread` |
| `MCEmacRx`, `MCTelnet` | instances for TLC |

Operators whose comment begins with "Fault:" are not part of any
specification. Each is the operator below it with a plausible mistake, kept to
show that a property notices it.

### EmacRx

The state is the code's: OWN bits (`own`), buffers with their FS and LS bits
(`seg`), `dma_rx_desc_to_get`, `rx_frame.rx_fs_desc`, `rx_frame.g_seg_count`
and the locals of the call (`ptr` is `dma_rx_desc`, `index`, `p`), with a
program counter `pc`. A frame is a sequence of segments, one per descriptor; a
segment carries the frame's number, its place and the frame's length, which is
what the properties need of the bytes. Every access to something that the DMA
shares is an action of its own: reading OWN (`CheckOwn`), reading LS and FS
and moving the cursor (`TakeLast`, `TakeFirst`, `TakeMiddle`), copying a
buffer (`CopyBuffer`), setting an OWN bit (`ReleaseDesc`), clearing RBU
(`CheckRbu`), restarting the DMA (`PollDemand`). `emac_rxpkt_chainmode` takes
at most one descriptor per call, and so does the model.

The DMA is external. It writes a descriptor back and moves on in one step
(`DmaStoreFirst`, `DmaStoreNext`), suspends with RBU when it does not own its
descriptor (`DmaSuspend`), keeps the rest of a frame meanwhile
(`flush_rx_disable`, at32_emac.c:248) and looks again at a poll demand or, for
a new frame, when that arrives. Looking at the descriptor and setting RBU are
one step. That frames may be lost in the MAC before they reach the ring is not
modelled.

`AllocFail` stands for `pbuf_alloc` returning NULL and for a frame of length
0. What happens to the pbuf after `netif->input` is lwIP's.

### RxContexts and TxContexts

Both instantiate the driver twice, with the shared variables in common and
`pc` and locals substituted. `Preemptible = TRUE` is the firmware: the
interrupt may begin between any two steps of the thread's call, and the thread
waits until it returns. Nothing in the code prevents this (no lock, no
critical section, and the interrupt's priority is above the kernel's).
`Preemptible = FALSE` holds the interrupt off during the thread's call, as
lwIP asks of a port. `IrqLoop` is the `while` of `EMAC_IRQHandler`: it only
sees frames in one descriptor. `IrqClear` clears the request after the loop.

### EmacTx

As `EmacRx`, but byte by byte: `own`, `buf` (the bytes of `Tx_Buff`) and
`ctrl` (FS, LS and size) are the ring. lwIP hands over a packet of any length
in any split into pbufs, which the model chooses as it goes (`Output`,
`CopyRest`). `CheckOwn`, `CopyFill`, `CheckOwnNext` and `CopyRest` are the
copy loop of `low_level_output`, with its four counters in `copy`;
`ChainCheck` and `Publish` the chaining, which counts the buffers anew
(`BufCount`). TBU is looked at twice as in the code ("resume" and "out").
`accepted` and `okd` remember the packets that went into the ring, in order,
and the numbers of those for which ERR_OK was returned. A packet longer than a
buffer is possible only in the model: lwIP keeps to the netif's MTU of 1500,
for which one buffer is enough. What the runs and proofs say about several
buffers (`CountsAgree` above all) is about the code as it is written and not
about a case that this firmware can meet.

### NetTimers

Time is counted in ticks of the timer interrupt and wraps at `Wrap`. `since`
and `passed` hold the true time that the code cannot see. A round may take,
and be late by, `Slack` ticks.
The delay between two rounds (a second in *main.c*) is longer than two of the
intervals: the TCP process and the link detection run once per round, not
every 250 and 500 ms as netconf.c:171 and :200 say, and `NoneOverdue` is what
is left of that promise.

### LinkMonitor

`hNetHelloThread` is at `pc`: starting up, idle between polls, or inside
`emac_speed_config`. The PHY's status bit latches low (IEEE 802.3); this is an
assumption about the part. Another: a PHY that was reset has no link until it
has negotiated one. `SystemInitFails` is every way in which
`emac_phy_register_reset` returns ERROR: a failed access, before or behind the
reset of the PHY, or, with MDIO working, a reset bit that is not clear within
PHY_TIMEOUT reads or only in the last of them. `GiveUp` is every way to `return
ERROR`: a failed access, or a loop that reached PHY_TIMEOUT, which the code
also reports if the last read succeeded. A mode stands for speed and duplex.
After an error the MAC runs in its old mode until the link is lost again
(`conf` = "error"), which the run `link_error` shows (`ModeIsUpdated`);
`StaleModeIsNoticed` and `LinkComesUp` say what holds otherwise.

### Boot

`Boot` extends `LinkMonitor`; its actions are conjunctions of a step of the
link supervision with the state of the set-up (`at`, `done`), or leave the
link alone. `done` holds what is configured, as far as something else relies
on it; `emac_reset` takes some of it back, and so each attempt of
`emac_system_init` begins anew. `settled` is the answer of the hardware to a
loop that polls without a bound: crystal, PLL, clock switch-over, and the
DMA's software reset, which needs the PHY's clock. `run` and `ready` are
FreeRTOS: `Tick` switches between ready tasks, `Wake` ends a `vTaskDelay`. A
step of a task needs the CPU, so a task in a busy loop keeps the other waiting
until the next tick. `PhyFails` leaves out the rest of
`emac_layer2_configuration`, and `TmrInit` then begins again. Creating tasks
is taken to succeed, and so is `netif_add`.

### Telnet

lwIP calls the callbacks one at a time, so each is one action. `Blocks` is the
room in the heap. `AcceptNoPcb` is lwIP's call with a NULL pcb, of which
`helloworld_accept` takes no notice; it leaks a block, which `leaked`
remembers. `RecvNoName` is the return of ERR_ARG, after which lwIP holds
refused data. `Write` is the `tcp_write` of the name, which may fail
unnoticed; those of the fixed texts and `tcp_close` are taken to succeed.
`ResetsAfterClose` says whether a connection that was closed can still fail,
as it can with lwIP.

### UsartEdma

`table` is `EdmaDescriptors` of the build with `STATIC_MEM` = 1, its slots
numbered through the rows; `count` is the static variable of
`hUsartEdmaAddDescriptors`. The EDMA is external (`Transfer`): it follows a
stream's chain from the slot that `hUsartEdmaInit` gave it and stops at a
descriptor that is still zero, and every start sends the chain from its head.
Both are assumptions about the part. Descriptors are added before
`hUsartEdmaInit` of their stream, as its comment asks (hUsart.c:331). As in
the code nothing bounds their number but `MaxAdds`, the bound of the model:
`Memory` is the table and what lies behind it, as far as the adds can reach,
and there `table` holds what the library has written over other variables.
What the EDMA finds there is any descriptor (`Loads`), since those variables
may have been written again, and how much it sends then is bounded as well.
So a chain that leaves the table breaks `SentIsAdded` even if no other stream
is used; `ChainsFit` is what a caller must see to. `Start` waits for the stream
to end; what a start does to a running stream is said in the comment at
hUsart.c:366. `OneStream` restricts the adds to one stream.

### Sbrk and HelloThread

`Sbrk` is `_sbrk` with the addresses of the machine, which wrap at `Word`.
`heap_end` moves even if the call fails, so after enough failed calls it comes
round to the heap again; `wrapped` remembers that, and `GrantsAreOwn` ends
there. Requests are positive: newlib would return memory only above its trim
threshold, which exceeds this heap.

`HelloThread` is `UsartHelloThread` from `hUsartInit` on: descriptors (as many
as fit from the stream's row to the end of the table; *main.c* adds two),
`PrintList` and `memTest` with their `printf`, then a transmission per second.
`WritePoll` and `WritePut` are the two steps of `_write` for a byte. `dt` is
the USART's data register, which holds one byte until it is shifted out
(`Shift`) and which the EDMA writes as well (`EdmaStep`). What a descriptor
sends counts as one byte. `malloc` may have the memory already, ask `_sbrk`
for it or fail; in the last case `memTest` ends. `Wake` takes a second to be
longer than a transmission, which it is by two orders of magnitude.

## Runs

| Run | Question | Result |
|---|---|---|
| `rx_driver` | Is the receive driver right when it is called one call at a time? | all hold |
| `rx_masked` | Do calls of two contexts compose if they do not overlap? Does the poll make up for the interrupts that are lost? | all hold |
| `rx_preempted` | And as built, with the interrupt anywhere in the thread's call? | violated: a pbuf that is not one received frame |
| `tx_driver` | Is the transmit driver right one call at a time, for every length and split of a packet? | all hold |
| `tx_preempted` | And as built? | violated: a packet reported with ERR_OK is overwritten |
| `timers` | Do the periodic processes survive the wrap of the clock? | all hold |
| `link` | From reset on: is everything set up before it is used, do netif and MAC follow the cable, does the server come up, does the LED blink even while the network thread hangs? | all hold |
| `link_error` | And if `emac_speed_config` fails once? | violated: the MAC stays in its old mode for ever |
| `telnet` | Names, heap and replies with two clients | all hold |
| `telnet_reset` | And if a connection fails after `tcp_close`? | violated: the name is freed twice |
| `usart` | Does one stream whose chain fits in the table send all that was added, past the end of its row too, again and again; do polled bytes and the EDMA's, and the grants of `_sbrk`, keep apart? | all hold |
| `usart_streams` | And if two streams are used, or a chain leaves the table? | violated: a second stream sends nothing |

Bounds. `rx_driver`: three descriptors instead of six, frames of one to three
segments, four frames. With three the ring wraps, fills up, runs out in the
middle of a frame, and a frame can fill it alone; four frames wrap every
cursor at least once with frames of each size before and behind. `tx_driver`:
three descriptors with buffers of two bytes, three packets of one to six bytes
in every split: lengths at, below and above each multiple of the buffer, pbufs
that end in a buffer, at its end and beyond it, and a packet that fills the
ring. The proofs of both drivers hold for every size. `tx_preempted`: one byte
suffices for the counterexample. `rx_masked`, `rx_preempted`: frames of up to
two segments, three or four of them. `timers`: intervals in the same order as
the real ones, two shorter and one longer than the delay, a clock that wraps
every few rounds; time itself is not bounded. `link` and `link_error`: two
modes, no other bound. `telnet`: a buffer of four bytes, packets of one or
two, two letters, two connections, three blocks, so that names leak while
others are in use; the lines are not bounded. `usart`: three streams with rows
of three and five adds, so that the first stream's chain runs through the
second row; a heap of four addresses of twelve and requests of up to three, so
that calls fail, succeed after a failure only if `heap_end` wraps, and do
wrap; `memTest` of depth 3.

Fairness. The thread's loop never ends and the MCU does not stop in the middle
of a call, so the driver's steps are weakly fair; a requested interrupt is
taken; a DMA that owns a descriptor and has something to store or send does
so. No frame need arrive, lwIP need not send, the DMA need not suspend.
`BootFairSpec`: the clocks settle, ticks come for ever, delays end, and a task
that gets the CPU again and again gets on (strong fairness, since it loses the
CPU at every tick; a slice is a millisecond and a step far shorter). The loops
of `emac_speed_config` are bounded, hence strong fairness of `LinkTimeout`; a
PHY with a partner gets a link. There is no fairness for the DMA's software
reset, which may hang, nor for the reset of the PHY, which may fail every
time, for want of MDIO or of a PHY that answers: `LedBlinks` allows for both
and `ServerListens` names them. MDIO failures may go on for ever and the
properties say what follows when they do not. `HelloSpec`: the USART shifts and the EDMA sends;
the thread gets on past its `printf`, whose length is bounded though the
model's is not.

Deadlock is not checked where the number of frames is bounded: with all of
them handled and no more to come the model stops.

## Proofs

The assumptions are those on the constants, named in the modules; every other
one is said here.

`EmacRxProofs` proves for every `NumDesc`, `MaxSegs` and `MaxFrames`:
`TypeCorrect`, `CopyOwnedAlways`, `CursorSyncAlways`,
`SuspensionFlaggedAlways`, and `FramesInOrderAlways`: the driver implements
`FrameFifo`. The ring has at least one descriptor, and a frame fits in it.
None of the properties is inductive alone: that the cursor stays with the
DMA's depends on which descriptors the CPU holds, which depends on where the
frames begin and end. `IInv` says that the CPU's descriptors are `u`
consecutive ones from `oldest` on, `held` of which are in the driver's hands
and end at `dma_rx_desc_to_get`, and that they end at the DMA's cursor
(`RingShape`); that the segments in them are consecutive up to the one that
the DMA stored last (`SegmentChain`); and that what the driver holds is the
beginning of one frame, or all of it (`HeldFrame`). In the release loop
`oldest` moves with `ptr`, so that each OWN bit set shortens the range by one
from behind. The proof has one lemma per action. The arithmetic of the ring is
in `DescRingProofs`, written without `%` to stay linear.

The refinement needs more than `IInv`. `FifoInv` adds that the frames in the
CPU's descriptors are numbered without a gap from the oldest to the one that
arrived last (`Numbered`) and that the copy is the beginning of the frame that
the driver holds (`Copied`). The queue of `FrameFifo` is the frame in the
driver's hands, if there is one that is not yet delivered or dropped, followed
by the whole ones behind it (`Waiting`). Storing a frame's last segment
appends to it, the return with a pbuf delivers its head, the one without drops
it, and every other step keeps it, also those that take a frame from the ring
into the driver's hands (`TakeKeeps`) or set its OWN bits (`ReleaseKeeps`).

`RxContextsProofs` instantiates the lemmas of `EmacRxProofs` for the call of
each context. `TypeCorrect` holds of the firmware as built: a step of either
context keeps the types, whatever the other one left. Assuming `~Preemptible`,
`FramesInOrderAlways` says that the calls of both contexts together implement
`FrameFifo`, and `PbufIsReceivedPacketAlways` that lwIP is given whole received
frames, the property that `rx_preempted` violates; so the preemption is all
that breaks it. The invariant (`RxInv`) is that no call begins before the
other context's has ended (`TakeTurns`) and that `FifoInv` holds for the
context that is in a call, and for both if none is. Between two calls both see
the same (`SameFifoInv`): `pc` and `p` are equal, and the other locals are
dead. The same holds of the abstract queue (`NoCallView`), which therefore does
not change when the call passes from one context to the other.

`EmacTxProofs` proves `TypeCorrect`, `WriteOwnedAlways`, `CountsAgreeAlways`,
`NothingStrandedAlways`, `OkMeansSentAlways` and `FramesInOrderAlways` (the
refinement of `FrameFifo`, without loss) for every ring, buffer size, number
of packets, packet that fits in the ring and split of it. `IInv` has two
parts. `RingInv`: the DMA's
descriptors are consecutive, from its cursor up to `dma_tx_desc_to_set`, which
is all that `NothingStranded` needs. `CallInv`: at each place of the call,
what was copied (`copy.length`) is `filled` whole buffers and `copy.offset`
bytes, and the CPU owns the descriptors from `dma_tx_desc_to_set` to the one
that the copy has reached. The copy cannot come round to its own first buffer,
because the packet would be longer than the ring (`RoomForMore`). At the end
of the copy the division gives the number of buffers that the copy used
(`BufCountOfFull`), and so the chaining gives the DMA exactly those
(`PublishInv`).

What goes out depends on the bytes as well, hence `Content`, which `IInv` is a
part of. `BytesInv`: what was copied stands in the buffers behind
`dma_tx_desc_to_set`, byte by byte, and stays there while the chaining writes
the OWN bits. `DataInv` is about the descriptors of the DMA: each carries a
part of an accepted packet, from a byte to the buffer's end or the packet's,
and taken from the DMA's cursor on these parts go through the accepted packets
without a gap, beginning where the wire ends, up to the descriptor published
last. So `DmaSend` only ever sends the next bytes of the packet that is being
sent, and LS is on the last of them, whence what is on the wire is the packets
accepted first, whole and in order (`SentInv`). That the places are numbered
without a gap gives two facts that the steps cannot show one by one: there are
no more packets in the ring than descriptors (`NoMoreThanDescriptors`, the
capacity of the queue), and each accepted packet that is not on the wire has a
descriptor of its own (`NoneMissing`, with `OkInv` the proof of
`OkMeansSent`). Both take the least of a set of numbers instead of an
induction with an operator as a parameter.

`NetTimersProofs` proves `TypeCorrect`, `NoneOverdueAlways` and
`NotEarlyAlways` for every width of the clock. `NoneOverdue` rests on the
wrapped difference being the true one (`ClockInv`), which holds as long as no
process is left for a whole turn of the clock (`AgeInv`), which is
`NoneOverdue` again and the bound on a round (`PaceInv`); so they are
inductive together. `WrapInv` shows that the extra test `localtime < timer` is
true only behind a wrap, when it makes a process run early.

`BootProofs` proves for every set of modes that `Boot` implements
`LinkMonitor` (`BootImplementsLinkMonitor`: each step of the firmware is a
step of the link supervision or leaves it alone), `BootTypeCorrect`,
`StaleModeIsNoticedAlways` and, by the refinement, `BootNoticesStaleMode`; and
`ReadyBeforeUseAlways`. That a stale mode is noticed holds between two polls
only; it is inductive together with `LossIsLatched`: from the PHY's reset on,
a PHY whose link is down still owes the driver a status read of 0.
`emac_speed_config` reads the status too, but goes on only if it is good, and
so no loss is swallowed. `ReadyBeforeUse` needs to know how far the set-up has
come (`SetupInv`): what `emac_reset` takes back is needed only behind the
place where it is configured again.

`TelnetProofs` proves `TypeCorrect` without an assumption, and
`NameIsOwnAlways`, `OnlyNoPcbLeaksAlways` and `ReplyIsTypedAlways` for any
connections, heap and lines, assuming `~ResetsAfterClose`. The invariant is
the account of the heap: each block in use is the name of exactly one open
connection or has leaked. `mem_free` must only ever be given the block of a
connection that leaves "open" in the same step, which is what a failure after
`tcp_close` breaks (`telnet_reset`). The reply rests on that account: because
no block is shared, the name of an open connection is what was typed on it and
nothing else writes there (`Collected`), and what was typed so far holds no
end of line (`Unfinished`), so that the first one in the name is the first one
in the packet that completes it (`FirstEndBehind`), also where the buffer's
size cuts the line off (`LineSent`).

`HelloThreadProofs` proves of `UsartEdma`, for every size of the table and
number of adds, `TypeCorrect`, whatever streams are used and whether or not
their chains leave the table, and `SentIsAddedAlways`, assuming `OneStream`
and `[]ChainsFit`. The invariant gives the whole table: the first `count`
slots from the row's start are chained, all others zero, and what was sent
lies before the EDMA's cursor on that chain. That the thread keeps its chains
in the table is `ThreadFits`, and so `HelloSentIsAdded` needs `OneStream` only.

It proves as well that `HelloThread` implements both `UsartEdma` and
`Sbrk` (`HelloImplementsLibraries`), so that the theorems about them hold of
the thread; `GrantsAreOwnAlways`, by an invariant that says where `heap_end`
can be before it wraps: at the end of what was granted, or beyond the heap
(`EndIsTop`); and `NothingLostAlways`, because the thread polls only in phases
in which no stream runs (`PhaseInv`), and nobody else fills `dt` between poll
and byte (`PollInv`).

Only model-checked: all liveness (`EveryFrameHandled`, `ArrivalCompletes`,
`AcceptedIsSent`, `LinkComesUp`, `LinkGoesDown`, `LedBlinks`, `ServerListens`,
`HelloIsSent`), which is outside this prover, and the counterexamples of the
runs that expect a violation. Every invariant and every refinement that a
passing run checks is proved.

## Not modelled

* `hUsartTransmitData`, which nothing in the repository calls, and the
  descriptor list of the build with `STATIC_MEM` = 0.
* Registers that no other part relies on: pin modes, baud rates, priorities of
  interrupts beyond those that decide who preempts whom, the frequency of the
  clocks (at32_emac.c:213 divides the PLL's 288 MHz by 10 for the PHY if
  `CRYSTAL_ON_PHY` is 0; the repository does not say which frequency it
  wants).
* Bytes of received frames: a segment stands for a buffer, and
  `low_level_input` for the copy of whole buffers. The descriptors' error bits
  and checksum offload, at which the driver does not look either.
* `netif_add` failing, which the code answers with an endless loop
  (netconf.c:113-116); task creation failing.
* lwIP and FreeRTOS themselves, but for what the modules above say that they
  do, and the data structures of lwIP that thread and interrupt share.
* The board tests under `UnitTest/`: they run on the board and assert nothing.

## Plan

1. (done) `DescRing`, `FrameFifo`, `EmacRx`, its proofs; `RxContexts`;
   `EmacTx`, `TxContexts`; `NetTimers`; `LinkMonitor`; `Telnet`; `UsartEdma`.
2. (done) The byte loops of `low_level_output`; `Boot` around `LinkMonitor`;
   `Sbrk` and `HelloThread` around `UsartEdma`; the heap of `Telnet`; the
   theorems about all of these and about `NetTimers`.
3. (done) Theorems that what is sent is whole and in order (the refinement of
   `FrameFifo` by `EmacTx`), and that `ERR_OK` is true one call at a time; that
   telnet's replies are what was typed; that the calls of `RxContexts` without
   preemption implement `FrameFifo`.
4. Open: the bytes of `low_level_input`; for `TxContexts` what `RxContexts` has
   without preemption.
