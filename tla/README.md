# Formal models of the MULTIpd panel

The repository is the firmware of a panel that switches energy points: an LPC17xx with a display, a 3x4 keypad
and Ethernet, written in C on Contiki's protothreads and uIP. This directory holds TLA+ models of its core, the
TLC configurations that check them on small instances, and proofs about the kernel, the timers, the screens, the
protocol, the connections, the addresses and the allocator for instances of every size.

Paths below are relative to `src/`; `core/` stands for `ARM_src/Core/`, `scp/` for `ARM_src/Core/protocol/Net/SCP/`.
`.svn/` holds copies of the sources kept by version control, `Debug/` and `Release/` are build outputs; FatFs, mxml,
minIni, AES/SHA1, CMSIS and most of uIP are vendored.

Contents: [inventory](#1-inventory) · [the plan](#2-the-plan) · [the models](#3-the-models) ·
[the runs](#4-the-runs-their-bounds-and-what-they-show) · [fairness](#5-fairness) · [proofs](#6-proofs) ·
[findings](#7-where-code-and-comments-disagree) · [not modelled](#8-what-is-not-modelled) · [running](#9-running)

---

## 1. Inventory

`main()` (`src/main.c:42-64`) initialises the drivers, starts the processes, loads the startup screen and then calls
`process_run()` for ever. There is one thread of control and there are interrupts (SysTick, Ethernet, UARTs). What
makes the program hard is not parallelism but *reentrancy*: a protothread that posts a synchronous event, exits a
process or starts one is on the C stack while others run, change the list the kernel walks, set timers and fill
buffers; and each of its waits ends in a state that others have changed.

### The kernel - `core/Process/process.c`

* State: the linked list of processes, each with a state (NONE, RUNNING, CALLED), `needspoll` and `needscall`; the
  ring of events; `poll_requested`; `process_current`.
* Operations: `process_start`, `process_exit`, `process_post`, `process_post_synch`, `process_poll`,
  `process_add_poll_event`, and `process_run`, which polls, delivers one event and polls the processes that asked
  for it in every turn.
* Interactions: everything else is a process. Interrupts call `process_poll` at any point.
* Hard: nested calls while `do_poll`, `do_event` and `do_call` walk the list; interrupts between any two
  instructions; the full ring; who is `PROCESS_CURRENT()` when a nested call returns.
* Correct if: the list stays a list; whoever is on it can be called; no request for a poll is lost; a broadcast reaches
  everyone; the ring is a bounded queue; the caller is restored; polls are served and the queue drains.

### Event timers and the clock - `core/Timer/etimer.c`, `timer.c`, `core/Clock/clock.c`

* State: the list of pending timers, each with start, interval and owner; `next_expiration`; the 32-bit clock.
* Operations: `etimer_set`, `_reset`, `_restart`, `_stop`, `_expired`; the process that posts the expired timers
  and that drops those of processes that exit; the tick.
* Interactions: the tick asks the kernel to poll `etimer_process`, which posts to the owners and tries again when the
  queue is full.
* Hard: the clock wraps while one comparison is plain; the tick interrupts `update_time`; the list is changed while it
  is walked.
* Correct if: no expiration is missed or early; a due timer is served; a timer is listed once; an exit leaves none of the
  process's timers but those that its own thread sets behind it.

### SCP - `scp/SCP_Buffer.c`, `SCP_Comm.c`, `SCP_Device.c`, `SCP_msg.c`

The request/reply protocol with the servers and the energy points.

* State: 32 packet slots, the list of those in use, one packet in a file on the SD card; per device the connection's
  state, the packet it is occupied with (`Cur_Packet`), the last request sent (`last_send_Packet`), its order and attempts.
* Operations: putting a packet (with a process that waits, without, or important), putting an incoming one, eviction
  from a full buffer, time-outs, spilling to the card and reading back; the protothread of a connection; connecting, closing,
  aborting, falling back to another server.
* Interactions: processes wait in `PT_SCP_SEND` for `event_SCP`, which is posted *synchronously* from the library:
  the process goes on, and may send, in the middle of a time-out or of the reading of a reply.
* Hard: a slot is freed and filled again while pointers to it are kept; replies late or to nobody; the connection breaks
  between any two steps; the device sends requests of its own.
* Correct if: who waits has a packet and is resumed, by a reply to it or its time-out; nothing over is sent, or sent twice on
  a connection; connections do not get stuck; important packets are answered or kept.

### The screens - `src/Screen/*`, `ARM_src/Screen/SCR_Init.c`, `SCR_Message.c`, `SCR_Startup.c`

* State: which screen is loaded, where its protothread waits, the number, language and code typed, the
  screens' timers, the wait screen (a process of its own).
* Operations: keys, time-outs, replies; `SCR_load` exits the screen loaded and starts another, usually from within the
  first.
* Interactions: keys are broadcasts of a pointer to a shared variable; requests go through SCP; energy points are
  announced and change state through the handler of incoming messages (`src/SCP_handler.c`, `src/Energy_point.c`).
* Hard: a screen that waits for a reply or shows a message lets every other event pass, its time-out included; exits
  from within; numbers cut to eight bits.
* Correct if: one screen is loaded; a point is switched on only after a code was accepted, and none but the one its number
  is stored as; a code leaves no digits to the next; the wait screen goes away; the panel returns to its idle screen.

### The devices and their connections - `scp/SCP_Device.c`, `SCP_Comm.c`, `core/protocol/Net/uip.c`, `tcpip.c`

* State: the list of devices, each with a State, Attempts, an order among the servers with one `SCP_devID`, the Buffer
  of its connection; uIP's table of TCP connections, each told to the process and the device in its `appstate`.
* Operations: `SCP_process` connects, once a second, to the next device that is known, first in order and not
  connected; `SCP_check_process` probes those that are offline; hosts connect to the panel and say who they are; a
  connection ends by FIN, reset, time-out, or the panel's own closing of it.
* Hard: an event is known by its device, not by its connection; `State` is all that says whether there is a connection;
  `uip_close` tells its end more than once or not at all; two connections can carry one device; the device list
  is walked with a pointer that is kept over a wait.
* Correct if: a device that is taken to be connected has a connection that will tell its end; a backup serves while the
  primary is away, and the primary again when it is back.

### How addresses are found - `core/protocol/Net/dhcp`, `dns/resolv.c`, `ntp/ntpd.c`, `Net_Dev_Init.c`

* State: the DHCP client's protothread, its connection and lease; the resolver's table of names, each with a state, the
  passes until it is asked again, retries and an expiration; which devices and which time server wait for an address.
* Operations: discover, request, renew, start anew; a question, its repetition, its answer or the lack of one;
  `resolv_event_found` told to everyone; the time service takes the next server.
* Interactions: all share the event queue, whose refusals nobody looks at, and ten UDP connections that are never
  given back.
* Hard: datagrams are lost, repeated and reordered; entries are given to other names while answers are under way;
  counters of eight bits; the address of a local variable as the data of an event.
* Correct if: who has an address has that of its name, and every device gets one in the end.

### Memory - `core/Memory/cmem.c`

* State: one pool, and an array that says where blocks begin and which are used. Operations: `cmem_malloc` splits the first
  block that fits down to the power of two, `cmem_free` merges a block with its twin for as long as that is free.
* Interactions: texts of packets, buffers of connections and energy points live in it. SCP frees the text of a packet
  each time it is sent and once more when it times out.
* Correct if: no two owners share memory, in spite of that; the blocks stay a buddy system.

### The rest

| Component | State and operations | Hard | Correct if |
| --- | --- | --- | --- |
| AMS (`core/protocol/Net/AMS`) | a connection to the maintenance server, commands queued | reconnects, commands while closed | each command is answered once |
| Transactions, reservations, menu (`ARM_src/Screen/Transaction`, `Menu`, `Processes/Reservation.c`) | a payment with several devices, roll-back of what was booked | partial failure | no amount is taken without delivery; compiled out of this panel (`PAYING_MODULE`, `RESERVATION_MODULE`, `MENU_MODULE` are 0) |
| Bank terminals, coins, bills, printers, readers (`ARM_src/Device`) | protocol state machines over UART, I2C, TCP | time-outs; `process_run` nested in a protothread | not fitted in this panel, but for the keypad |
| Displays, IO, I2C and UART drivers, SD card, flash | registers, ring buffers | interrupts | I/O |
| uIP, FatFs, mxml, minIni, ciphers, CMSIS | vendored | | |
| Texts, settings, terminals, error table | tables | | |

`PROJECT.json` lists each of them with its sources. Its `hazards` list what in this code is hard to test, line by
line, with the properties that watch it or the reason why none does yet.

---

## 2. The plan

The most important behaviour first: what all components rely on (kernel, then timers), then the protocol, whose
reentrancy is where most hazards are, then the application on top.

| | Module | Models | Composes | State |
| --- | --- | --- | --- | --- |
| 1 | `EventFifo` | what an event queue promises (abstract) | | done |
| 2 | `Process`, `MCProcess` | the kernel | implements `EventFifo` | done |
| 3 | `Process_proof` | its invariants and the refinement, proved | extends `Process` and `DataInduction` | done |
| 4 | `Etimer`, `MCEtimer` | timers and clock | over the queue of `EventFifo` | done |
| 5 | `Scp`, `MCScp` | buffer and connections | | done |
| 6 | `Panel`, `MCPanel` | the screens, keypad and energy points | timers, queue and SCP as their modules promise them | done |
| 7 | `Cmem`, `MCCmem` | the allocator and its clients | the texts of `Scp` are among them | done |
| 8 | `Cmem_proof` | its invariants, proved | extends `Cmem` | done |
| 9 | `Devices`, `MCDevices` | devices, backup servers, probing, TCP connections | the packets on a connection as `Scp` has them | done |
| 10 | `Netconf`, `MCNetconf` | DHCP, resolver, time service, devices' addresses | one queue and one pool of UDP connections for all four | done |
| 11 | `Etimer_proof`, `Panel_proof`, `Netconf_proof`, `Scp_proof` | their invariants, proved | extend their models and `DataInduction` | done |
| 12 | `Devices_proof` | `TypeOK`, `StateSound`, proved | extends `Devices` and `DataInduction` | done |
| 13 | `ScpRequest` | abstract: a request ends once, by its reply or its time-out | `Scp` shown to implement it where it does | later |
| 14 | `Ams` | the maintenance protocol | a connection as `Devices` has it | later |

Theorems that are left: what holds of `Scp` with requests of several devices or with the card, where `PointersLive`,
`ReplyMatchesRequest` and `NotSentTwice` need a weaker form, since they are false; and the refinement of `ScpRequest`. The modules are written for
it: no RECURSIVE operator, constants with named assumptions, one action per operation.

---

## 3. The models

### `Process` - the kernel

A step is one stretch of C between two points where another protothread may be entered or left. The C stack is the
variable `stack`, a sequence of frames that hold the locals (`poll`, `bcast`, `docall` for the loops, `synch` and
`exit` with the caller they restore, `thread` and `bye` for a running protothread). What a protothread does is
arbitrary: it makes up to `MaxOps` calls, then yields or ends. `Interrupt(p)` is `process_poll` at any point.
The ring is the array with `fevent` and `nevents`, its index computed modulo 256 as in the C.

| Action | Code (`process.c`) |
| --- | --- |
| `RunPoll`, `RunEvent`, `RunCall` | the three parts of `process_run` and the beginning of their loops |
| `PollVisit`, `BroadcastDeliver`, `CallDeliver`, `InnerPoll`, `LoopAdvance`, `LoopEnd` | one turn of `do_poll`, `do_event`, `do_call`, with the `do_poll` they contain |
| `ThreadPost` .. `ThreadAddPollEvent` | the calls of a protothread |
| `ThreadYield`, `ThreadEnd`, `ByeReturn`, `SynchReturn` | its ways to return, to each kind of caller |
| `ExitNotify`, `ExitAdvance`, `ExitSelf`, `ExitUnlink` | `exit_process`: the round of EXITED, the EXIT event, the unlinking |

`owed` and `walk` are history: whose poll is unserved, and whom the broadcast has reached. Left out:
`process_run` called from within a protothread; data of events.

### `EventFifo` - what the queue promises

A sequence with accept, refuse when full, dispatch. `Process` implements it (`QueueIsFifo`, checked and proved) with the
ring read from `fevent`; `Etimer` uses its variables for the queue it posts to.

### `Etimer` - timers and clock

`clock` counts modulo `ClockMod`; `left`, which is history, is the true time a timer has. `cpu` is the call main() is
in, and `Tick` may come between any two of its steps: between the reading of the clock and the storing of
`next_expiration` in `update_time` (`UpdateRead`, `UpdateStore`), between two timers of the scan (`ScanPost`,
`ScanRefused`, `ScanNext`). `etimer_adjust`, which nobody
calls, and callback timers, which this panel does not use, are left out.

`ProcessExit` is `exit_process` up to the thread of the process: it is NONE, and the loop over its timers at EXITED has taken
them off the list. Its thread is not over yet: `exit_process` runs it once more with PROCESS_EVENT_EXIT (`process.c:155-159`), or it
goes on because it exited itself, as every screen does that loads another. `exiting` holds it until it returns
(`ExitEnds`), and meanwhile it may set timers (`MayCall`): code above `PROCESS_BEGIN` does (`SCR_Idle.c:33`, `SCR_Overview.c:32`,
`Buttons_3x4.c:99`), and so does the bar of the wait screen (`SCR_Message.c:175-179`). `rearmed` is history: the timers on the list that were
put there in that way. main() polls and delivers only when no such thread is on the stack (`InMain`). `ProcessStart` stands
for `process_start` and for the process that `call_process` sets RUNNING again behind its own exit (`process.c:196-198`).

`lap` is history too. As long as it is "fresh", `next_expiration` is the time of a timer on the list. The exit of an owner takes
timers off without `update_time`; from then on `next_expiration` may be that of a timer that is gone, and `lap` says
in which lap of the clock it lies: "this", the "next", or one that is "over", in which case the comparison in the tick
misses the timers that are left until something else asks for a poll.

### `Scp` - packets and connections

`stack` is the C stack of the library and the processes it resumes: `put`, `putin` (a packet or a message that looks
for a slot), `timeout` (before and after its process was told), `thread` .. `send` (places of `SCP_handle_connection`),
`run` (a process). A reply, a time-out and an eviction push `run` on top, and that process may put packets (`Nested`)
before the library goes on. A message is its kind and its id; the data of packets is left out.

Assumed, and written in the guards: messages arrive whole and in order, as uIP delivers them to a psock; an id given to a
packet is not that of another one that is still remembered (256 ids do not come round within a packet's life); the
ids of the device's own requests differ from those of the panel's; a connection closed by the panel is closed
before the next is opened; data that comes before the ACK of a send in progress is lost to the protothread; how
many attempts a connection has left is any (`Devices` counts them); a handler of an incoming request puts no packets of
its own; files on the card open and are written; devices are resolved (`Netconf`).

`use` is one of the constant `Uses`: how many slots the buffer has, which devices there are, what clients put, and
whether they put from within the library's calls. A behaviour keeps the one it starts with, so that one run checks
several set-ups.

### `Panel` - the screens

`listed`, `running` and `timer` are what the screens see of the kernel: who is on the list, whose state is RUNNING, and for
whom an etimer runs or how it ended. `place` is where a screen's protothread waits: its loop, a message, or one
of its requests. An event that arrives while it waits for a reply or a message is `Swallowed`. `SCR_load` is `Load`;
with PROCESS_EXIT behind it the screen it leaves is NONE, without (the time-outs) `Stays` makes it RUNNING again, as
`call_process` does. The key is read when the event is delivered, and may be any by then (`keypad_button` reads a shared
variable). A screen that is exited by another gets PROCESS_EVENT_EXIT behind the removal of its timers, and sets its poll
timer again if that had expired (`Exited`).

`number` is what was typed, `Stored` what is left of it in a `uint8_t`, by which points are looked up and addressed. `granted` is history: the
number a code was accepted for, not yet cut, as it is presented (`SCR_pin.c:76`). `uid` has the seven bytes of `g_Cur_UID.UID`, each blank or a digit;
that a digit is of an "earlier" code is history: its code has been presented, or the pin screen was left. The code blanks
the bytes and sets `input_pos` in places far apart (`SCR_pin.c:36-37`, `50-51`, `65-66`, `77-80`, `93`), and `CodeCleared` is what they are to
achieve together.

A reply may come whenever one is awaited and may be any the code tells apart, a late one of an earlier request included.
The startup screen ends at some time; the bar the wait screen draws, `Save_reset`, `Hard_reset` and all drawing are left
out, and so are the measured values.

### `Cmem` - the allocator

`starts` are the addresses at which blocks begin and `used` those whose used bit is set: the array `mem_block` is kept in
the order of addresses. A step is one turn of a loop of `cmem.c` (`Split`, `Take`, `Merge`); `call` is the call that is in
progress. `BlockSize` has the search for the highest bit as the code runs it, wrap included, which doubles each
power of two. Clients are the pointers that are assigned from `cmem_malloc`; a `Text` may be freed again with its
pointer kept (`FreeAgain`), as a packet that is sent twice or times out after it was sent does. `owns` and `hit` are
history: whose block has not been given back, and whose has been freed by another.

### `Devices` - the devices and their connections

uIP tells an event by `process_post_synch`, so that an event of a connection and all that `SCP_process` or
`SCP_check_process` does with it is one step.

| Action | Code |
| --- | --- |
| `Timer`, `CheckTimer` | the second of `SCP_process` (`SCP_connect` to the next active device), the interval of `SCP_check_process` |
| `SynReceived`, `SynAnswered`, `SynFails`, `Accepted`, `SynGone` | connections that open, in both directions, or do not (`uip.c`) |
| `TimeoutCloses`, `BackupCloses`, `GarbageCloses`, `Identified`, `PacketEvicted` | what a poll of a connection leads to: closed after a time-out or because the primary is online, aborted, or told who the host is |
| `CheckPolled` | a probe that was answered is closed again |
| `FinReceived`, `LastAck`, `FinAnswered`, `FinDropped`, `TimeWaitOver`, `Broken` | the ends of a connection, and the events they are told by (`TellEnd`) |

`dev` is memory rather than devices: `list_remove` and `cmem_free` leave the contents of a Device that is deleted
(`SCP_Device.c:116-120`), and a connection, `loop`, `next_order` and `prev_order` may lead to it until `SCP_create_new_device` gives the
memory to another. `Accepted` may take any memory that is not in the list. `list_remove` sets the link of what it takes off to
NULL, so that a loop over the list ends behind it (`FirstBehind`). The loops along `next_order` (`Search`) and `prev_order` (`PrevOnline`)
are functions of the number of turns, of which there are as many as Devices: more turns go over the same ones.

`twice`, `dropped` and `deleted` are history: devices that have had two connections at once, those whose connection uIP dropped
without a word (`uip.c:738`), and those that were told an event or connected to after they were deleted. Left out: a `malloc` that
fails, `SCP_Device.c`'s pointer to the connection, what else uses the memory of a device that was deleted, and a host that opens
two connections to the panel at a time.

### `Netconf` - how addresses are found

`names` is the resolver's table with `tmr` and `retries` as the eight bits they are (`Width`), `dhcp` the DHCP thread,
`queue` the events of these processes that wait. `Post` is a handler's sequence of posts, of which the queue takes as many
as it has room for. `wire` holds the questions sent and `replies` what answers the DHCP messages of the present
`xid`; both keep what they hold, so that anything sent may be answered at any time, again, or never.

| Action | Code |
| --- | --- |
| `ResolverStarts`, `TakeRetry`, `TakeDns`, `RetryTimer` | `resolv_process` and `check_entries` |
| `Answer`, `Expires` | `newdata`; the lifetime of an entry |
| `TakeDhcp`, `TakeTick`, `Reply`, `OtherReply`, `TimerExpires`, `RetryExpires` | `handle_dhcp` behind `dhcp_process`; a refusal, a stranger's datagram; the 15 s after which all starts anew |
| `TakeFound`, `TakeLiteral` | `resolv_event_found` at the devices (`SCP_Device_process`) and the time service |
| `NtpStarts`, `NtpGivesUp` | `ntpd_process` until it has an address |

`troubles` is history: an event refused, an entry taken from a name that was waited for, no UDP connection, an answer with an
error, an answer that expired before it was told. `crossed` are the names whose entry was another's when a question with
its index was under way. Time is abstract: a timer that is set may expire whenever, lease and lifetime are over whenever.
mDNS is compiled out. The exchange with the time server is left out: `ntpd.c:147` then has the handle freed twice.
`UsesAssumption` says what a set-up is: `seqno` tells the entries of the table apart, and the queue has room for what is
posted while the panel starts: a look-up for each URL and DHCP's poll. What the table and `seqno` are after these look-ups are
the recursive functions `initialNames` and `initialSeqno`.

---

## 4. The runs, their bounds, and what they show

A run asks what its module must answer for one kind of use; each property has a mutant of the code (an operator named in `PROJECT.json`, defined next to
the one it alters) which TLC finds to violate it under the same configuration.

| Run | Instance | Properties |
| --- | --- | --- |
| `process_nest` | 3 processes, depth 3, one call per activation, ring of 2, no interrupts | `ListEnds` `CurrentIsRunner` `NoneSilenced` `ExitSkipsOnlyCallers` `StackWellNested` `BroadcastDelivers` `QueueIsFifo` |
| `process_live` | 2 processes, ring of 1, polls by interrupts and posts without end | `TypeOK` `PollKept` `PollServed` `FullQueueDrains` |
| `etimer_live` | 2 timers and 2 processes, one of which exits and starts again, clock modulo 5 that wraps, queue of 1 that others fill | `TypeOK` `NoMissedExpiry` `ExpiredIffDue` `ListSound` `DueIsServed` |
| `scp_client` | 2 processes: 1 device, 3 slots, sends also from handlers; and 2 devices, 1 slot, every put evicts | `TypeOK` `PointersLive` `ReplyMatchesRequest` `SendsOnlyPending` |
| `scp_server` | 2 slots, a device with requests, ignored and unreadable messages | `WaiterHasPacket` `NotSentTwice` |
| `scp_card` | 1 slot, important packets, the card | `ImportantKept` `WaiterResumed` |
| `scp_reply` | 3 slots, requests of the device | violates `ReplyMatchesRequest` |
| `cmem` | pool of 16, 2 texts and 2 other pointers, sizes 1, 3, 4 | `TypeOK` `OwnersSafe` `BuddySystem` |
| `devices` | a primary and a backup over 2 connections; a server and two hosts that connect over 1 | `TypeOK` `StateSound` `Reconnects` |
| `netconf` | 5 set-ups of up to 3 devices, 2 time servers, a table of 1 or 2, with and without DHCP and strangers' events | `TypeOK` `RightAddress` `EveryDeviceTold` |
| `panel` | 1 energy point announced, numbers 0..3 cut to 1 bit, code of 2 digits, queue of 2, with and without a pin | `TypeOK` `OneScreen` `WaitScreen` `NumberKnown` `ActivationGranted` `CodeCleared` `Returns` |
| `panel_left` | the same | violates `LeftScreenRests` |

Why the bounds are enough for what is asked.

* *Kernel.* Three processes are a caller, one that exits and one that is passed over or started under the cursor; with depth
  3 an exit happens inside a broadcast inside a synchronous post. A ring of 2 is the least in which events have an order: it fills,
  comes round with an event in it, and is read from either slot. The view `HeldView` leaves out what slots outside the ring hold, which nobody
  reads, and the history of refusals. The index is computed modulo 256, which no small ring wraps: that is for
  the theorem `FifoRefinement`, of rings of up to 128. `process_live` is about progress and has a ring of 1, which is full at once. `MaxOps` bounds the calls of one activation, not of a process, which runs again and again. In
  `process_live` nobody calls `process_post_synch`, and the start of the other process is bounded by there being two.
* *Timers.* Two timers are the nearest and another. A clock modulo 5 with intervals up to 2 wraps or nears its end while
  both run. The process that exits also sets and stops its timer behind its exit. `MaxLag` says how late main() may be with a due timer; the assumption that a timer is not late by a whole
  turn of the clock (2^32 ticks) is `ClockAssumption`.
* *SCP.* 8 ids are more than can be remembered at a time. `Ticks` 0 lets a timer expire at any time, which is
  every relation between the 10 s and 65 s of the code. Two unanswered requests per connection (`MaxUnanswered`) are enough
  for a late reply beside a current one. In `scp_card` there is one slot because of the handler of the time-outs, which
  ends its walk at the packet it removes (`SCP_Buffer.c:205-213`): with more slots, packets put as fast as they expire
  keep it from reaching the oldest. In the other runs a full buffer and sends from handlers are kept apart, because
  together they do end with a process that waits without a packet (the hazard at `SCP_Buffer.c:177`).
* *Panel.* One digit key makes numbers that are known, unknown, or known only because they are cut (3 is stored as 1). Two asks
  are a first and a last; a code of two digits can be left half typed, with the one digit there when the next begins. The number
  3 is accepted while the point known is 1: the one cut to another. A queue of two is full, so that keys are lost, and
  timers try again.
* *Memory.* In 16 bytes with blocks of 2, 4 and 8 the pool is split to its ends and merged again, requests fail, and a second
  free of a text meets a block of another owner, a smaller block, or the middle of one.
* *Devices.* One device behind another is the least with a fall back and a return. One connection is what makes
  `tcp_connect` fail; a host from no file makes a new device, and a server's own host makes two connections of one. One
  attempt (3 in the code) reaches 0, where a device goes offline.
* *Network.* A table of one entry is full with a second name, one of two shares entries between names. `Width` 4 with
  `MaxRetries` 3 lets `retries` pass its maximum and `tmr` come round, which takes 256 passes in the code. A queue
  of 3 is full with the panel's own events and, with `busy`, with those of others. `MaxGiveUps` bounds how often the
  time service goes on to the next server, which is past the last of its list.

TLC reaches between a hundred thousand and some two million distinct states in each passing run. Symmetry, among processes
and among pointers of clients, is used only in runs without liveness. The `scp_*` runs without liveness also use a view (`MCScp!View`)
that leaves out the content of slots nobody points to, which is written before it is read, but for `important`.

---

## 5. Fairness

* `Process!FairSpec`: weak fairness of the processor's steps, which is that the CPU does not stop, and strong fairness of
  `EnterLoop`, because main() starts a fixed list of processes before it enters the loop. Interrupts have none: they may be
  many or never come.
* `Etimer!FairSpec`: calls return, threads of processes that exit return (`[]<>(exiting = {})`: a protothread that never does stops the whole panel), `process_run` polls and delivers over and over (`PollServed` and `FullQueueDrains` of
  `Process`), and the tick comes. `DueIsServed` supposes that others stop posting at some time, because the
  timer's retry and other processes race for the same place in the queue.
* `Scp!FairSpec`: the library's calls and the processes it resumes return; a packet's timer, once set, runs out; the poll timer
  comes every second (`NoMissedExpiry`, `DueIsServed` of `Etimer`). `WaiterResumed` supposes that connections stop breaking:
  each reconnect gives the packet another 65 s.
* `Panel!FairSpec`: events are delivered, requests end in a reply or a time-out (`WaiterResumed` of `Scp`), timers expire
  (`DueIsServed`). The refresh timer is left out of it, so that nothing rests on the overview's refreshes.
* `Devices!Fairness`: the timers of both processes go off for ever, stated without ENABLED by what they change: `loop` changes
  again and again, unless it is again and again at the only device there is to go to, and the check process likewise comes to
  wait, or stays where it is. uIP repeats what is not acknowledged and gives up after
  a number of times, and polls what is established, so that a connection that waits for one of these changes.
  `Reconnects` adds what it needs as hypotheses: that the servers it speaks of answer a SYN from some time on, or do not, and
  `Undisturbed`: no probe is answered by another connection's event, a connection is free, and none was dropped without a
  word. Each of these stands for a hazard in `PROJECT.json` that does
  keep a device from being connected.
* `Netconf!Spec`: the loop runs and timers expire; strongly, where a full queue may turn a timer's event away and is
  emptied again. A name that is asked for again and again is answered at some time, and so is DHCP while its thread waits:
  that is the environment's part. The 15 s of `dhcp_process` need not pass. `EveryDeviceTold` has as hypotheses that no two
  devices have one name (only the first is told: `SCP_Device.c:261-270`) and that none of the `troubles` occurs, after
  which the code does nothing more for the name.

---

## 6. Proofs

Eight modules are checked by TLAPS: 36 theorems of the specifications and the lemmas they rest on, some 14900 obligations. What
they state is stated for every value of the constants that the modules' assumptions allow: any number of processes, timers,
names, owners, packets, devices and connections, any depth of calls, any size of the rings, the pool and the counters. TLC checked
each inductive invariant first, and evaluates the assumptions in every run.

| Module | Obligations | Theorem | Says |
| --- | --- | --- | --- |
| `Process_proof` | 3485 | `TypeCorrect` | `Spec => []TypeOK` |
| | | `CurrentCorrect` | while a protothread runs, `PROCESS_CURRENT()` is its process |
| | | `NestingCorrect` | every frame holds what its return restores (`StackWellNested`) |
| | | `FifoRefinement` | `Spec => QueueIsFifo`: the ring with its `unsigned char` arithmetic implements `EventFifo` |
| | | `ListEndsCorrect` | the list of processes ends, whatever starts and exits nest in the walks over it |
| | | `NoneSilencedCorrect` | a process on the list can be called, but for one whose call or exit is in progress |
| | | `ExitSkipsCorrect` | the round of EXITED passes over none but such processes |
| | | `PollKeptCorrect` | no request for a poll is lost, whenever the interrupt comes |
| | | `BroadcastCorrect` | a broadcast reaches all that are on the list from its beginning on |
| `Etimer_proof` | 1696 | `TypeCorrect`, `ListSoundCorrect` | a pending timer is listed once; its owner runs, unless its thread set it behind its exit |
| | | `ExpiredCorrect` | `timer_expired` agrees with the true time across the wrap |
| | | `NoMissedCorrect` | a timer that is due has a poll pending (`NoMissedExpiry`) |
| `Panel_proof` | 981 | `TypeCorrect`, `OneScreenCorrect` | one screen is listed, it is the current one and runs |
| | | `WaitScreenCorrect` | the wait screen is up only while a reply is awaited |
| | | `NumberKnownCorrect` | what is asked is asked for a known energy point |
| | | `ActivationCorrect` | a point is switched on only after a code was accepted, and it is the one the accepted number is cut to |
| | | `CodeCorrect` | no digit of an earlier code counts for the next: the UID holds the digits of this one only (`CodeCleared`) |
| `Netconf_proof` | 1086 | `TypeCorrect`, `RightAddressCorrect` | who has an address has that of its URL, but for `crossed` names |
| `Cmem_proof` | 1167 | `TypeCorrect`, `OwnersCorrect` | whoever has got a block has it to himself until he gives it back, but for one who was `hit` |
| | | `BuddyCorrect` | blocks are powers of two in their places, and no free block keeps a free twin |
| `Scp_proof` | 4700 | `TypeCorrect` | `Spec => []TypeOK`, in every use |
| | | `WaitersServed` | `WaiterHasPacket`, if no process puts from a handler |
| | | `ImportantNotLost` | `ImportantKept`, in the same use |
| | | `ConnectionsLive`, `SendsPending`, `SentOnce` | `CurIsLive`, `SendsOnlyPending`, `NotSentTwice`, without requests of devices and without the card |
| | | `SentOnceWithRequests` | `NotSentTwice`, whatever the device requests, with one device and without the card |
| | | `PointersStayLive`, `RepliesMatch` | `PointersLive`, `ReplyMatchesRequest`, there and without nested evictions |
| | | `CalmEvictions` | if no process puts from a handler, no eviction is nested |
| `Devices_proof` | 1594 | `TypeCorrect` | the list has no Device twice and keeps the servers; Attempts does not wrap; the check process holds on to a listed Device |
| | | `StateSoundCorrect` | who is taken to be connected has a connection that will tell its end, and what is read goes into a Buffer of a listed Device, but for the cases the history names |
| `DataInduction` | 228 | | induction and recursion over the numbers, and what taking one off a list without repetitions leaves (`RemovedAt`), for the others |

### The kernel's stack and ring (`Process_proof`, first part)

The assumptions are those of `Process`: `NullAssumption` and `NumEventsAssumption` (`2 * NumEvents` fits the
`unsigned char` in which the index is computed), and the ones on the constants that only bound a run.

*The inductive invariant* is `IInv == TypeOK /\ StackWellNested /\ CurrentIsRunner`. `CurrentIsRunner` alone is not
inductive: when a synchronous post or an exit returns, `process_current` becomes what its frame has saved, and nothing
says that this is the process of the protothread below. `StackWellNested` says it, of every frame on the stack: a frame that
lies on a protothread is a synchronous post or an exit and holds that process. The proof therefore goes in two layers. Lemmas on
sequences say when pushing, popping and replacing a frame keep a stack well nested (`PushOK`, `PopOK`, `ReplaceOK`,
`SingleOK`); lemmas on the kernel's helpers apply them (`CallOK`, `BeginExitOK`, `RestoreOK`, `SynchOK`, ..); and then there
is one step per action (`MainOK`, `LoopsOK`, `ThreadOK`, `ExitOK`). The types of the other variables are proved
apart, since they do not depend on the stack (`RingTyped`, `ListTyped`, `PollTyped`).

*The refinement* rests on `SlotInjective`: for indices below `NumEvents`, `((fevent + i) % 256) % NumEvents` hits each slot
once. From it `EnqueueAppends` and `DequeueTakesHead` say what the two writes do to the queue read out of the ring, and
`RingStep` that every other action stutters.

### The kernel's list (`Process_proof`, second part)

The list is changed while up to as many loops as there are frames walk it, so an invariant about the list alone is
not inductive: whether unlinking a process harms a loop depends on what the loop's cursor can still reach. The idea that makes
this provable is that a cursor is nothing but the set of processes reached from it (`From`), and that the list ends if and only if
no such set runs into itself (`NoLoop`). `From` is the least set that holds the cursor and is closed under `next` (`FromClosed`, by
counting: more steps than there are processes meet one twice, and `FromLeast`); from these two facts follows what starting,
unlinking and moving on do to it (`PushedList`, `SkippedFrom`, `SkippedCursor`, `SkippedList`).

The inductive invariant `LInv` is `IInv` of the stack with `Rest`: the list has no loop; `Active`, that a listed process is RUNNING
or its call or exit is on the stack; `Places`, where each kind of frame can be; `PollsKept`, that a process whose poll is owed
is recorded or ahead of a loop; and `BroadcastOK`, that the processes a broadcast has neither called nor seen started are ahead
of its cursor. `ProcAssumption`, that there are finitely many processes, is what the counting needs.

### Timers (`Etimer_proof`)

All rests on one relation between the clock that wraps and the true time, `Started`: `start + interval` and `clock + left` are
the same time or just a lap apart. From it follow `ExpiredIffDue`, and that the differences `update_time` takes are the true ones.
`NextIsEarliest` says that `next_expiration` is the time of a timer that is listed, and that none that is not due yet comes before
it; once timers have been taken away that is false, and `NextIsEarly` says that it is early enough. `PollAsked` says where a timer
that is due can be while no poll is pending: ahead of `etimer_process` in its scan. `ListSound` needs to know who makes a call: the
caller of `add_timer` runs or is `exiting` from the call to the moment it puts the timer on the list (`CallerRuns`), since neither an exit nor a
start comes in between, and an owner that is neither has no timer but those it has `rearmed`.

### Screens (`Panel_proof`)

A screen that is left by a time-out, without `PROCESS_EXIT`, may still be resumed by its timers. `LeftOvers` says which
screens can be in that state and that they wait in their loops; with it, whatever such a screen does leaves the current one, its number
and its code alone, or loads the idle screen. `WaitShown` (where the current screen waits while the wait screen is up), `NumberShown`
(overview and pin have a known number) and `CodeOpen` (`CodeCleared`, and no digit counts while a message is shown, behind which the
bytes are blanked but `input_pos` is not set) complete `IInv`. `ActivationGranted` speaks of the pin screen whether it is the
current one or not; that one which has been left switches nothing on is `NotSending`, from `LeftOvers`. For numbers below `NumberMod`, `Stored` is the
identity, and the theorem says that the point meant is the one that is switched on. For others it is not, and this is
what the code does (section 7).

### Addresses (`Netconf_proof`)

Answers are matched by an index of the table alone. `GoodTable` says that a name has one entry; `WireRight`, that a question sent with
the index of an entry is for the entry's name, or that name is `crossed`; `DoneRight`, that an entry's answer is for
its name, or the name is `crossed`; `NtpAsking`, that the time service asks only when it has servers. What the panel starts with is
defined by recursion over the URLs (`initialNames`, `initialSeqno`), so that the initial state needs induction (`DataInduction`).

### The allocator (`Cmem_proof`)

*The inductive invariant* `IInv` is `TypeOK`, `OwnersSafe` and `CallOK`, which says of a call in progress what the loops rely
on: that `cmem_free`'s block is there and free, that owners' pointers are not NULL, and that `cmem_malloc`'s caller has no block yet and asks for a size that fits the
block it will take. `OwnersSafe` is kept by a merge since it takes away the beginning of a block that is free, and by a
split since it adds one in a block that is. That the sizes are powers of two plays no part.

`BuddySystem` needs it. In the middle of a call there are free twins, so `BuddyInv` says which: of two halves that `cmem_malloc` has just
split the lower one is the block it looks at first, and `cmem_free`'s own block is one of any two. The blocks are seen as
those that begin in a set of addresses, and `SplitBlock` and `MergeBlocks` say what one more or one less does to the sizes and twins of
all others. That powers of two double (`Bits`) is proved by induction over `shift`, and the alignment of halves and twins
by `EvenMultiple` and `OddMultiple`.

### Packets and connections (`Scp_proof`)

What is hard here is that a reply, a time-out or an eviction resumes a process in the middle of the library's code, and that process may put a packet,
which may evict another, and so on to any depth. The stack is therefore part of each invariant.

*Types.* `TypeInv` adds to `TypeOK` the types of the frames and what may lie on what (`Nested`: a process lies on what has resumed it, a
put on its process, an eviction on a put), that the protothread of a frame is in its place, and that a connection in the place after a send has a packet (an ACK
finds the packet it is for, `SCP_Comm.c:365`). It holds in every use.

*Nobody is forgotten* (`CalmInv`). While processes put packets from outside of the library's calls only (`use.nested = {}`), the places behind a post and
before a removal are never covered by another such place (`Shielded`), and what the code found there still holds when the call has returned
(`Promises`): nobody waits for the packet that is removed next. A packet that is removed in these
places is thus nobody's, or its process was told. The devices may do all that the model has: requests, ignored and
garbled messages, breaking at any step. With puts from handlers the theorem is false: such a packet may take the slot whose time-out
is under way, and goes with it (`SCP_Buffer.c:177-200`).

*Connections* (`LinkInv`). Here processes do put from handlers, to any depth. `LinksOK` says of each connection that is up and whose protothread is not on the
stack that either nothing is under way on it, or it is occupied with one packet, which the only reply that may still come is for (`Linked`), and
that `Cur_Packet` and `last_send_Packet` are this packet while the protothread waits; `FramesOK` says the same of the places in the
protothread where it is on the stack. A removal of a packet, however deep in
nested calls, closes the connections that are occupied with it (`Closing`), and this is what keeps `CurLive`. From these follow
that only packets of the buffer are sent and that none is sent twice (`LinkedSends`).

*Processes* (`WaitInv`). `Owners` says that a packet's process waits for it or has been told, `ToldAwake` that who was told waits no more, `Distinct` that a process is
resumed once at a time, `AnsweredBy` that between the post of a reply and the removal of the packet its process is still running; `Matched` is then what
`ReplyMatchesRequest` says of the top of the stack. The hypothesis `[][~NestedEviction]_<<use, vars>>` excludes one kind of step, a
put that evicts a packet while another time-out is under way; that is the hazard at `SCP_Buffer.c:177`, in which a process loses its packet. It is met when
no process puts from a handler (`CalmEvictions`), and in `scp_client` also where they do, since three slots are enough for two processes.

*Requests of a device* (`OnceInv`). With requests, `Cur_Packet` is set back to a `last_send_Packet` that may have timed out, and `Linked` is lost: pointers
lead to packets that are gone. What stays is weaker: each points to a packet in the buffer or to the one that some `last_send_Packet`
keeps (`Held`, `PointersHeld`), `NewId` gives no two of these one id (`OneEach`), and one whose reply may still come has been sent (`AskedSent`), so that the test of
`send` (`SCP_Comm.c:355`) stops a second time. With one device the connection that breaks, where `send` is set back, is the one
the reply was to come on.

*Why the hypotheses are needed.* With requests of the devices `PointersLive` and `ReplyMatchesRequest` are false (run `scp_reply`). With requests of two
devices `NotSentTwice` is false as well: a packet that is gone leaves its slot to a packet of the other device, `Cur_Packet` leads to it behind a request
(`SCP_Comm.c:332`), and when that connection breaks, `SCP_Device_Sock_End` takes its `send` back (`SCP_Device.c:231-239`), so that the other device,
which has it and will answer, is sent it again behind the answer to a request of its own. TLC finds this in 36 steps, with two slots and one process. With the card, `CurIsLive` is false for two devices and two slots: the reply of one to the packet on the card is
not recognised, because `SCP_sd_packet` was read again for the other (`SCP_Buffer.c:288`), and becomes an incoming packet. If its connection breaks
before the answer is sent, another packet is sent first on the next one, and times out when that has broken too; then the answer
is sent, and behind its ACK `Cur_Packet` becomes `last_send_Packet` (`SCP_Comm.c:370`), the packet that is gone.
TLC finds this in 27 steps from where the file was read for the second device; from the start it is out of a run's reach.

### Devices and connections (`Devices_proof`)

`StateSound` relates the list, the Devices and the connections, and each of the twenty-odd events of uIP moves one of each. `StateSound` is
not inductive: that a Device has its Buffer while one of its connections is handled does not say that it has it when the next is
answered. `IInv` adds where a Buffer is without a connection saying so (`ListedFresh`: a listed Device that is unknown, connected or
timed out has it), and why a Device is in the list where the code does not look: only a host that has connected and not told who it is
is deleted, so that servers and a Device that is probed stay (`ServersStay`, `ProbedStays`); memory that is not in the list is connected
to only after an event has changed it (`UnlistedIdle`), as it is unknown until then and `SCP_Loop_active_devices` passes it
over (`NextActiveIn`); and so a SYN is for a listed Device that is known, or one that is noted (`SynKnown`, `SharedTwice`).

The proof has two layers. `StepSound` says what any step does, in terms of single Devices and connections (`Kept`, `StateKept`,
`SynMade`, `BufferKept`, `NewHandled`), and `StepKeeps` that with the history (`Note`) such a step keeps `IInv`. Most actions move single Devices and
connections: a Device takes part and is known behind it, or is deleted (`DevMoves`); a connection advances, opens, or is given to a
known Device (`ConnMoves`); `MovesSound` concludes `StepSound` from these, and each action then has a lemma of its own. `Timer`
and `Accepted` of a new host, which change links of others, are shown to be sound directly. The walks along `next_order` and the initial
Devices are recursive functions, about which `DataInduction` has the induction.

### Assumptions

`NullAssumption` (NULL is none of the values), finite sets (`ProcAssumption`, `TimerAssumption`), `NumEventsAssumption`
(`2 * NumEvents` fits the `unsigned char` the index is computed in), `ClockAssumption` (intervals and delays are shorter than a lap of
the clock), `NumAssumption`, `CodeAssumption` and `AnnouncedAssumption` (the sizes of the number and the code), `WidthAssumption` and
`UsesAssumption` of `Netconf`, `UsesAssumption`, `SizeAssumption` and `ServerAssumption` of `Scp` (what a use is, ids are numbers, which messages a device may send of
its own; some theorems add `Server = {}`, none of these), `PoolAssumption`, `PowerAssumption` (`CMEM_SIZE` is one bit, and sizes fit 16), `SizesAssumption`, `BitAssumption` (each
size has a highest bit) and `TextAssumption` of `Cmem`, `NullAssumption`, `DevIdAssumption`, `SizeAssumption` and `UsesAssumption` of `Devices`
(the servers of the file fit the memory for Devices, and an address has one device), and the bounds of the runs. TLC evaluates each on the instances.

### What the proofs found in the models

* `Etimer` first excepted from `NoMissedExpiry` an exit since which the clock had wrapped. That was wrong: an exit after the
  wrap leaves `next_expiration` stale just as well, if the timer that was taken away lay in the lap before. The exception is now
  `lap = "over"`, and the instance has two processes, without which the case does not occur.
* `Etimer` had no call of an exited process's thread, and with it claimed that every pending timer's owner runs. It need not; `ListSound` says
  now which timers may be left.
* `CodeCleared` only counted the digits. What it is about is whose digits they are, which takes `uid`.
* `Cmem`'s pool could be of any size, but only a power of two is one block at the start (`cmem_init`).
* `Scp` did not say that NULL is no slot and no packet of the card, nor that the card is no slot (`NullAssumption`).
* `PointersLive` and `SendsOnlyPending` were expected to hold with the card. In the instance of `scp_card`, which has one
  device, they do; for two they do not.
* `NotSentTwice` was expected to hold whatever the devices request. In the instance of `scp_server`, which has one device, it does; for
  two it does not. `OnceInv` was checked with TLC on two instances (4 million states each) before it was proved.
* `Scp` had `UNION` before `\cup` without parentheses, which TLC and TLAPS read differently.
* `Netconf` let the table have more entries than its counters tell apart and the queue less room than the start-up needs; both
  are now in `UsesAssumption`.
* `Devices` claimed that `loop` and the links of listed Devices stay in the list, which its instance is too small to refute: they may lead to a
  Device that is deleted. The model now keeps what such memory holds, and `BufferWhenHandled` says of it what is true: it
  may be connected to (`deleted`). `IInv` was checked with TLC on two Devices, two connections and two hosts that connect (17 million
  states, all without violation), and by simulation with three Devices, before it was proved.

### Only model-checked

Liveness (`PollServed`, `FullQueueDrains`, `DueIsServed`, `WaiterResumed`, `Returns`, `Reconnects`, `EveryDeviceTold`), which needs
fairness and ENABLED, beyond TLAPS here. The library's theorems on induction take operators as parameters, which the provers
cannot instantiate; `DataInduction` has them for sets and functions, which they can.

---

## 7. Where code and comments disagree

* `scp_reply`. `SCP_msg.h:139-149` says that a request returns, in the packet, one of four types of message: the answer to it, or an
  error. A time-out closes the connection whose `Cur_Packet` is the packet, but leaves `last_send_Packet` on it
  (`SCP_Buffer.c:187-201`). While the panel answers a request of the device, `Cur_Packet` is that answer; if the panel's own
  request times out then, the connection stays open, and the late reply is still taken for it: the process, which was
  told of the time-out and has sent another request, goes on with the reply to the first as the answer to the second.
* `panel_left`. `SCR_Init.h:44` says of `SCR_load` "load a screen and exit current screen", `process.h:388` of
  `process_exit` that it "causes a process to exit". The time-outs of three screens call `SCR_load` without
  `PROCESS_EXIT` and go on to wait (`SCR_Overview.c:143-146`, `SCR_Language.c:83-86`, `SCR_pin.c:42-44`); `call_process`
  then marks the process RUNNING although it has left the list (`process.c:198`). A timer event that was posted to it
  already resumes it, it sets its timers, and these resume it again: an overview that refreshes over the idle screen.

Seen in the models, without a comment that says otherwise:

* The pin screen stays until a key is pressed if its time-out comes while it waits for a reply or shows a message (`Returns`
  without `current = "pin"` fails).
* An exit leaves `next_expiration` where it was. When the clock wraps past that time, the timers that are left are late until
  something else asks for a poll (`NoMissedExpiry` without `lap = "over"`).
* A timer may be pending whose owner has exited, set by its thread behind the exit (`OwnersAlive` without `rearmed`). When it expires its event
  is posted and `call_process` drops it, since the owner is NONE; if the owner has been started again meanwhile, it is taken for one of its own.
* The pin screen presents the code for the number typed, an `int16_t` (`SCR_pin.c:76`), and then sets the State of the point its low byte names
  (`SCR_pin.c:67`, `:81`, through the `uint8_t` of `SCP_varname_array` and `Energy_point_device`): for 300, point 44 if there is one. `ActivationGranted` with
  `granted = Here` for `Here = Stored(granted)` fails in run `panel`. No comment says what is meant for such numbers, so that this is no
  run of its own; whether the server accepts them is not known here.
* A full buffer and a send from within a time-out's handler lose a packet without its process being told.
* Behind a request of the device, a connection is set back to a `last_send_Packet` that has timed out meanwhile, and sends nothing
  until it breaks (`CurIsLive` with requests of the device; `SCP_Comm.c:332`, `:370`).
* With two devices, the packet there may by then be one for the other device, which is sent it twice when the connection
  breaks (`NotSentTwice` with two devices that send requests; `SCP_Device.c:231-239`).
* A text freed twice gives the block of its next owner away (`OwnersSafe` without `hit`).
* A connection whose FIN nobody answers is dropped without an event: its device stays CONNECTED for ever and is not
  reconnected to (`StateSound` without `dropped`).
* A host that connects while the panel is connected to it shares the device: the end of either frees the Buffer of the
  other (`StateSound` without `twice`).
* A device that is deleted before it has told who it is (`SCP_Device.c:116-120`) is still pointed to. If its connection is then reset while
  the last acknowledgement is awaited, `State` and `Attempts` are written into memory that was freed, and `SCP_process` may connect to it along
  `next_order` (`StateSound` without `deleted`; it takes two hosts and two connections, which is more than the run has:
  TLC finds it by simulation with three Devices, and the theorem covers it).
* When its memory is given to another unknown host, `prev_order` may run in a circle: the new one is behind the last of the list, which may be
  behind the memory that was freed. If all on it have no attempts left, `SCP_Device_prev_online` (`SCP_Device.c:241-249`) called for a third
  never ends, and nothing else runs. In `Devices` the loop ends after as many turns as there are Devices (`PrevOnline`).
* An answer for the former name of an entry is taken for that of the new one (`RightAddress` without `crossed`), and of two
  devices with one name only the first is told its address.

---

## 8. What is not modelled

* Pure I/O: displays, I2C, UART, Ethernet, SD card and FatFs, flash. Vendored code. Texts and formatting.
* Components that this panel is compiled without (`PAYING_MODULE`, `RESERVATION_MODULE` and `MENU_MODULE` are 0): payments,
  reservations, menus, their devices, printers. No line of them is in the program that runs.
* `process_run` from within a protothread (EDIP until its initialisation, printers): `do_event`'s static variables are then
  shared. A hazard in `PROJECT.json`.
* Devices: that a loop along a circle of `prev_order` does not end (section 7); what else uses memory that was freed.
* SCP: errors of the card; the data of packets; two connections of one inbound host.
* Network: segments, sequence numbers, ARP and checksums of uIP; mDNS, compiled out; the exchange with the time server.
* AMS: one command at a time over a connection of the kind `Devices` models; it reads and writes files and settings.
* Panel: what is drawn, the reset of the startup screen, `Energy_point_process`, which `main.c:53` does not start.

---

## 9. Running

    tlc -config Process_nest.cfg MCProcess.tla    # the other runs likewise, see PROJECT.json
    tlapm Process_proof.tla                       # and Etimer_proof, Panel_proof, Netconf_proof, Cmem_proof,
                                                  # Scp_proof, Devices_proof, DataInduction

The modules use the community modules (`SequencesExt`), the proofs `SequenceTheorems`, `FiniteSetTheorems`,
`WellFoundedInduction` and `TLAPS`. `Process_proof` and `Scp_proof` take some minutes, the others less.
