# A TLA+ model of the COHERENT network service

This directory specifies the part of the Commodore 900 COHERENT userland that
is concurrent, shared and hard to test: the TCP/IP service of `src/net`. Every
other program in the repository is a sequential command; the network service is
a daemon (`inet`) that many processes talk to through FIFOs, with one thread,
twenty-odd file descriptors, a clock that somebody may set, and clients that may
be killed at any moment.

Contents: [the system](#1-the-system) · [the modules](#2-the-modules) ·
[the runs](#3-the-runs) · [the proofs](#4-the-proofs) ·
[where the code and its comments disagree](#5-where-the-code-and-its-comments-disagree) ·
[not modelled](#6-what-is-not-modelled) · [plan](#7-plan)

To repeat a check: `tlc -config Channel.cfg MCInetChannel`,
`tlapm FdCacheProofs.tla`. `PROJECT.json` lists the runs, maps each definition
to the source lines it models, and gives for each property a mutation of the
model that breaks it.

## 1. The system

### 1.1 Parts and how they interact

```
 program ── libsocket.c ── inet_chan.c ══ FIFOs ══ coh_sr.c ── tcp/udp/psip/eth
            sockets        one channel            channels      the stack
                                                  coh_fdc.c        │
                                                  descriptors      │
                           coh_inet.c: select() loop ── coh_clock.c, event.c
```

There are no sockets in this kernel. A client makes two FIFOs under `/tmp`,
writes a *hello* with their names to the daemon's rendezvous FIFO, and from then
on writes requests (`NWR_OPEN`, `READ`, `WRITE`, `IOCTL`, `CANCEL`, `CLOSE`) to
the first and reads replies from the second. A program holds the reply
descriptor and calls it a socket. The daemon is MINIX's inet behind a COHERENT
front: `coh_sr.c` turns records into calls of the layer (`srm_read`,
`srm_write`, ...), and a layer that cannot finish an operation *suspends* it and
answers from a call-back when a segment, a timer or a peer makes it possible.

| part | source | state | operations |
|---|---|---|---|
| descriptor budget | `net/inet/coh_fdc.c` | per slot: path, cached descriptor, use stamp | hold, forget, fd (open or evict), spare, room, ceiling |
| channel server | `net/inet/coh_sr.c` | per slot: request descriptor, current request, bytes of payload unread, what is suspended, what was replied | accept, refuse, serve a request, reply, drain, cancel, end of file |
| client channel library | `net/inet_chan.c` | two descriptors, a posted READ, a hold buffer | open, arm, recv, write, ioctl, post/wait, cancel, close, abort |
| socket library | `net/libsocket.c` | socket table keyed by descriptor number | socket, listen, connect, accept, close, sockdrop |
| clock and timers | `net/inet/coh_clock.c` | cached time, ticks, last second, last time handed out; the timer chain | get_time, reset_time, arm, release, expire |
| event queue | `generic/event.c` | a list | enqueue, process |
| main loop | `net/inet/coh_inet.c` | – | select, dispatch |
| TCP | `generic/tcp.c`, `tcp_send.c`, `tcp_recv.c` | connection blocks: sequence positions, two queues, two windows, a timer; descriptors on them | listen, connect, write, read, shutdown, close, a segment, a timeout |
| ARP and the packets behind it | `generic/arp.c`, `ip_eth.c` | a cache shared by all ports, one request per port, a queue of packets | send, a packet from the wire, a timeout |
| UDP, IP, ICMP, psip, Ethernet | `generic/*` | ports, routes, reassembly | ... |
| link daemons, inetd, clients | `net/coh_slip.c`, `net/inetd.c`, ... | – | users of the two libraries |

The rest of the repository (base commands, editors, games, archivers, HR and MGR
window systems, Kermit and Zmodem, mail) is listed in `PROJECT.json` with the
reason for leaving it out.

### 1.2 What is hard

* **Clients run beside a single-threaded daemon** and die between any two of its
  steps. Every `open()` of a FIFO depends on somebody at the other end.
* **Descriptors are the scarce resource** on both sides: the daemon keeps one per
  channel and borrows one for each reply; `accept()` needs three more at the
  moment it has just used the last ones.
* **FIFOs are byte streams.** Payload left unread is the next request; a reply
  too many or too few puts the channel out of step for ever.
* **Replies come out of order.** A READ is outstanding while WRITEs are answered;
  a layer may answer during the dispatch of another request.
* **Signals** interrupt a wait, and the cancel races the answer it is cancelling.
* **Slots are reused**, with whatever the previous occupant left in them.
* **Segments** are lost, repeated, overtaken and late, sequence numbers wrap, and
  programs write, read, shut down and close at any moment between them.
* **Address resolution** is one request at a time for everybody who waits, over a
  cache whose entries expire and are recycled, with call-backs into the caller's
  own queue.
* **Time**: timers are armed and released by the functions timers run, while the
  chain is being walked; the machine's clock is set; the wait does not fit the
  integer of `poll(2)`.

`PROJECT.json` lists these at the lines where they bite (*hazards*), with the
properties that would notice.

### 1.3 What makes each part correct

* *Budget*: a descriptor to answer with can always be had; a cached descriptor is
  the present occupant's; a living client loses no reply; a refusal means full.
* *Channel*: one reply to each request, with its own tag; what the server thinks
  suspended is what the layer holds; the stream is neither lost nor reordered;
  waits that do not depend on the peer end.
* *Clock*: the chain is exact and sorted; the daemon never sleeps on work it has;
  time never goes back; due timers and queued events run.
* *TCP*: two byte streams, each read whole and in order; nothing is freed that may
  be needed again; what may be lost has a timer; a window offered is not taken
  back; what a program posts is answered.
* *ARP*: one entry for an address, a request that is always settled, no frame to a
  host it is not for, no packet left waiting.
* *Sockets*: the table names the descriptors the kernel has; a number means what
  the caller takes it for; failures give back what they took.

## 2. The modules

| module | models | extends |
|---|---|---|
| `FdCache` | admission and reply descriptors, all slots and clients | – |
| `FdCacheProofs` | proofs of it | `FdCache` |
| `InetChannel` | one channel, both ends, with the layer behind it | – |
| `InetChannelProofs` | proofs of it, and of its stream | `InetChannel`, `NatLemmas` |
| `NetClock` | clock, timer chain, event queue, main loop | – |
| `NetClockProofs` | proofs of it | `NetClock`, `NatLemmas` |
| `LibSocket` | one process's socket table and descriptors | – |
| `LibSocketProofs` | proofs of it | `LibSocket`, `NatLemmas` |
| `ByteStream` | what a TCP connection promises, abstractly | – |
| `TcpConn` | two connection blocks and the network between them | instantiates `ByteStream` |
| `TcpConnProofs` | proofs of it: the timer, and each C function on one block | `TcpConn`, `NatLemmas` |
| `TcpStreamProofs` | proofs of it: two blocks and the network, the streams | `TcpConnProofs` |
| `ArpResolve` | the ARP cache and the packets that wait for it | – |
| `ArpResolveProofs` | proofs of it | `ArpResolve`, `NatLemmas` |
| `NatLemmas` | least elements, induction, recursion, counting in a sequence | – |
| `MC*` | names for constant values, symmetry sets | the above |

A handler of the single-threaded daemon is one action, with all it calls. A call
of the client library is split where it blocks and nowhere else. Definitions
keep the names of the C functions they model; operators that take and give a
record (`sr_drain(s)`, `relisten(q)`) model functions called inside a handler.
Operators whose comment describes a mistake (`GreedyRoom`, `SwapBackwards`,
`WhichByTime`, `KeepTRM`, ...) are the mutated forms named in `PROJECT.json` and are not
used by the specifications.

### 2.1 FdCache

`reqfd` is `sr_chans[]`; `active`, `path`, `held`, `use` and `stamp` are
`fdc_chans[]` and `fdc_stamp`; `rv` is the rendezvous FIFO and `linked` the names
in `/tmp`. A client stands for the pair of FIFOs it makes, and a descriptor is
represented by the client whose FIFO it is open on, so that "the wrong FIFO" is
expressible. `sr_accept` reads one hello and admits or refuses, including the
evictions of `fdc_spare`; `Reply` is `fdc_fd` as any layer reaches it;
`ChanClose` and `ChanEof` are the two ends of a channel. `stamp` has a width and
wraps (`StampMod`), because eviction compares stamps.

`Die` kills a client at any point. An `open()` of a FIFO with no other end sets
`blocked`, after which the daemon does nothing (section 5).

### 2.2 InetChannel

`req` and `rep` are the FIFOs, as sequences of items: a record is one item and so
is each unit of payload behind it. `ch` is the `sr_chan_t`, `cl` the
`struct ichan` with the place where the client is blocked, `lay` what TCP or the
pseudo-IP device, whichever `NWR_OPEN` named, has in progress: a READ of so many units, a WRITE with so many
left to fetch, an ioctl waiting for a peer. Data are numbered by the peer, so
loss, repetition and reordering can be told apart.

`sr_chan_req` takes one request and dispatches it; the layer's call-backs
(`get_reply`, `put_reply`, `sr_get_userdata`, `sr_put_userdata`) run inside it, or
inside an event of the network (`Arrive`, `Fin`, `Reset`, `WindowOpens`,
`tcp_restart_connect`). On the client's side `ichan_await` takes a reply, a READ's
data going to the hold buffer, and `Interrupted` turns the wait into
`ichan_cancel`. The client may close or exit at any point and the slot is used
again (`MaxGen`).

A channel ends with whatever it has in progress: `sr_chan_req()` calls
`srm_close()` at NWR_CLOSE and at end of file and cancels nothing first. What TCP
had goes with it. The pseudo-IP device keeps the reader's record
(`lay.stale`, operators `Closed` and `Opened`): `psip_close()` clears its flags and
leaves it in the port's list, `psip_open()` gives the same record to the next
channel, and `psip_send()` answers it, until that channel's own first READ
takes the record over. `lay.strayed` remembers, for the properties, that this has
happened to the present channel (section 5).

Once the daemon has read payload as a request (`misparsed`) anything can happen
and the model stops there; `OnlyWritesMisread` says what alone leads there.

Abstractions: ioctls are three kinds, by what a layer does with the argument and
whether it waits; error codes are -1; record writes are whole, being shorter
than `PIPE_BUF`; urgent data, and the answer to a READ that only
`TCP_MIN_RCV_WND_SIZE` unpushed bytes provoke, are left out. The pseudo-IP port is
used by one channel at a time.

### 2.3 NetClock

The variables are those of `coh_clock.c` under their own names, the event queue,
and `pc`, the place of the daemon in `main()`. `wall` is the machine's clock in
ticks. While `pc` is in `Code`, code of the stack is running, which may call
`clck_timer`, `clck_untimer` and `ev_enqueue` any number of times before `Return`,
in particular from a timer's function, in the middle of `clck_expire_timers`.
`Elapse` may come between any two steps, so handlers take time; `SetClock` is
somebody setting the clock; `SelectSignal` is an interrupted `select()`.

### 2.4 LibSocket

`p.fd` are the process's descriptors and what each is open on, `p.sock` the
table, `p.chan` how far each channel's layer has got, and `role` is what the
*program* takes each number for, from the return values it has seen. The calls
are compositions of operators on the process that follow the code's order of
opens, dups and closes, since which number is lowest depends on it; those that
can fail give the set of their outcomes: short of descriptors, of slots or of
channels, refused by the daemon, ended by an error or by a signal, `dup2(2)`
failing.

### 2.5 ByteStream and TcpConn

`ByteStream` is the promise: two sequences of bytes, each written at its end,
ended once, and read from its beginning, the end being told only after all of it.
One step is what one endpoint does at once.

`TcpConn` is the connection. `tcb[p]` is the `tcp_conn_t` of endpoint `p` under its
own names (`UNA`, `TRM`, `NXT`, `LO`, `RCV`, `HI`, `cwnd`, `cthresh`, ...), with the
flags of the `tcp_fd_t` on it and what the program behind that has seen. A byte is
its place in the stream. Positions are counted modulo `SeqSpace` and compared as
`tcp_int.h` compares them, by the top bit of the difference; the runs start close
to the wrap.

An action is a handler and the output it causes: everything in the code that has
something to send queues its block (`tcp_conn_write`), and the main loop drains
that queue before it takes the next input or timer, so each action ends with
`Finish`, which calls `make_pack` until it has nothing left. `tcp_frag2conn` is split
by state, as the source's `switch` is; `find_best_conn` becomes the choice between
the block and no block (`NoConn`). `tcp_fd_write` and `tcp_fd_read` are called from
where the code calls them: a post, an acknowledgement, data, an end, a reset.

The *network* is a queue to each side. `DeliverFirst` takes the first segment;
`Lose`, `Duplicate` and `Overtake` are faults, as are `TimerEarly`, a retransmission
with something still under way, and `TimerGivesUp`; `MaxFaults` bounds their number.
`FaultKinds` says which may happen. The length of a time-out is not modelled: a
timer that must retransmit may do so freely once nothing is under way
(`NetEmpty`), which is what the time-out is meant to establish.

The *programs* follow one of a set of scripts: how the connection is opened, the
sizes of the writes, the size of the reads, whether there is a shutdown, and when
the descriptor is closed. Any order of their calls, and of the calls with the
segments and timers, is possible.

Left out: urgent data, options, the estimate of the round trip, several
connections on a port, and a second connection on a block.

### 2.6 ArpResolve

`cache` is `arp_cache` and `port` the `arp_port_table`; `arpq` is the list
`de_arp_head` of `ip_eth.c`; `wire` holds the frames the last step put on the wire.
A host is its IP address and its Ethernet address at once, so a frame that goes to
the wrong one shows. Times are relative: `left` until expiry, `idle` since last use.

The actions are `ipeth_send`, a packet from any host (`Arrive`: a request or an
answer, to us or not, asked for or not), `Timeout`, `Tick` and the start of a port.
The code is re-entrant here, and the operators follow it: an answer enters
`process_arp_req`, which calls `client_reply`, which calls `ipeth_arp_reply`, which
calls back into `arp_ip_eth` for the next packet that waits, which may recycle an
entry and start the next request, all before `process_arp_req` writes to its own
entry again. A write to another host is over when it returns
(`coh_eth.c:eth_write_port`), so the flags that say one is in progress are down at
the end of every handler and are not in the model. The exception is not in the
model either: a frame to the port's own address is looped back by an event
(`eth.c:447-453`), and until `eth_loop_ev()` has run a further write suspends
(`eth.c:373-377`).

## 3. The runs

All bounds are constants.

| run | instance | distinct states | properties |
|---|---|---|---|
| `fdcache` | 3 slots, 3 descriptors, 3 clients | 262,000 | `TypeOK` `HeldIsOwn` `Answerable` `NoReplyLost` `CeilingStable` `NamesTidied` `RefusedOnlyWhenFull` `EveryHelloAnswered` `EveryChannelReclaimed` |
| `channel` | two channels in a slot, either device, window of any width, 3 units of data, 2 signals | 4,322,000 | `TypeOK` `OnlyWritesMisread` `OneReplyEach` `PendMatchesLayer` `StreamKept` |
| `channel_live` | two channels in a slot, either device, open window, 1 unit, 1 signal | 182,000 | `WaitsEnd` `ChannelFreed` |
| `netclock` | 2 timers, 1 event, clock set once by -1, 1 or 4 s, 2 inputs | 1,300,000 | `TypeOK` `ChainExact` `NothingMissedAsleep` `AbsurdStepHarmless` `NeverBackwards` `DueTimersRun` `EventsRun` |
| `libsocket` | 6 descriptors, 3 slots, 3 channels, every failure | 1,800,000 | `TypeOK` `TableMatchesKernel` `CallersView` `NothingLeaks` |
| `tcp` | 3 scripts, 2 faults of 5 kinds, `SeqSpace` 64 | 864,000 | `NothingAckedLost` `CheckConn` `TimerCovers` `ShutdownMeansReceived` `StreamSpec` `WindowNeverShrinks` |
| `tcp_live` | 3 scripts, 2 segments lost or timers early | 215,000 | `Answered` |
| `arp` | 1 port, 3 hosts, 2 entries, 3 packets | 451,000 | `TypeOK` `OneEntryEach` `RequestCovered` `QueueCovered` `FrameFindsHost` `EveryPacketLeaves` |

The other four runs are counterexamples; see section 5.

What the passing runs show:

* `fdcache`: whatever clients come, close or are killed, a reply goes down the FIFO
  of the slot's present occupant, there is a descriptor to answer with, no living
  client's reply is dropped, a client is turned away only at the announced number
  of channels; and every hello is answered and every channel reclaimed, unless the
  daemon has gone to sleep in `open()`.
* `channel`: each request has one reply under its own tag, cancelled or not, also
  when a READ completes inside the dispatch of a WRITE. The one thing that a slot's
  second channel can see of its first is a READ that the pseudo-IP device was left
  with: it may be answered to a channel that has not asked, once, which is then
  never more than one READ reply ahead, and whose other requests are not touched
  (`OneReplyEach`); it is never taken for something to cancel
  (`PendMatchesLayer`). In every other channel the received stream arrives whole
  and in order, and only a WRITE suspended half-way puts the FIFO out of step.
  `channel_live`: cancels, writes into an open window and reads with data end, and
  an abandoned channel comes free, in the first channel and in the second.
* `netclock`: re-arming and releasing timers from timers' own functions keeps the
  chain exact and sorted, and `select()` never outlasts it; with the clock being
  set, time does not go back and due timers and events still run.
* `libsocket`: after any sequence of calls and failures the table names the
  descriptors the kernel has, a number the program holds is what it was told, and
  nothing is left open but by an interrupted `ichan_open()`.
* `tcp`: whatever happens to the segments, `TcpConn` *implements* `ByteStream`
  (`StreamSpec`: every step, seen through the mapping of section 4.7, is a step of
  the two streams or changes nothing in them); what was acknowledged is held or
  was read; the sixteen-odd counters and the two queues agree (`CheckConn`, which
  is `tcp_check_conn()` and the assertions the build compiles out, with the
  types); unacknowledged data has its timer running; a shutdown answered with
  success means that the peer has everything. `tcp_live`: every connect, write,
  read and shutdown is answered.
* `arp`: an address has one entry; a port that asks has exactly one incomplete
  entry, for what it asks, and its timer running, so the assertion of
  `arp_timeout()` holds; packets wait only while somebody will look at them
  again; frames reach the host they are for; no packet waits for ever.

**Why the bounds are enough.** *FdCache*: with as many descriptors as slots the
descriptors are the limit: an admission may find the last of them in a cached
reply and has to evict, a reply may find nothing free, and a client is refused
with a slot still free. Names are reused (`Again`), so histories are not bounded.
`StampMod` 2 makes the stamp wrap after a few replies. The proofs cover every
size. *InetChannel*: a hold buffer of two with three units of data fills;
one-unit reads leave a remainder; two signals allow a cancel to be interrupted,
and one operation to be cancelled after another. Two channels are enough for what
one leaves to the next, since the device has one record and a READ of the second
channel takes it over. *NetClock*: with `HZ` 2 a second
has a first and a last tick; delays of 1 and 5 straddle `MAX_WAIT` 2 and `PollMax`
3; of the jumps one is negative, one within and one beyond `CLCK_MAX_STEP` 3.
*LibSocket*: six descriptors hold two sockets and two more, so `accept()` meets
every shortage from none free to enough. *TcpConn*: a segment carries two bytes
and the windows are four, so the writes are cut by the segment, the last one
finds less room than it needs and suspends, and a small write before a larger one
makes a retransmission cut differently from the first sending, so that an
acknowledgement overtakes it. The receive window closes and reopens when the
reader is slow; one side's numbers start two below the wrap. Two faults
lose a segment and its retransmission, or reorder one and lose another; the data
that follow a lost segment are held in advance. `SeqSpace` 64 keeps the distance
the comparison needs (`NetAssumption`). *ArpResolve*: two entries for three hosts
force recycling; two tries let a request be repeated and given up; the expiry
times differ from each other and from the time-out, so an entry may expire before,
while and after it is asked for; three packets are one that asks and two behind.

**Symmetry** is not used: the instances fit without it.

**Deadlock.** A daemon asleep in `open()`, a channel used up to the bounds, a
`select()` with no timer armed once input is over, and two endpoints that are done
really do stop; the runs that reach such a state say `CHECK_DEADLOCK FALSE`. In
`libsocket`, where a peer or a signal can always end a wait, and in `arp`, where
time goes on, deadlock is checked.

**Fairness.** Of the daemon's own steps weak fairness: its loop selects on
the rendezvous FIFO and on each request FIFO and serves all that are readable
before it selects again (`sr_handle_fds`), so a readable descriptor does not wait
for ever. Of a client only that a blocked `read()` returns once there is a reply.
Nothing is assumed of signals: a READ without data may wait for ever.
In `NetClock` the loop is fair and time passes. That input pauses is not a
fairness assumption but the bound `MaxInputs`: `main()` runs timers only after a
`select()` that timed out (`coh_inet.c:168`), so with input on every pass and
handlers that touch no timer, a due timer waits as long as the input lasts.
`Elapse` goes on past `MaxWall` for a `select()` that has time to wait, so a wait is
not cut off by the bound.

In `TcpConn` the programs do what their scripts have next, the network delivers
what it does not lose, and a running timer expires (`clck_expire_timers`, which
`netclock` shows to run due timers). The first two are weak fairness. The third is
strong, since the model enables a retransmission only while nothing is under way;
the code's timer needs no such help, as it expires whatever the network does. The
conditions are written out with the actions' guards, because evaluating `ENABLED`
would repeat each handler. In `ArpResolve` time passes and timers run, and nothing
is assumed of the hosts.

**What a property is worth.** Each has a mutant: the definition of one function
changed as a slip in the C code would change it (`fdc_room` keeping no descriptor
back, `sr_whichop` tagging by the request being dispatched, `clck_fast_release` not
taking the timer out, the dup and dup2 of `accept()` exchanged, the bytes already
received counted and not skipped, `alloc_cache_ent` recycling an entry that is
being asked for), under which TLC finds the property violated in the same run.

## 4. The proofs

TLAPS checks these for every value of the constants that satisfies the named
assumptions of the modules (sizes are positive, `NoFd` is not a client,
`MAX_WAIT <= PollMax`, ...). No result is assumed: every theorem is proved to the
last leaf.

The safety invariants of every component are proved, and that TCP implements the
streams of `ByteStream`. Each proof has the same plan. The code runs several
functions in one handler, and between them the tables are out of step, so the
invariant is stated of a *record* of the state (`Served` of a channel, the
`Process`, the `World` of ARP) and has a part that says which piece of it may be
out of step; one lemma per C function says what it makes of a good record; one
lemma per action puts them together; and the properties follow from the
invariant.

### 4.1 FdCacheProofs (815 obligations)

| theorem | states |
|---|---|
| `TypeCorrect` | `Spec => []TypeOK` |
| `BudgetHolds` | `Spec => [](Fits /\ Answerable)` |
| `RepliesGoHome` | `Spec => []HeldIsOwn` |
| `RepliesArrive` | `Spec => []NoReplyLost` |
| `CeilingHolds` | `Spec => []CeilingStable` |
| `RefusalIsHonest` | `Spec => RefusedOnlyWhenFull` |
| `NothingLeftInTmp` | `Spec => []NamesTidied` |

The inductive invariant is `IInv == TypeOK /\ HeldIsOwn /\ Fits /\ Answerable /\
Bookkeeping`; `Fits` and `Bookkeeping` are there for the proof and have no run of
their own. `Answerable` alone is not
inductive: that an admission leaves a descriptor depends on `fdc_room` counting
descriptors that are really there (`Fits`) and on the slot taken holding none,
which needs both tables to list the same channels (`HeldIsOwn`). That no reply is
lost needs that a client that is there can be found by name (`Bookkeeping`) and
that a descriptor to open with can be had (`Answerable`). The argument counts:
lemmas give the cardinality of `Filled(t)` after a slot is set or cleared, from
`FiniteSetTheorems`, then what each of `fdc_evict`, `fdc_spare` and `fdc_fd`
leaves, and the invariance proof has one step per action. `RefusalIsHonest`
follows since a refusal means no free slot or `~fdc_room`, and under `IInv` both
say that `Cardinality(Filled(reqfd)) = fdc_ceiling`. `NamesTidied` is inductive on
top of `IInv`: a channel is forgotten together with its client's name.

### 4.2 NetClockProofs (894 obligations)

| theorem | states |
|---|---|
| `ClockSound` | `Spec => []ClockInv` |
| `TimeIsMonotone` | `Spec => NeverBackwards` |
| `AbsurdStepIgnored` | `Spec => []AbsurdStepHarmless` |
| `TypeCorrect` | `Spec => []TypeOK` |
| `ChainSound` | `Spec => []ChainExact` |
| `SleepsNoLonger` | `Spec => []NothingMissedAsleep` |

`ClockInv` speaks of the clock's variables alone. It is needed because a reading
is compared with `clck_prev`, so the cache must be empty or hold just that value;
and because what a reading can be after an uncounted step depends on `clck_ticks`
having stayed below every time handed out. A lemma shows that every action does
one of three things to the clock (`get_time`, `reset_time`, nothing), so timers,
events and the loop do not enter.

The chain has `IInv == TypeOK /\ ChainExact /\ NothingMissedAsleep`. That a
release leaves the others in order, and that `clck_timer` puts a timer where it
belongs, are facts about inserting into a sorted sequence and removing from it
(`Inserted`, `Removed` of `NatLemmas`), the place being the least index whose
timer falls due later.

### 4.3 InetChannelProofs, the requests (6,829 obligations)

| theorem | states |
|---|---|
| `Invariance` | `Spec /\ [][~GivesUp]_vars => []IInv` |
| `TypeCorrect` | the same `=> []TypeOK` |
| `Misreading` | the same `=> []OnlyWritesMisread` |
| `PendExact` | the same `=> []PendMatchesLayer` |
| `OneReply` | the same `=> []OneReplyEach` |
| `NeverGivesUp` | `MaxSignals + 3 <= CancelTries` implies `Spec => [](IInv /\ Patient) /\ [][~GivesUp]_vars` |
| `EnoughTries` | `MaxSignals + 3 <= CancelTries` implies `Spec =>` always the four |

`OneReplyEach` counts what is outstanding of each kind. It is not inductive, for
three reasons, and `Sound(s)` has a part for each. That a record is read as what
it is depends on the FIFO being *framed*: a record is followed by its payload and
no more, and the daemon is at a record or in the payload of the last one (`Fit`).
That a reply is tagged as its own by `sr_whichop`, which does not know the request,
depends on there being one request of a kind at a time (`OneEach`). And that the
answer to a cancel or a reset settles what it should, and leaves no payload, depends on the
layer holding just what the channel believes suspended, a WRITE having as much
left to fetch as the FIFO has payload left (`Matched`). A fourth part is about what
a former channel left with the device: as long as its record waits there, no READ
of this channel's own has come to the layer or been answered, and only a pseudo-IP
channel that has been opened can be given it (`Leftover`).

Each helper of the daemon moves what is owed and loses none of it: `Owed(s, op)`, what is asked, held
and told, is the same after `sr_drain`, `sr_reply`, `get_reply`, every layer's
call and every event of the network (`Serves`). There are two exceptions, and both
are about READs (`Odd`): the former channel's record is answered, which is one
reply more; and in a channel that is one ahead a second READ may come to the layer
while the first is suspended and takes its place, which is one fewer. So every step of the
daemon keeps the sums, or is one of these and then keeps them (`Reaches`), and a
channel to which neither has happened has exact ones. That makes the daemon's half
independent of the client's: a daemon step keeps whatever the client believes
(`Attended`) because the sums are the same. The client's half is by cases of
where it is blocked. While its channel is being opened, only the NWR_OPEN is
owed, but for that one READ, and an answer that is not an error means an open
channel (`Opening`). At work, it believes what is owed (`Counted`), and in
`ichan_cancel()` nothing that it cancels comes behind the reply to the NWR_CANCEL
(`Ordered`), which is why that reply says that the channel is quiet. That holds of
a former channel's READ too: it has been answered by then, or this channel's own
READ has taken its record.

`GivesUp` is `ichan_cancel()` returning at the end of its tries
(`inet_chan.c:381-402`) with replies outstanding: the channel is out of step
then, and the properties do not hold.
`EnoughTries` says when it cannot happen. Each reply that `ichan_cancel()`
discards uses up a try and one of the at most two that are owed besides its own,
or three for a channel that is one READ ahead, and each other try a signal:
`tries + Debt <= sigs + 1`, or `+ 2` for that channel (`Patient`).
The bound is exact: with `MaxSignals` 2 TLC refutes `OneReplyEach` for four tries
in 23 steps, and five are enough. `ICHAN_CANCEL_TRIES` is 64, so 61 signals do no
harm.

### 4.4 InetChannelProofs, the stream (2,739 obligations)

| theorem | states |
|---|---|
| `StreamWhole` | `Spec /\ [][~GivesUp]_vars => []StreamKept` |
| `StreamOfPatient` | `MaxSignals + 3 <= CancelTries` implies `Spec => []StreamKept` |

`StreamKept` puts end to end what the program has read, what its client holds, the
data of the replies on the FIFO and what the layer has received, and says that
this is what the peer sent, in a channel that has not been answered a former
channel's READ. It is not inductive alone; `SInv` says it of a client
that has a channel (`Flow`), together with `IInv` of section 4.3, and adds

* `Roomy`: a READ that is asked for, suspended or answered is of no more than the
  room left in the hold buffer. This is why `ichan_take()`, which keeps what fits
  and drops the rest (`inet_chan.c:325-336`), never drops anything: `ichan_arm()`
  asks for that room and no more, there is one READ at a time, and the program only
  empties the buffer meanwhile. A reply that was not asked for breaks just this;
* `Joined`: nothing has come before there is a connection, and an ioctl that waits
  for one means there is none. Otherwise a connection that is made would start a
  stream in the middle of another.

The invariant is `GInv`: `SInv`, or the channel is one that has strayed. Such a
channel stays so until its client is done with it (`StaysStrayed`), and the next
one starts with nothing (`LeftIdle`), so what was lost in one channel is not
inherited.

A reset (`conn = "dead"`) drops what the layer has, and releases the property.
`FlattenSeq` is a recursive function inside: `Runs` says of a function that its
values are the data of the first *k* replies, and `Recursion` of `NatLemmas` that
there is one. From it follows how `Onward`, the data in the replies and behind them,
changes when a reply is added, taken or filled from the layer. Then there is again
one lemma per C function and one per action.

### 4.5 LibSocketProofs (3,307 obligations)

| theorem | states |
|---|---|
| `TypeCorrect` | `Spec => []TypeOK` |
| `TableTrue` | `Spec => []TableMatchesKernel` |
| `CallerRight` | `Spec => []CallersView` |
| `NoLeak` | `Spec => []NothingLeaks` |

`accept()` closes, opens, dups and closes again, and any of these may fail, so
`Sound(q, X)` is the order of a process in which the slots `X` have lost their
descriptors: every other slot in use names two open descriptors of a channel no
other slot has. `Grows` says what the calls that open something do: what was
open stays, what is new has new descriptors and a new channel, and nothing
further is astray (`Stray`). With that `relisten`, `acceptlost` and `accept` are
sequences of lemmas. The invariant is `Known(p, role, at)`: the process is sound
with `X` empty, and each number the program holds has the slot that its role says
(`SlotKnown`), which is `CallersView` with the states of listeners in between.

### 4.6 ArpResolveProofs (2,247 obligations)

| theorem | states |
|---|---|
| `TypeCorrect` | `Spec => []TypeOK` |
| `CacheIsMap` | `Spec => []OneEntryEach` |
| `QueueLookedAt` | `Spec => []QueueCovered` |
| `FrameRight` | `Spec => []FrameFindsHost` |
| `OnePortSettled` | `Port = {p0}` implies `Spec => []RequestCovered` |
| `RequestsSettled` | `Spec /\ [][Calm]_vars => []RequestCovered` |

`Good(w)` is what holds in the middle of a handler too: no address has two
entries of a port, an incomplete entry is what its port is asking for, a valid one
has its host's address, a timer runs only for a request with tries left.
`Waits(w, X)` and `Covered(w, X)` are the rest, for the ports outside `X`: `X` is the
port whose handler is between clearing `APF_CLIENTREQ` and calling back. The
re-entrance is followed inwards: `setup_write`, `arp_ip_eth`, the walk of the queue
in `ipeth_arp_reply`, `client_reply`, `process_arp_req`.

`RequestCovered` needs that an entry does not expire before the request that made
it is over: `Covered` says that its `left` is at least what the tries that are left
will take (`Due`), which at the start is `MAX_ARP_RETRIES * ARP_TIMEOUT`. Hence
`TimesAssumption`, of which `arp.c:20-27` leaves a wide margin: five tries of half
a second, an expiry of twenty minutes. And it needs `Calm`: no port gets its
address while another is asking, because `arp_main()` then clears the other's
entry (section 5). With one port that cannot happen, and `OnePortSettled` needs no
hypothesis.

### 4.7 TcpConnProofs (4,686 obligations) and TcpStreamProofs (5,673)

| theorem | states |
|---|---|
| `TimerRuns` | `Spec => []TimerCovers` |
| `NothingFreedEarly` | `Spec /\ []ShortStreams => []NothingAckedLost` |
| `AssertionsHold` | `Spec /\ []ShortStreams => []CheckConn` |
| `WindowKept` | `Spec /\ []ShortStreams => WindowNeverShrinks` |
| `ShutdownHonest` | `Spec /\ []ShortStreams /\ [][~CutsOff]_vars => []ShutdownMeansReceived` |
| `Implements` | `Spec /\ []ShortStreams /\ [][~CutsOff]_vars => StreamSpec` |
| `StreamsWhole` | `Stream!Spec => []Stream!Whole` |
| `PromiseKept` | `Spec /\ []ShortStreams /\ [][~CutsOff]_vars => []Stream!Whole` |

`TimerRuns` and what each C function makes of a block are in `TcpConnProofs`, the rest
in `TcpStreamProofs`. They hold for any sizes of segments and windows, any initial
sequence numbers, all scripts and any number of faults of every kind. `PeerAssumption`
says that there are two sides; `ScriptAssumption` gives the type of a script; a send
buffer has a size (`SND_WND > 0`).

`ShortStreams` says of each side that twice what its program has written, and the windows
and two segments besides, fit the space of sequence numbers (`Short`). It is a
hypothesis about *distance*: the numbers still wrap, from wherever the stream
began, and the proofs of `Lmod4G` and the others are about that wrap. It is needed
because the network may hold a segment for as long as it likes: a duplicate of the
first byte that arrives half the space later compares as new. That is true of TCP,
and RFC 793 leaves it to the lifetime of a segment, which the model does not have.
The run `tcp` is within it (`SeqSpace` 64, windows 4, segments of 3, streams of at
most 14). `TimerRuns` needs no such hypothesis: that the timer is on follows from
which handlers set it, whatever the comparisons give.

Every number is given its place (`Pos`) in the stream it counts: the SYN is at 0, the
n-th byte at n. The proof begins with lemmas that say what `Add`, `Diff` and the
comparisons make of places (`PosAdd`, `Near`), and what the queues are: a queue is a
run of consecutive bytes (`Run`), so that appending, cutting and dropping are
arithmetic on its ends. With these the inductive invariant is

* `Live`, of a connection: `Sends`, that `UNA`, `TRM` and `NXT` are in order, that
  `sendq` is what lies from `UNA` on, and that no more is acknowledged than the other
  side has received; and `Recvs`, that what was handed over and what is held are
  together all up to `RCV`, that no more came than was sent, and that what is held in
  advance (`adv`) is a run of the stream ahead of that;
* `Over`, of a block whose connection has ended or that never had one, and `Hand`, of one
  that is opening, which has nothing but a SYN under way;
* `Truth`, of every segment under way, duplicates and late ones too: its bytes are those
  of the stream at that place, its FIN is at the end, and it acknowledges no more than
  its sender received. A reset says nothing and needs nothing.

`ConnInv` says this of both blocks and both queues of the network. It is stated of one
side *against* the other, so a handler of one must not disturb what the other's part
says of it: `Grows` says that a block never takes back what it sent, received or
handed over, and `Truth` is kept by that. Each C function has a lemma (`tcp_fd_read`,
`process_data`, `process_advanced_data`, `tcp_release_retrans`, `make_pack`, ...), in
the states in which it is called, since between two of them a block is `Takes` and
not yet `Recvs`; then there is one lemma for each state of `tcp_frag2conn`, one for
the loop of `Finish`, one for each action.

Why the parts are needed: `NothingAckedLost` is not inductive, because a late
acknowledgement is believed; that it is true is `Truth`. `CheckConn` is not, because
`LO <= RCV` after a read depends on what is in `rcvd`. `WindowNeverShrinks` compares
`HI` before and after a handler that reads and receives in an order that depends on
the segment; each lemma carries it (`Grows`).

`ShutdownHonest`, `Implements` and `PromiseKept` are about what a program is *told*: the
end of the stream it reads, and that its shutdown has been heard. The code says what is
not so in one case, the clean reset of section 5; their hypothesis is that no step is
one. `CutOff` describes it as narrowly as the model can: a step that closes
a connection without an error, while the program still has its descriptor and either
bytes wait to be read, or its own FIN is not acknowledged and the other side is still
connected. (The first is the trace of section 5. The second would take a reset sent before the
connection was made, whose number falls in the window; no run has reached it.) A reset after both FINs that
cuts nothing off is not excluded, and `CleanSure` proves that it tells the truth.

`Told` is the invariant they add to `ConnInv`: after end of file everything was read
(`AllRead`), after a shutdown that succeeded the other side has it all or is over
(`Heeded`), and both are so of a connection that closed without an error, since it
gives both answers to whoever asks later. It is kept by what a block *answers*, so
`Tells` says of each function that replies what it tells, `Mute` of all the others
that they tell nothing, and `Does` carries it through the handlers beside `Good` and
`Grows`. `OtherTold` is the half about the other side: what p's program was told of q's
stream stays so when q takes a step, because q takes nothing back (`Grows`).

`Implements` is then the refinement. `TcpConn` contains

```
Stream == INSTANCE ByteStream WITH
  wrote <- what was taken from each program (1 .. tcb[p].sent),
  read  <- what each program was given      (tcb[p].got),
  ended <- a FIN was queued behind it       (tcb[p].ended),
  eof   <- it was told the end              (tcb[p].eof)
StreamSpec == Stream!Spec
```

TLC checks `StreamSpec` as a property of the run `tcp`. The proof goes step by step
(`StreamNext`): the endpoint that acts writes on (`WritesOn`) and reads on (`ReadsOn`),
the other's streams stay; or nothing of the streams changes, which is a stutter.

That says what is *allowed*, not what it is good for. `StreamsWhole` says of any
behaviour of the streams that what was read is a beginning of what was written, and all
of it once the end was told. The invariant is `State /\ Whole`; the argument is that
adding to a written stream keeps every beginning of it (`ExtendsTransitive`), and that
a stream which has been ended is not added to. `PromiseKept` puts the two together.

### 4.8 NatLemmas (328 obligations)

The library's induction theorems take an operator, which the provers here cannot
instantiate. `NatInd` and `Recursion` say the same of a *set*: a set of naturals
that has 0 and is closed under successor is all of them, and a step given as a
function has its recursive function up to any bound. From the second comes the
walk of ARP's queue (`Without`, a recursive function, in place of `SelectSeq`).
`Least`, `MinNat` and `MaxNat` are for the models' "first free"; `Inserted` and
`Removed` for the timer chain; `Hits`, the number of places of a sequence that
hold an element of a set, and how `Append`, `Tail` and dropping a front change it,
for `OneReplyEach`.

### 4.9 Only model-checked

* Liveness: the prover has no `ENABLED`. `EveryHelloAnswered`, `EveryChannelReclaimed`,
  `WaitsEnd`, `ChannelFreed`, `DueTimersRun`, `EventsRun`, `Answered` and
  `EveryPacketLeaves` are shown on the instances of section 3.

## 5. Where the code and its comments disagree

Each is a run whose single property is what a comment of the code says, and which
TLC refutes. `PROJECT.json` quotes the lines.

| run | the code says | the model shows |
|---|---|---|
| `fdcache_blocked` | the open of a client's FIFO "does not block" | a client that dies between hello and open puts the daemon to sleep for ever |
| `channel_instep` | "the stream stays in step no matter what any layer chooses to read" | a WRITE suspended half-way leaves payload that is read as a request |
| `channel_cancel` | "the client gets the completed operation's own reply, which is the truth" | `ichan_cancel()` discards that reply and reports EINTR |
| `libsocket_listening` | `s_listening`: "a LISTEN ioctl is outstanding" | it stays set when the LISTEN fails, and the next `accept()` waits for nothing |

Others are visible in the modules and have no run:

* `tcp_close()` asserts that nothing is in progress (`tcp.c:1661`), and
  `coh_sr.c` closes a channel with its READ armed: `ichan_arm`, then
  `ichan_close`.
* `psip_close()` (`psip.c:410-457`) does not take the closed descriptor's record out
  of `pp_rd_head`, and the channel server closes without a cancel
  (`coh_sr.c:464-470`, `512-519`). The next channel that opens the port is given
  the same record with its `pf_srfd` (`psip.c:250-263`), and a packet that comes
  before its first READ is put to it (`psip.c:160-224`; the assertion at 182 that
  would notice is compiled out). It gets a reply to a READ it has not posted, where
  `inet_ipc.h` promises one reply to each request. Its client takes that for the
  answer to the READ it posts next and clears `ic_posted` while that READ is still
  with the device, so from then on there may be two under way, for more than the
  hold buffer takes, and `ichan_take()` drops the excess: `inet_chan.h:37-39` says "at
  most ONE read is ever outstanding, so at most one reply can be in flight and the
  hold buffer can never be overrun". Both are in the model, and
  the properties name the exception: without the allowance for `lay.strayed` TLC
  refutes `OneReplyEach` in 14 states, and without its guard `StreamKept` in 27.
* `coh_clock.c:9-11` says that setting the clock does not move network time; a
  step ahead of less than `CLCK_MAX_STEP`, a day, is counted as elapsed (`Step`).
* `libsocket.c:514-516` says that `acceptlost()` can always recover, having one
  descriptor more than the attempt that failed; opening a channel takes three
  (`ichan_open`), so only a process with just two free recovers.
* `ichan_open()` interrupted while it waits for its answer returns without giving
  back its two descriptors (`inet_chan.c:240`); `NothingLeaks` excepts it by name
  (channel state `half`).
* An acknowledgement of something that was not sent is to be answered with
  `<SEQ=SND.NXT>` (`tcp_recv.c:576`); the answer carries `SND_TRM`
  (`EstablishedPack`), which is behind it during a retransmission and may be
  unacceptable in turn, so that two ends can answer each other until a timer
  sends.
* `arp_main()` clears the whole cache when a port gets its address
  (`arp.c:203`), the other ports' entries with it. A port that was asking keeps
  `APF_CLIENTREQ` and no entry: the retries run out and find nothing, and packets
  wait for ever. `arp` has one port; with `Port = {p1, p2}` TLC refutes
  `RequestCovered`, and the proof of it needs exactly this case left out
  (`Calm`, section 4.6).
* A reset after both FINs is a "clean shutdown" to `tcp_frag2conn`, for a peer that
  "doesn't want to ACK our FIN" (`tcp_recv.c:530-538`), and ends the connection with no
  error; `tcp_close_connection()` frees what was received (`tcp_send.c:1057-1061`) and
  the next read returns 0. That is a stream cut short, where `socket(2)` promises a
  "sequenced, reliable" one (`net/man/COHERENT.2/socket:23-24`). No segment need be lost
  for it: a peer writes, closes and is acknowledged; its block is free, since a
  connection whose program has closed has no TIME_WAIT, and what comes late is answered
  with a reset; and the reader shuts down its own side before it has read. The scripts
  of `tcp` read before they shut down. With the pair `Script("connect", <<1>>, 0, FALSE,
  "early")` and `Script("listen", <<>>, 2, TRUE, "eof")` and no faults TLC refutes
  `StreamSpec` in 16 steps; the theorems of section 4.7 say that nothing else makes the
  end of a stream a lie.
* The side of a connection that has nothing to send never learns that its peer gave
  up or went away: nothing is retransmitted and there is no keepalive. `tcp_live`
  has no `TimerGivesUp` for that reason.
* `psip_write()` (`psip.c:390`) queues a packet for a promiscuous reader and does not
  set `pp_promisc_tail`; the next one is linked behind whatever that points to.
* A second ioctl overwrites `tf_ioreq` while a LISTEN posted on the same descriptor
  is outstanding (`tcp.c:636`). The libraries post one at a time, and so do the
  programs of `TcpConn`.

The passing runs go round a disagreement only where it would hide everything
else: `channel` stops at a misreading and excepts the channel that is answered
another's READ, `channel_live` keeps the window open, the
liveness of `fdcache` ends when the daemon is `blocked`, `netclock` has input
that pauses, the scripts of `tcp` read before they shut down (see above), and
`arp` has one port.

## 6. What is not modelled

* *Several connections on a TCP port* (`tcp_setconf`, `find_empty_conn`,
  `maybe_listen`), urgent data, options, and the next connection on a block: one
  connection is the unit of `TcpConn`. The estimate of the round trip only sets how
  long a time-out is. Errors of `ip_send()` for a host that cannot be reached
  (`tcp_send.c:110-144`, `tcp_notreach`): the two ends have a route to each other.
* *UDP, IP reassembly, splitting and loopback, routing, ICMP, the packet buffers*:
  next (section 7).
* *The Ethernet port*: frame I/O; `ArpResolve` uses that a write to another host is
  over when it returns, and has no frames of a port to itself.
* *Several channels on a pseudo-IP port at once*, and promiscuous readers: a closed
  channel's record could then be answered in the place of a living one's.
* *Sixty-four signals in a row* exhaust `ICHAN_CANCEL_TRIES` and leave the channel
  out of step; the count is in the model, the runs stay below it, and the theorems
  say how far below is enough (section 4.3).
* *Interface numbers, addresses, options, errno values, message formats*: no
  property is about them.
* *Programs* over the libraries (ftp, telnet, rlogin, inetd, mail): sequential
  loops, of which inetd's relay is planned.
* *Everything outside `src/net`*: independent sequential programs, many of them
  third-party, and graphics.

## 7. Plan

Done: `FdCache`, `InetChannel`, `NetClock`, `LibSocket`, `TcpConn` over `ByteStream`,
`ArpResolve`; proofs of every safety property of these, and of the refinement of `ByteStream` by
`TcpConn`, with the clean reset of section 5 as a hypothesis.

Models that would follow: `PktBuf` (reference-counted accessors, the pool at its
limit and what `bf_memreq` may free), `IpReassembly` (fragments and their timeouts)
with the loopback queue, `UdpQueue` (delivery to several descriptors), and
`InetdRelay` as a user of a channel.
