----------------------------- MODULE InetChannel -----------------------------
(***************************************************************************)
(* One channel between a client (net/inet_chan.c) and the inet daemon      *)
(* (net/inet/coh_sr.c): a request FIFO one way, a reply FIFO the other,    *)
(* and "each request gets exactly one reply" (net/include/inet_ipc.h).     *)
(*                                                                         *)
(* The client is a sequential program that blocks in ichan_await() and may *)
(* be interrupted there by a signal; the daemon is single-threaded and     *)
(* serves one request, or one event of the network, per step.  The two run *)
(* concurrently.  The layer behind the channel is the part of TCP, or of   *)
(* the pseudo-IP device, that the channel can see: a READ that waits for   *)
(* data, a WRITE that may wait for window, an ioctl that waits for a peer. *)
(*                                                                         *)
(* A FIFO is a sequence of items: a record is one item and so is each unit *)
(* of payload behind it, because the FIFOs are byte streams and what keeps *)
(* a reader on a record boundary is only that it removes what it must.     *)
(***************************************************************************)
EXTENDS Integers, Sequences, FiniteSets, SequencesExt

CONSTANTS
  ICHAN_HOLD,   \* units the client's hold buffer takes
  MaxData,      \* bound: units the peer sends, and units written
  WriteSizes,   \* sizes of the client's writes
  ReadSizes,    \* buffer sizes of the client's reads
  Devices,      \* the devices a channel may be open on: "tcp", "psip"
  WindowOpen,   \* does the send window always take a whole TCP WRITE?
  MaxSignals,   \* bound: signals the client catches while blocked
  CancelTries,  \* ICHAN_CANCEL_TRIES
  MaxGen        \* bound: channels opened one after the other in the slot

ASSUME HoldAssumption == ICHAN_HOLD \in Nat \ {0}
ASSUME SizesAssumption == WriteSizes \subseteq Nat /\ ReadSizes \subseteq Nat
ASSUME DevicesAssumption ==
  Devices \subseteq {"tcp", "psip"} /\ WindowOpen \in BOOLEAN
ASSUME BoundsAssumption ==
  /\ MaxData \in Nat /\ MaxSignals \in Nat
  /\ CancelTries \in Nat /\ MaxGen \in Nat

VARIABLES
  req,       \* the request FIFO
  rep,       \* the reply FIFO; a reply and its payload are one write
  ch,        \* the daemon's sr_chan_t
  lay,       \* what the layer has in progress on this channel
  cl,        \* the client: its struct ichan and where it is blocked
  got,       \* units the program has read
  sigs,      \* signals caught so far
  gen,       \* channels opened so far
  undone,    \* operations that succeeded and were reported interrupted
  misparsed  \* the daemon has read payload as a request, or the reverse

vars == <<req, rep, ch, lay, cl, got, sigs, gen, undone, misparsed>>

Suspendable == {"READ", "WRITE", "IOCTL"}

(* The ioctls, by what a layer does with one: NWIOSTCPCONF fetches its
   argument, NWIOGTCPCONF answers with data, NWIOTCPLISTEN and NWIOTCPCONN
   ignore the argument they were sent and wait for a peer. *)
IoctlKinds == {"set", "get", "listen"}

Request(op, count, what, dlen) ==
  [op |-> op, count |-> count, what |-> what, dlen |-> dlen]

(* A unit of payload, where a record could have stood. *)
Payload == Request("payload", 0, "", 0)

(* ichan_send(): a record and its payload, in one write. *)
ichan_send(q, op, count, what, dlen) ==
  q \o <<Request(op, count, what, dlen)>> \o [k \in 1 .. dlen |-> Payload]

(* sr_accept(): every per-request field of the slot, the ones of the previous
   occupant included. *)
FreshChan ==
  [inuse |-> TRUE, open |-> FALSE, curop |-> "OPEN",
   pend |-> [op \in Suspendable |-> FALSE],
   avail |-> 0, dataok |-> FALSE, replied |-> FALSE]

(* tcp_open(), psip_open(): a layer descriptor with nothing in progress.  conn
   is "no", "yes" or, once the connection is lost, "dead"; seq is how many
   units the peer has sent; rcvd the units nobody has read.

   stale is the one thing a layer keeps from channel to channel: the count of a
   READ whose channel was closed over it, 0 if there is none.  psip_close()
   leaves the reader's record in the port's list, and psip_open() gives the
   same record to the next channel.  strayed remembers, for the properties,
   that the record has answered a READ that this channel had not asked for. *)
FreshLayer(dev) ==
  [dev |-> dev, conn |-> IF dev = "psip" THEN "yes" ELSE "no",
   rd |-> 0, wr |-> FALSE, left |-> 0, off |-> 0, io |-> FALSE,
   seq |-> 0, rcvd |-> <<>>, push |-> FALSE, fin |-> FALSE,
   stale |-> 0, strayed |-> FALSE]

(* No descriptor of any layer. *)
NoLayer == FreshLayer("none")

(* tcp_close(), which leaves nothing, and psip_close(), which clears the flags
   of the descriptor and leaves a waiting reader in the list. *)
Closed(l) ==
  [NoLayer EXCEPT !.stale = IF l.dev = "psip" /\ l.rd > 0 THEN l.rd ELSE l.stale]

(* The next channel of the slot has the same descriptor of the pseudo-IP
   device, and the record with it. *)
Opened(l, dev) == [FreshLayer(dev) EXCEPT !.stale = l.stale]

-----------------------------------------------------------------------------
(* coh_sr.c.  The daemon's helpers take and give what they change: the two
   FIFOs, the channel and the layer. *)

Served == [req |-> req, rep |-> rep, ch |-> ch, lay |-> lay]

Become(s) ==
  /\ req' = s.req
  /\ rep' = s.rep
  /\ ch' = s.ch
  /\ lay' = s.lay

(* sr_drain(): discard what the layer did not read of this request. *)
sr_drain(s) ==
  [s EXCEPT !.req = SubSeq(@, s.ch.avail + 1, Len(@)), !.ch.avail = 0]

Reply(rop, status, data) == [rop |-> rop, status |-> status, data |-> data]

sr_send_reply(s, status, rop) ==
  [sr_drain(s) EXCEPT !.ch.replied = TRUE,
                      !.rep = Append(@, Reply(rop, status, <<>>))]

sr_reply(s, status) == sr_send_reply(s, status, s.ch.curop)

sr_pendclr(s, rop) ==
  IF rop \in Suspendable THEN [s EXCEPT !.ch.pend[rop] = FALSE] ELSE s

(* The rule sr_whichop() replaced: tag with the request being dispatched. *)
WhichByTime(s, for_ioctl, toclient) == s.ch.curop

(* sr_whichop(): which request a layer's call-back answers. *)
sr_whichop(s, for_ioctl, toclient) ==
  IF for_ioctl THEN "IOCTL" ELSE IF toclient THEN "READ" ELSE "WRITE"

(* A completion: sr_get_userdata() with count 0, and sr_put_userdata() without
   data.  Not sent if a data reply for the operation has gone already. *)
Complete(s, status, rop) ==
  IF s.ch.dataok
  THEN sr_pendclr([s EXCEPT !.ch.dataok = FALSE], rop)
  ELSE sr_pendclr(sr_send_reply(s, status, rop), rop)

get_reply(s, status, for_ioctl) ==
  Complete(s, status, sr_whichop(s, for_ioctl, FALSE))

put_reply(s, status, for_ioctl) ==
  Complete(s, status, sr_whichop(s, for_ioctl, TRUE))

(* sr_get_userdata() with count > 0. *)
sr_get_userdata(s, count) ==
  [s EXCEPT !.req = SubSeq(@, count + 1, Len(@)), !.ch.avail = @ - count]

(* sr_put_userdata() with data: record and payload in one write. *)
sr_put_userdata(s, data, for_ioctl) ==
  LET rop == sr_whichop(s, for_ioctl, TRUE)
  IN  sr_pendclr([sr_drain(s) EXCEPT
        !.rep = Append(@, Reply(rop, Len(data), data)),
        !.ch.dataok = TRUE, !.ch.replied = TRUE], rop)

-----------------------------------------------------------------------------
(* The layer: tcp.c, tcp_recv.c and tcp_send.c as the channel sees them. *)

(* tcp_fd_read(): answer the READ in progress if there is a reason to. *)
tcp_fd_read(s) ==
  LET l == s.lay
      n == IF l.rd < Len(l.rcvd) THEN l.rd ELSE Len(l.rcvd)
      rest == SubSeq(l.rcvd, n + 1, Len(l.rcvd))
      done == [s EXCEPT !.lay.rd = 0, !.lay.rcvd = rest,
                        !.lay.push = l.push /\ rest # <<>>]
  IN  IF l.rd = 0 THEN s
      ELSE IF n > 0 /\ (n = l.rd \/ l.push \/ l.fin)
           THEN put_reply(sr_put_userdata(done, SubSeq(l.rcvd, 1, n), FALSE),
                          n, FALSE)
      ELSE IF n = 0 /\ l.fin
           THEN put_reply([s EXCEPT !.lay.rd = 0], 0, FALSE)
      ELSE s

(* tcp_fd_write(): fetch as much as the window, w units wide, allows, and
   answer when all of it has been fetched. *)
tcp_fd_write(s, w) ==
  LET n == IF s.lay.left < w THEN s.lay.left ELSE w
      t == [sr_get_userdata(s, n) EXCEPT !.lay.left = @ - n, !.lay.off = @ + n]
  IN  IF t.lay.left > 0 THEN t
      ELSE get_reply([t EXCEPT !.lay.wr = FALSE], t.lay.off, FALSE)

(* psip_send(): one packet for the first reader in the list, which is the READ
   in progress or, until the channel has posted one, the record that a former
   channel left: nothing but an assertion tells the two apart. *)
psip_send(s) ==
  LET l == s.lay
      popped == [l EXCEPT !.rd = 0, !.stale = 0, !.rcvd = Tail(@),
                          !.strayed = @ \/ l.rd = 0]
  IN  IF l.rcvd = <<>> \/ (l.rd = 0 /\ l.stale = 0) THEN s
      ELSE put_reply(
             sr_put_userdata([s EXCEPT !.lay = popped], <<Head(l.rcvd)>>, FALSE),
             1, FALSE)

Deliver(s) == IF s.lay.dev = "tcp" THEN tcp_fd_read(s) ELSE psip_send(s)

(* Something from the peer; it may be what a READ is waiting for. *)
NewData(s, push) ==
  Deliver([s EXCEPT !.lay.seq = @ + 1,
                    !.lay.rcvd = Append(@, s.lay.seq + 1),
                    !.lay.push = @ \/ push])

(* srm_read: tcp_read() and psip_read().  psip_read() links the descriptor's
   one record into the list: one that is there already, left by a former channel
   or by a READ still in progress, is in it once and has the new count. *)
srm_read(s, count) ==
  LET waiting == [s.lay EXCEPT !.rd = count,
                               !.stale = IF s.lay.dev = "psip" THEN 0 ELSE @]
  IN  IF s.lay.conn = "yes" THEN Deliver([s EXCEPT !.lay = waiting])
                            ELSE put_reply(s, -1, FALSE)

(* The widths of window a WRITE of n units may find. *)
Windows(n) == IF WindowOpen THEN {n} ELSE 0 .. n

tcp_write(s, count) ==
  IF s.lay.conn = "yes"
  THEN {tcp_fd_write([s EXCEPT !.lay.wr = TRUE, !.lay.left = count,
                               !.lay.off = 0], w) : w \in Windows(count)}
  ELSE {get_reply(s, -1, FALSE)}

(* psip_write(): inject a packet; the stack may answer it at once, on the READ
   in progress, before the injection is acknowledged. *)
psip_write(s, count) ==
  LET t == sr_get_userdata(s, count)
  IN  {get_reply(u, count, FALSE) : u \in
         {t} \cup IF s.lay.seq < MaxData THEN {NewData(t, TRUE)} ELSE {}}

(* tcp_ioctl().  Errors, and refusals before the argument is looked at, are
   answered by the layer itself. *)
tcp_ioctl(s, what, dlen) ==
  LET refused == get_reply(s, -1, TRUE)
  IN  CASE what = "set"
             -> {refused, get_reply(sr_get_userdata(s, dlen), 0, TRUE)}
        [] what = "get"
             -> {put_reply(sr_put_userdata(s, <<"conf">>, TRUE), 0, TRUE)}
        [] what = "listen"
             -> {refused} \cup IF s.lay.conn = "no"
                               THEN {[s EXCEPT !.lay.io = TRUE]} ELSE {}

(* tcp_cancel(): the operation's own reply, tagged with its own op. *)
tcp_cancel(s, which) ==
  CASE which = "READ" -> put_reply([s EXCEPT !.lay.rd = 0], -1, FALSE)
    [] which = "WRITE" -> get_reply([s EXCEPT !.lay.wr = FALSE, !.lay.left = 0],
                            IF s.lay.off > 0 THEN s.lay.off ELSE -1, FALSE)
    [] which = "IOCTL" -> get_reply([s EXCEPT !.lay.io = FALSE], -1, TRUE)

(* What the layer holds suspended. *)
InProgress(l, op) ==
  CASE op = "READ" -> l.rd > 0 [] op = "WRITE" -> l.wr [] op = "IOCTL" -> l.io

-----------------------------------------------------------------------------
(* sr_chan_req() *)

(* The tail of a READ, WRITE or IOCTL: suspended, or answered unless the layer
   has done so itself. *)
Settle(s, op) ==
  IF InProgress(s.lay, op) THEN [s EXCEPT !.ch.pend[op] = TRUE]
  ELSE IF s.ch.replied THEN s
  ELSE sr_reply(s, 0)

(* A request taken off the FIFO, before it is acted on. *)
Taken(r) ==
  [Served EXCEPT !.req = Tail(@), !.ch.curop = r.op, !.ch.avail = r.dlen,
                 !.ch.dataok = FALSE, !.ch.replied = FALSE]

(* NWR_OPEN of a device: srm_open() may be out of descriptors. *)
DoOpen(s, r) ==
  {sr_reply(s, -1),
   sr_reply([s EXCEPT !.ch.open = TRUE, !.lay = Opened(@, r.what)], 0)}

DoRead(s, r) == {Settle(srm_read(s, r.count), "READ")}

DoWrite(s, r) ==
  {Settle(t, "WRITE") : t \in IF s.lay.dev = "tcp" THEN tcp_write(s, r.count)
                                                  ELSE psip_write(s, r.count)}

(* Leaving the argument of a suspended ioctl for its reply to drain. *)
DrainLater(s, r) ==
  {Settle(t, "IOCTL") : t \in tcp_ioctl(s, r.what, r.dlen)}

(* NWR_IOCTL: the argument is drained even if the ioctl suspended. *)
DoIoctl(s, r) ==
  {Settle(sr_drain(t), "IOCTL") : t \in tcp_ioctl(s, r.what, r.dlen)}

(* Not answering a cancel that came too late. *)
CancelSilently(s, r) ==
  IF s.ch.pend[r.what] THEN {sr_reply(tcp_cancel(s, r.what), -1)} ELSE {s}

(* NWR_CANCEL: the layer is asked only for what it is holding. *)
DoCancel(s, r) ==
  {sr_reply(IF s.ch.pend[r.what] THEN tcp_cancel(s, r.what) ELSE s, -1)}

Dispatch(s, r) ==
  CASE r.op = "OPEN" -> DoOpen(s, r)
    [] r.op # "OPEN" /\ ~s.ch.open -> {sr_reply(s, -1)}
    [] r.op = "READ" /\ s.ch.open -> DoRead(s, r)
    [] r.op = "WRITE" /\ s.ch.open -> DoWrite(s, r)
    [] r.op = "IOCTL" /\ s.ch.open -> DoIoctl(s, r)
    [] r.op = "CANCEL" /\ s.ch.open -> DoCancel(s, r)

ClientSide == <<cl, got, sigs, gen, undone>>

Readable(op) == ch.inuse /\ ~misparsed /\ req # <<>> /\ Head(req).op \in op

sr_chan_req ==
  /\ Readable({"OPEN", "READ", "WRITE", "IOCTL", "CANCEL"})
  /\ \E t \in Dispatch(Taken(Head(req)), Head(req)) : Become(t)
  /\ UNCHANGED <<ClientSide, misparsed>>

(* The same on units a suspended WRITE left behind: the FIFO is readable, so
   the daemon reads what is there as a record.  What follows is arbitrary and
   is not modelled. *)
sr_chan_req_payload ==
  /\ Readable({"payload"})
  /\ misparsed' = TRUE
  /\ UNCHANGED <<req, rep, ch, lay, ClientSide>>

(* NWR_CLOSE: close the layer's descriptor, whatever it has in progress,
   answer, free the slot.  Of a channel that was never opened it is just an
   error. *)
ChanClose ==
  /\ Readable({"CLOSE"})
  /\ LET t == Taken(Head(req))
     IN  Become(IF ch.open
                THEN [sr_reply(t, 0) EXCEPT !.ch.inuse = FALSE,
                                            !.lay = Closed(@)]
                ELSE sr_reply(t, -1))
  /\ UNCHANGED <<ClientSide, misparsed>>

(* Holding the request FIFO open for writing too: end of file never comes. *)
NoEof == FALSE /\ UNCHANGED vars

(* End of file: the client went without closing. *)
ChanEof ==
  /\ ch.inuse /\ ~misparsed
  /\ cl.pc = "idle" /\ req = <<>>
  /\ ch' = [ch EXCEPT !.inuse = FALSE]
  /\ lay' = Closed(lay)
  /\ UNCHANGED <<req, rep, ClientSide, misparsed>>

(* Recycling a slot with what its last occupant left in it. *)
AcceptStale ==
  /\ ~ch.inuse /\ cl.pc # "idle"
  /\ ch' = [ch EXCEPT !.inuse = TRUE, !.open = FALSE]
  /\ UNCHANGED <<req, rep, lay, ClientSide, misparsed>>

(* sr_accept(), for the client that has announced itself. *)
sr_accept ==
  /\ ~ch.inuse /\ cl.pc # "idle"
  /\ ch' = FreshChan
  /\ UNCHANGED <<req, rep, lay, ClientSide, misparsed>>

-----------------------------------------------------------------------------
(* Events of the network.  The layer answers what they complete. *)

Event(s) ==
  /\ ch.inuse /\ ch.open /\ ~misparsed
  /\ Become(s)
  /\ UNCHANGED <<ClientSide, misparsed>>

Arrive(push) ==
  /\ lay.conn = "yes" /\ ~lay.fin /\ lay.seq < MaxData
  /\ Event(NewData(Served, push))

Fin ==
  /\ lay.dev = "tcp" /\ lay.conn = "yes" /\ ~lay.fin
  /\ Event(tcp_fd_read([Served EXCEPT !.lay.fin = TRUE]))

(* tcp_restart_connect(): a peer, or a failure. *)
tcp_restart_connect(status) ==
  /\ lay.io
  /\ Event(get_reply([Served EXCEPT !.lay.io = FALSE,
             !.lay.conn = IF status = 0 THEN "yes" ELSE "no"], status, TRUE))

(* The peer acknowledged, and a suspended WRITE goes on: with what it left in
   the FIFO, if that is still what comes next there. *)
WindowOpens ==
  /\ lay.wr /\ ~misparsed
  /\ \E w \in 1 .. lay.left :
       IF \A k \in 1 .. w : k <= Len(req) /\ req[k] = Payload
       THEN Event(tcp_fd_write(Served, w))
       ELSE /\ misparsed' = TRUE
            /\ UNCHANGED <<req, rep, ch, lay, ClientSide>>

(* tcp_close_connection(): whatever was in progress ends, and what nobody has
   read is gone. *)
Reset ==
  /\ lay.dev = "tcp" /\ lay.conn = "yes"
  /\ LET s == [Served EXCEPT !.lay.conn = "dead", !.lay.rd = 0,
                             !.lay.wr = FALSE, !.lay.left = 0,
                             !.lay.rcvd = <<>>, !.lay.fin = FALSE]
         t == IF lay.rd > 0 THEN put_reply(s, -1, FALSE) ELSE s
         status == IF lay.off > 0 THEN lay.off ELSE -1
     IN  Event(IF lay.wr THEN get_reply(t, status, FALSE) ELSE t)

-----------------------------------------------------------------------------
(* inet_chan.c.  cl.pc says where the client is:
     "idle"     it has no channel (the FIFOs are closed on its side)
     "opening"  in ichan_open(), reading the reply to its NWR_OPEN
     "app"      in the program
     "await"    in ichan_await(), reading the reply to cl.want
     "cancel"   in ichan_cancel(), reading the reply to its NWR_CANCEL
     "stuck"    ichan_open() failed on a signal, with the FIFOs open *)

NoClient ==
  [pc |-> "idle", want |-> "OPEN", max |-> 0, posted |-> FALSE,
   hold |-> <<>>, tries |-> 0, ioposted |-> FALSE]

DaemonSide == <<ch, lay, misparsed>>

ichan_open(dev) ==
  /\ cl.pc = "idle" /\ ~ch.inuse /\ gen < MaxGen
  /\ cl' = [NoClient EXCEPT !.pc = "opening"]
  /\ req' = <<Request("OPEN", 0, dev, 0)>>
  /\ rep' = <<>>
  /\ got' = <<>>
  /\ gen' = gen + 1
  /\ UNCHANGED <<DaemonSide, sigs, undone>>

(* The reply to NWR_OPEN: open, or given up with ichan_giveup(). *)
OpenReply ==
  /\ cl.pc = "opening" /\ rep # <<>>
  /\ cl' = [cl EXCEPT !.pc = IF Head(rep).status < 0 THEN "idle" ELSE "app"]
  /\ rep' = Tail(rep)
  /\ UNCHANGED <<req, DaemonSide, got, sigs, gen, undone>>

(* A signal ends the read of that reply: -1 without ichan_giveup(). *)
OpenInterrupted ==
  /\ cl.pc = "opening" /\ rep = <<>> /\ sigs < MaxSignals
  /\ cl' = [cl EXCEPT !.pc = "stuck"]
  /\ sigs' = sigs + 1
  /\ UNCHANGED <<req, rep, DaemonSide, got, gen, undone>>

(* ichan_arm(): the request FIFO and the client after it. *)
Arms(c) == ~c.posted /\ Len(c.hold) < ICHAN_HOLD

(* Asking for one unit more than there is room for. *)
ArmTooMuch(c, q) ==
  IF Arms(c) THEN ichan_send(q, "READ", ICHAN_HOLD - Len(c.hold) + 1, "", 0)
             ELSE q

ArmedReq(c, q) ==
  IF Arms(c) THEN ichan_send(q, "READ", ICHAN_HOLD - Len(c.hold), "", 0) ELSE q

Armed(c) == IF Arms(c) THEN [c EXCEPT !.posted = TRUE] ELSE c

(* The program, not blocked, with nothing posted that it must collect. *)
Running == cl.pc = "app" /\ ~cl.ioposted

ichan_arm ==
  /\ Running /\ Arms(cl)
  /\ cl' = Armed(cl)
  /\ req' = ArmedReq(cl, req)
  /\ UNCHANGED <<rep, DaemonSide, got, sigs, gen, undone>>

(* The end of ichan_recv(): hand over what is held, and arm again. *)
HandOver(c, q) ==
  LET n == IF Len(c.hold) < c.max THEN Len(c.hold) ELSE c.max
      d == [c EXCEPT !.pc = "app", !.hold = SubSeq(@, n + 1, Len(@))]
  IN  /\ got' = got \o SubSeq(c.hold, 1, n)
      /\ cl' = Armed(d)
      /\ req' = ArmedReq(d, q)

(* ichan_recv() once its READ has been answered: data, end of data, or a bare
   completion, on which it goes round again. *)
RecvLoop(c, status) ==
  IF c.hold # <<>> THEN HandOver(c, req)
  ELSE /\ cl' = IF status = 0 THEN [c EXCEPT !.pc = "app"] ELSE Armed(c)
       /\ req' = IF status = 0 THEN req ELSE ArmedReq(c, req)
       /\ UNCHANGED got

ichan_recv(max) ==
  /\ Running
  /\ IF cl.hold # <<>>
     THEN HandOver([cl EXCEPT !.max = max], req)
     ELSE /\ cl' = [Armed(cl) EXCEPT !.pc = "await", !.want = "READ",
                                     !.max = max]
          /\ req' = ArmedReq(cl, req)
          /\ UNCHANGED got
  /\ UNCHANGED <<rep, DaemonSide, sigs, gen, undone>>

ichan_write(n) ==
  /\ Running
  /\ cl' = [cl EXCEPT !.pc = "await", !.want = "WRITE"]
  /\ req' = ichan_send(req, "WRITE", n, "", n)
  /\ UNCHANGED <<rep, DaemonSide, got, sigs, gen, undone>>

(* Only a reading ioctl sends no argument. *)
ArgLen(what) == IF what = "get" THEN 0 ELSE 1

(* ichan_ioctl(), ichan_ioctl_get(), ichan_ioctl_rw(). *)
ichan_ioctl(what) ==
  /\ Running
  /\ cl' = [cl EXCEPT !.pc = "await", !.want = "IOCTL"]
  /\ req' = ichan_send(req, "IOCTL", 1, what, ArgLen(what))
  /\ UNCHANGED <<rep, DaemonSide, got, sigs, gen, undone>>

ichan_post_ioctl ==
  /\ Running
  /\ cl' = [cl EXCEPT !.ioposted = TRUE]
  /\ req' = ichan_send(req, "IOCTL", 1, "listen", 1)
  /\ UNCHANGED <<rep, DaemonSide, got, sigs, gen, undone>>

ichan_wait_ioctl ==
  /\ cl.pc = "app" /\ cl.ioposted
  /\ cl' = [cl EXCEPT !.pc = "await", !.want = "IOCTL", !.ioposted = FALSE]
  /\ UNCHANGED <<req, rep, DaemonSide, got, sigs, gen, undone>>

(* Discarding a READ that completes while something else is awaited. *)
TakeDropping(c, r) ==
  IF r.rop # "READ" THEN c
  ELSE IF c.want = "READ" THEN [c EXCEPT !.posted = FALSE, !.hold = @ \o r.data]
  ELSE [c EXCEPT !.posted = FALSE]

(* ichan_take(): the client once it has taken r off the reply FIFO.  A READ's
   payload goes to the hold buffer, as much of it as fits. *)
ichan_take(c, r) ==
  LET room == ICHAN_HOLD - Len(c.hold)
      n == IF Len(r.data) < room THEN Len(r.data) ELSE room
  IN  IF r.rop = "READ"
      THEN [c EXCEPT !.posted = FALSE, !.hold = @ \o SubSeq(r.data, 1, n)]
      ELSE c

(* ichan_await(): one reply, and the caller's return if it is the one. *)
ichan_await ==
  /\ cl.pc = "await" /\ rep # <<>>
  /\ rep' = Tail(rep)
  /\ LET r == Head(rep)
         c == ichan_take(cl, r)
     IN  \/ /\ r.rop # cl.want
            /\ cl' = c
            /\ UNCHANGED <<req, got>>
         \/ /\ r.rop = cl.want
            /\ r.rop # "READ" \/ r.status < 0
            /\ cl' = [c EXCEPT !.pc = "app"]
            /\ UNCHANGED <<req, got>>
         \/ /\ r.rop = cl.want /\ r.rop = "READ" /\ r.status >= 0
            /\ RecvLoop(c, r.status)
  /\ UNCHANGED <<DaemonSide, sigs, gen, undone>>

(* A signal ends the wait, and ichan_cancel() tells the daemon. *)
Interrupted ==
  /\ cl.pc = "await" /\ rep = <<>> /\ sigs < MaxSignals
  /\ cl' = [cl EXCEPT !.pc = "cancel", !.tries = 0]
  /\ req' = ichan_send(req, "CANCEL", 0, cl.want, 0)
  /\ sigs' = sigs + 1
  /\ UNCHANGED <<rep, DaemonSide, got, gen, undone>>

(* ichan_cancel() after one more try: given up after CancelTries. *)
Tried(c, done) ==
  IF done \/ c.tries + 1 >= CancelTries
  THEN [c EXCEPT !.pc = "app",
                 !.posted = IF c.want = "READ" THEN FALSE ELSE @]
  ELSE [c EXCEPT !.tries = @ + 1]

(* ichan_cancel() taking a reply: it parks a READ's data, and discards any
   other reply, until it has the one to its NWR_CANCEL. *)
ichan_cancel ==
  /\ cl.pc = "cancel" /\ rep # <<>>
  /\ rep' = Tail(rep)
  /\ LET r == Head(rep)
     IN  /\ cl' = Tried(ichan_take(cl, r), r.rop = "CANCEL")
         /\ undone' = IF r.rop = cl.want /\ r.rop # "READ" /\ r.status >= 0
                      THEN undone \cup {r.rop} ELSE undone
  /\ UNCHANGED <<req, DaemonSide, got, sigs, gen>>

(* Another signal while it waits. *)
CancelInterrupted ==
  /\ cl.pc = "cancel" /\ rep = <<>> /\ sigs < MaxSignals
  /\ cl' = Tried(cl, FALSE)
  /\ sigs' = sigs + 1
  /\ UNCHANGED <<req, rep, DaemonSide, got, gen, undone>>

(* ichan_close() and ichan_abort(). *)
ichan_close ==
  /\ cl.pc = "app"
  /\ cl' = NoClient
  /\ req' = ichan_send(req, "CLOSE", 0, "", 0)
  /\ got' = <<>> /\ undone' = {}
  /\ UNCHANGED <<rep, DaemonSide, sigs, gen>>

(* The process exits, or is killed, once the daemon has its channel. *)
Exit ==
  /\ cl.pc # "idle" /\ ch.inuse
  /\ cl' = NoClient
  /\ got' = <<>> /\ undone' = {}
  /\ UNCHANGED <<req, rep, DaemonSide, sigs, gen>>

-----------------------------------------------------------------------------
(* sr_init(): the table is zeroed. *)
Init ==
  /\ req = <<>> /\ rep = <<>>
  /\ ch = [FreshChan EXCEPT !.inuse = FALSE]
  /\ lay = NoLayer
  /\ cl = NoClient
  /\ got = <<>> /\ sigs = 0 /\ gen = 0
  /\ undone = {}
  /\ misparsed = FALSE

Daemon ==
  sr_chan_req \/ sr_chan_req_payload \/ ChanClose \/ ChanEof \/ sr_accept

Network ==
  \/ \E push \in BOOLEAN : Arrive(push)
  \/ Fin \/ Reset \/ WindowOpens
  \/ \E status \in {0, -1} : tcp_restart_connect(status)

Client ==
  \/ \E dev \in Devices : ichan_open(dev)
  \/ OpenReply \/ OpenInterrupted
  \/ ichan_arm \/ \E max \in ReadSizes : ichan_recv(max)
  \/ \E n \in WriteSizes : ichan_write(n)
  \/ \E what \in IoctlKinds : ichan_ioctl(what)
  \/ ichan_post_ioctl \/ ichan_wait_ioctl
  \/ ichan_await \/ Interrupted \/ ichan_cancel \/ CancelInterrupted
  \/ ichan_close \/ Exit

Next == Daemon \/ Network \/ Client

(* The daemon's main loop serves every readable channel; a client blocked in
   read() is woken when there is a reply.  Nothing is assumed of the network,
   of signals or of what the program does next. *)
Fairness ==
  /\ WF_vars(sr_chan_req) /\ WF_vars(ChanClose)
  /\ WF_vars(ChanEof) /\ WF_vars(sr_accept)
  /\ WF_vars(OpenReply) /\ WF_vars(ichan_await) /\ WF_vars(ichan_cancel)

Spec == Init /\ [][Next]_vars /\ Fairness

-----------------------------------------------------------------------------
(* Properties *)

(* Types. *)
TypeOK ==
  /\ ch \in [inuse : BOOLEAN, open : BOOLEAN, pend : [Suspendable -> BOOLEAN],
             curop : Suspendable \cup {"OPEN", "CLOSE", "CANCEL"},
             avail : Nat, dataok : BOOLEAN, replied : BOOLEAN]
  /\ lay \in [dev : {"none"} \cup Devices, conn : {"no", "yes", "dead"},
              rd : 0 .. ICHAN_HOLD, wr : BOOLEAN, left : Nat, off : Nat,
              io : BOOLEAN, seq : 0 .. MaxData, rcvd : Seq(1 .. MaxData),
              push : BOOLEAN, fin : BOOLEAN,
              stale : 0 .. ICHAN_HOLD, strayed : BOOLEAN]
  /\ cl.pc \in {"idle", "opening", "app", "await", "cancel", "stuck"}
  /\ Len(cl.hold) <= ICHAN_HOLD

(* The client is at work on a channel the daemon has. *)
Working == cl.pc \in {"app", "await", "cancel"} /\ ch.inuse

(* The daemon never takes payload for a request: "the stream stays in step no
   matter what any layer chooses to read" (inet_ipc.h). *)
InStep == ~misparsed

(* It does so only while a WRITE is suspended with payload left to fetch: no
   ioctl that ignores its argument, no refusal, no cancel and no reset leaves
   payload behind that the next request would be read from. *)
OnlyWritesMisread == misparsed => lay.wr /\ lay.left > 0

(* The unanswered and unread of one kind: requests on their way, replies on
   their way, the request the layer holds. *)
Asked(op) == Cardinality({k \in 1 .. Len(req) : req[k].op = op})

Answered(op) == Cardinality({k \in 1 .. Len(rep) : rep[k].rop = op})

Outstanding(op) ==
  Asked(op) + Answered(op) + (IF op \in Suspendable /\ ch.pend[op] THEN 1 ELSE 0)

(* Each request gets exactly one reply, tagged as its own: what is outstanding
   is what the client believes to be, kind by kind.  A client that is
   cancelling no longer minds whether the reply has come.  The one exception is
   the channel that psip_send() has put a former channel's READ to: there the
   client may be owed one READ more than it believes, never one fewer and never
   two more. *)
OneReplyEach ==
  Working =>
    /\ Outstanding("READ") - (IF cl.posted THEN 1 ELSE 0)
         \in IF lay.strayed THEN {0, 1} ELSE {0}
    /\ Outstanding("CANCEL") = IF cl.pc = "cancel" THEN 1 ELSE 0
    /\ \A op \in {"WRITE", "IOCTL"} :
         LET n == Outstanding(op)
         IN  \/ cl.pc = "await" /\ cl.want = op /\ n = 1
             \/ op = "IOCTL" /\ cl.ioposted /\ n = 1
             \/ cl.pc = "cancel" /\ cl.want = op /\ n \in {0, 1}
             \/ /\ cl.pc = "app" \/ cl.want # op
                /\ op = "IOCTL" => ~cl.ioposted
                /\ n = 0

(* A former channel's reader waits in the list of the channel's device. *)
Haunted(l) == l.dev = "psip" /\ l.stale > 0

(* What the channel believes suspended is what it has in progress with the
   layer, so NWR_CANCEL never reaches a layer for an operation that has
   finished; and what a former channel has left there is never taken for it. *)
PendMatchesLayer ==
  ch.inuse /\ ch.open =>
    /\ \A op \in Suspendable : ch.pend[op] <=> InProgress(lay, op)
    /\ Haunted(lay) => ~ch.pend["READ"]

(* Nothing the peer sent is lost, repeated or reordered on its way through the
   reply FIFO and the hold buffer, whatever is cancelled meanwhile; but for a
   channel that has had a reply to a READ it had not asked for.  Its client
   takes that for the reply to its own, asks again, and may be sent more than it
   has room to hold. *)
StreamKept ==
  Working /\ lay.conn = "yes" /\ ~lay.strayed =>
    got \o cl.hold
        \o FlattenSeq([k \in 1 .. Len(rep) |->
              IF rep[k].rop = "READ" THEN rep[k].data ELSE <<>>])
        \o lay.rcvd
      = [k \in 1 .. lay.seq |-> k]

(* A cancelled operation is one that did not happen: "the client gets the
   completed operation's own reply, which is the truth" (coh_sr.c). *)
CancelTellsTruth == undone = {}

(* Every wait that does not depend on the peer ends: an interrupted operation
   is given up, a write returns, and a reader wakes when its data is there. *)
WaitsEnd ==
  /\ cl.pc = "cancel" ~> cl.pc # "cancel"
  /\ (cl.pc = "await" /\ cl.want = "WRITE") ~> cl.pc # "await"
  /\ (cl.pc = "await" /\ cl.want = "READ" /\ lay.conn = "yes"
       /\ (lay.fin \/ (lay.push /\ lay.rcvd # <<>>)))
        ~> cl.pc # "await"

(* The channel of a client that closed, exited or gave up comes free. *)
ChannelFreed == (cl.pc = "idle" /\ ch.inuse) ~> ~ch.inuse

=============================================================================
