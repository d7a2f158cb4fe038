------------------------------ MODULE TcpConn ------------------------------
(***************************************************************************)
(* Two TCP endpoints of the network daemon joined by an unreliable         *)
(* network: net/inet/generic/tcp.c, tcp_send.c and tcp_recv.c.             *)
(*                                                                         *)
(* tcb[p] is the connection block of endpoint p (tcp_conn_t) together with *)
(* the descriptor using it (tcp_fd_t) and the program behind that          *)
(* descriptor.  Sequence numbers are counted modulo SeqSpace and compared as *)
(* the daemon does, by the top bit of the difference.  A byte is the       *)
(* number of its place in the stream, so a byte delivered twice, lost or   *)
(* out of place is visible in what the program read.                       *)
(*                                                                         *)
(* Every handler queues its output with tcp_conn_write() and the main loop *)
(* drains that queue before it takes the next input or timer, so an action *)
(* is a handler followed by the segments tcp_port_write() makes of the     *)
(* block it leaves.  Urgent data, IP and TCP options and the round-trip    *)
(* estimate are left out.                                                  *)
(***************************************************************************)
EXTENDS Integers, SequencesExt

CONSTANTS Peer,      \* the two endpoints
          Scripts,   \* what the programs may do: a set of [Peer -> script]
          SeqSpace,    \* sequence numbers are 0 .. SeqSpace - 1 (2^32)
          ISS,       \* [Peer -> initial sequence number]
          MSS,       \* TCP_DEF_MSS: a segment, its header included
          HDR,       \* tot_hdr_size: the header part of a segment
          SND_WND,   \* TCP_MAX_SND_WND_SIZE
          RCV_WND,   \* TCP_MAX_RCV_WND_SIZE
          MIN_RCV,   \* TCP_MIN_RCV_WND_SIZE
          FaultKinds,\* the faults that may happen, of "lose", "duplicate",
                     \* "overtake", "early" and "dead"
          MaxFaults  \* how many faults happen

(***************************************************************************)
(* A script is what one program does with its descriptor: how it opens the *)
(* connection, the sizes of its writes, the size of each of its reads (0:  *)
(* it never reads), whether it shuts down its sending side after the last  *)
(* write, and when it closes: never, on end of file, or once all it wrote  *)
(* has been taken.                                                         *)
(***************************************************************************)
ASSUME NetAssumption ==
  /\ SeqSpace \in Nat /\ SeqSpace % 2 = 0
  /\ {MSS, HDR, RCV_WND, MIN_RCV} \subseteq Nat /\ SND_WND \in Nat \ {0}
  /\ 0 < HDR /\ HDR < MSS /\ MSS <= RCV_WND
  /\ SeqSpace > 4 * (SND_WND + RCV_WND + MSS)
  /\ ISS \in [Peer -> 0..SeqSpace-1]
  /\ FaultKinds \subseteq {"lose", "duplicate", "overtake", "early", "dead"}
  /\ MaxFaults \in Nat

ASSUME PeerAssumption == \E x, y \in Peer : x # y /\ Peer = {x, y}

ASSUME ScriptAssumption ==
  Scripts \subseteq [Peer -> [open : {"connect", "listen"},
                            writes : Seq(Nat \ {0}), read : Nat,
                            shutdown : BOOLEAN,
                            close : {"never", "eof", "early"}]]

VARIABLES script, tcb, net, faults
vars == <<script, tcb, net, faults>>

Other(p) == CHOOSE q \in Peer : q # p

-----------------------------------------------------------------------------
(* Sequence numbers.                                                       *)

\* Mutant: a counter wider than the sequence number on the wire.
AddUnwrapped(a, n) == a + n

Add(a, n) == (a + n) % SeqSpace
Diff(a, b) == (a - b) % SeqSpace
Lmod4G(a, b) == Diff(a, b) >= SeqSpace \div 2
GEmod4G(a, b) == ~Lmod4G(a, b)
Gmod4G(a, b) == Lmod4G(b, a)
LEmod4G(a, b) == ~Lmod4G(b, a)

-----------------------------------------------------------------------------
(* The connection block.                                                   *)

NoRST == [seq |-> 0, ack |-> 0, flags |-> {}, wnd |-> 0, data |-> <<>>]

\* tcp_setup_conn(): a block made ready for a new connection.
tcp_setup_conn(c) ==
  [c EXCEPT !.error = "OK", !.UNA = c.iss, !.TRM = c.iss,
            !.NXT = Add(c.iss, 1), !.PSH = c.iss,
            !.LO = 0, !.RCV = 0, !.HI = 0,
            !.cwnd = Add(c.iss, 2 * MSS), !.cthresh = SND_WND,
            !.finsent = FALSE, !.finrecv = FALSE, !.sendack = FALSE,
            !.push = FALSE, !.more = FALSE, !.stt = FALSE,
            !.timer = FALSE, !.tseq = 0]

\* A block no connection has used, with the descriptor open on it.
FreshBlock(p) ==
  [iss |-> ISS[p], state |-> "CLOSED", error |-> "OK", fd |-> FALSE,
   inprog |-> FALSE, orglisten |-> FALSE,
   UNA |-> ISS[p], TRM |-> ISS[p], NXT |-> ISS[p], PSH |-> ISS[p],
   cwnd |-> ISS[p], cthresh |-> SND_WND, sendq |-> <<>>,
   LO |-> 0, RCV |-> 0, HI |-> 0, rcvd |-> <<>>, adv |-> <<>>, advseq |-> 0,
   finsent |-> FALSE, finrecv |-> FALSE, sendack |-> FALSE, push |-> FALSE,
   more |-> FALSE, frag |-> NoRST, stt |-> FALSE, timer |-> FALSE, tseq |-> 0,
   \* the descriptor: what is posted on it
   open |-> TRUE, connected |-> FALSE, ioctl |-> "none",
   writing |-> FALSE, wcount |-> 0, woffset |-> 0, reading |-> FALSE, rcount |-> 0,
   \* the program: writes posted, bytes taken from it, its end of stream,
   \* bytes it has read, and the replies that matter to it
   posted |-> 0, sent |-> 0, ended |-> FALSE, got |-> <<>>,
   eof |-> FALSE, failed |-> FALSE, opened |-> "no", shut |-> "no"]

\* tcp_conn_write(): queue the block on its port's list of senders.
tcp_conn_write(c) == [c EXCEPT !.more = TRUE]

tcp_set_send_timer(c) == [c EXCEPT !.timer = TRUE, !.stt = TRUE]

\* The part of tcp_shutdown() that queues a FIN.
SendFin(c) ==
  IF c.finsent THEN c
  ELSE tcp_set_send_timer(tcp_conn_write(
         [c EXCEPT !.finsent = TRUE, !.NXT = Add(@, 1), !.ended = TRUE]))

-----------------------------------------------------------------------------
(* Replies to the program.                                                 *)

\* A read is answered with the bytes taken, 0 (end of file) or an error.
ReplyRead(c, r) ==
  [c EXCEPT !.reading = FALSE, !.rcount = 0,
            !.eof = @ \/ r = "eof", !.failed = @ \/ r = "error"]

ReplyWrite(c, r) ==
  [c EXCEPT !.writing = FALSE, !.wcount = 0, !.woffset = 0,
            !.failed = @ \/ r = "error"]

ReplyIoctl(c, r) ==
  [c EXCEPT !.ioctl = "none",
            !.opened = IF c.ioctl \in {"CONN", "LISTEN"} THEN r ELSE @,
            !.shut = IF c.ioctl = "SHUTDOWN" THEN r ELSE @]

\* A reply of tc_error: NW_OK is 0, which a read takes for end of file.
ErrorAsRead(c) == IF c.error = "OK" THEN "eof" ELSE "error"

-----------------------------------------------------------------------------
(* tcp_fd_write(): move what the descriptor has to send into the block.    *)

\* Mutant: a shutdown answered when its FIN has been sent.
FdIoctlWhenSent(c) ==
  IF c.ioctl # "SHUTDOWN" THEN c
  ELSE IF c.state = "CLOSED" THEN ReplyIoctl(c, c.error)
  ELSE IF ~c.finsent THEN SendFin(c)
  ELSE IF c.TRM = c.NXT THEN ReplyIoctl(c, "OK") ELSE c

FdIoctl(c) ==
  CASE c.ioctl # "SHUTDOWN" -> c
    [] c.ioctl = "SHUTDOWN" /\ c.state = "CLOSED" -> ReplyIoctl(c, c.error)
    [] c.ioctl = "SHUTDOWN" /\ c.state # "CLOSED" /\ ~c.finsent -> SendFin(c)
    [] c.ioctl = "SHUTDOWN" /\ c.state # "CLOSED" /\ c.finsent ->
         IF c.UNA = c.NXT THEN ReplyIoctl(c, "OK") ELSE c

CopyIn(c, n) ==
  [c EXCEPT !.sendq = @ \o [i \in 1..n |-> c.sent + i],
            !.sent = @ + n, !.NXT = Add(@, n),
            !.woffset = @ + n, !.wcount = @ - n,
            !.PSH = IF n > 0 /\ n = c.wcount THEN Add(c.NXT, n) ELSE @]

\* As much as the send window takes; the write is answered once it is all in.
FdCopyIn(c) ==
  LET room == SND_WND - Diff(c.NXT, c.UNA)
  IN IF c.wcount <= room THEN ReplyWrite(CopyIn(c, c.wcount), "ok")
     ELSE CopyIn(c, room)

tcp_fd_write(c) ==
  IF c.ioctl # "none" /\ ~c.writing THEN FdIoctl(c)
  ELSE IF c.state = "CLOSED" 
  THEN ReplyWrite(c, IF c.woffset > 0 THEN "short" ELSE "error")
  ELSE FdCopyIn(c)

-----------------------------------------------------------------------------
(* tcp_fd_read(): hand received data to a posted read, move the window.    *)

DataSize(c) == Diff(c.RCV, c.LO) - (IF c.finrecv THEN 1 ELSE 0)

\* Deferred: neither pushed nor ended, and less than the read or the
\* minimum window asks for; or nothing to hand over at all.
Defer(c) ==
  /\ DataSize(c) < c.rcount
  /\ \/ ~c.push /\ ~c.finrecv /\ DataSize(c) < MIN_RCV
     \/ DataSize(c) = 0 /\ ~c.finrecv

CopyOut(c, n) ==
  [c EXCEPT !.got = @ \o SubSeq(c.rcvd, 1, n),
            !.rcvd = SubSeq(@, n + 1, Len(@)),
            !.LO = Add(@, n), !.rcount = @ - n]

\* Mutant: the threshold taken for the size of the window.
SlideWindowShort(c) ==
  LET hi == Add(c.LO, RCV_WND - MSS)
  IN tcp_conn_write([c EXCEPT !.HI = hi, !.sendack = TRUE])

\* The window is offered again only in steps of a segment; an update is
\* sent when it opens past one.
SlideWindow(c) ==
  IF Diff(c.HI, c.LO) > RCV_WND - MSS THEN c
  ELSE LET hi == Add(c.LO, RCV_WND)
           open == Diff(c.HI, c.RCV) < MSS /\ Diff(hi, c.RCV) >= MSS
           moved == [c EXCEPT !.HI = hi]
       IN IF open THEN tcp_conn_write([moved EXCEPT !.sendack = TRUE])
          ELSE moved

\* What was pushed has been taken.
Drain(c) == [c EXCEPT !.push = @ /\ (c.rcvd # <<>> \/ c.adv # <<>>)]

\* What there is, or the end once there is nothing left.
HandOver(c, n) ==
  LET taken == Drain(SlideWindow(CopyOut(c, n)))
  IN IF n > 0 THEN ReplyRead(taken, "data")
     ELSE IF c.finrecv THEN ReplyRead(taken, "eof") ELSE taken

tcp_fd_read(c) ==
  IF c.state = "CLOSED" THEN ReplyRead(c, ErrorAsRead(c))
  ELSE IF Defer(c) THEN c
  ELSE HandOver(c, IF DataSize(c) >= c.rcount THEN c.rcount ELSE DataSize(c))

ReadIfPosted(c) == IF c.fd /\ c.reading THEN tcp_fd_read(c) ELSE c

-----------------------------------------------------------------------------
(* Ending a connection.                                                    *)

\* tcp_restart_connect(): answer the connect or listen in progress.
tcp_restart_connect(c) ==
  IF c.state = "CLOSED"
  THEN ReplyIoctl([c EXCEPT !.fd = FALSE, !.inprog = FALSE], c.error)
  ELSE ReplyIoctl([c EXCEPT !.connected = TRUE, !.inprog = FALSE], "OK")

\* The replies tcp_close_connection() owes the descriptor, in its order:
\* a read, a write, an ioctl, a connect or listen in progress.
AnswerRead(c) == IF c.reading THEN tcp_fd_read(c) ELSE c
AnswerWrite(c) == IF c.writing THEN tcp_conn_write(tcp_fd_write(c)) ELSE c
AnswerIoctl(c) ==
  IF c.ioctl # "none" THEN tcp_conn_write(tcp_fd_write(c)) ELSE c
AnswerOpen(c) == IF c.inprog THEN tcp_restart_connect(c) ELSE c
AnswerAll(c) ==
  IF c.fd THEN AnswerOpen(AnswerIoctl(AnswerWrite(AnswerRead(c)))) ELSE c

tcp_close_connection(c, err) ==
  IF c.state = "CLOSED" THEN [c EXCEPT !.error = err]
  ELSE [AnswerAll([c EXCEPT !.error = err, !.state = "CLOSED"]) EXCEPT
          !.rcvd = <<>>, !.LO = c.RCV, !.adv = <<>>,
          !.sendq = <<>>, !.TRM = c.UNA, !.NXT = c.UNA, !.frag = NoRST,
          !.timer = FALSE, !.tseq = 0, !.finsent = FALSE,
          !.finrecv = FALSE, !.sendack = FALSE, !.push = FALSE,
          !.more = FALSE]

tcp_shutdown(c) ==
  IF c.state \in {"CLOSED", "LISTEN", "SYN_SENT", "SYN_RECEIVED"}
  THEN tcp_close_connection(c, "ENOTCONN")
  ELSE SendFin(c)

tcp_su4listen(c) ==
  [tcp_setup_conn(c) EXCEPT !.fd = TRUE, !.inprog = TRUE, !.orglisten = TRUE,
                            !.state = "LISTEN"]

tcp_su4connect(c) ==
  tcp_conn_write(tcp_set_send_timer(
    [tcp_setup_conn(c) EXCEPT !.fd = TRUE, !.inprog = TRUE,
       !.orglisten = FALSE, !.state = "SYN_SENT"]))

-----------------------------------------------------------------------------
(* tcp_release_retrans(): an acknowledgement of something new.             *)

cinc == (MSS * MSS) \div SND_WND + 1

\* Slow start up to the threshold, then a small step; never more than the
\* receiver offers.
AckWindow(c, wnd) ==
  LET grown == Diff(c.cwnd, c.UNA) + MSS
      past == grown > c.cthresh
      thresh == IF past THEN c.cthresh + cinc ELSE c.cthresh
      window == IF past THEN thresh ELSE grown
  IN [thresh |-> thresh, window |-> IF window > wnd THEN wnd ELSE window]

\* What was acknowledged leaves the queue, the window moves.
Released(c, ack, wnd) ==
  LET fin == IF c.finsent THEN 1 ELSE 0
      lo == IF c.UNA = c.iss THEN Add(c.UNA, 1) ELSE c.UNA
      acked == IF c.finsent /\ ack = c.NXT THEN Add(ack, -1) ELSE ack
      size == Diff(Add(c.NXT, -fin), acked)
      w == AckWindow(c, wnd)
  IN [c EXCEPT !.cthresh = w.thresh, !.UNA = ack,
        !.TRM = IF Lmod4G(@, ack) THEN ack ELSE @,
        !.cwnd = Add(ack, IF size = 0 THEN 2 * MSS ELSE w.window),
        !.sendq = IF size = 0 THEN <<>> ELSE SubSeq(@, Diff(acked, lo) + 1, Len(@))]

\* The window may have shrunk behind what was to be sent next.
BackInWindow(c) == [c EXCEPT !.TRM = IF Gmod4G(@, c.cwnd) THEN c.cwnd ELSE @]

\* A pending write gets the room, a pending shutdown its turn.
Refill(c) ==
  IF /\ c.fd /\ (c.writing \/ c.ioctl # "none")
     /\ Diff(c.NXT, c.TRM) < MSS
  THEN tcp_fd_write(c) ELSE c

\* A closed descriptor's connection ends with the last acknowledgement.
EndOrSend(c) ==
  CASE ~c.fd /\ c.UNA = c.NXT -> tcp_close_connection(c, "ENOTCONN")
    [] (c.fd \/ c.UNA # c.NXT) /\ c.cwnd # c.TRM /\ c.NXT # c.TRM ->
         tcp_conn_write(c)
    [] OTHER -> c

\* Mutant: what was to be sent again is not moved past what is acknowledged.
KeepTRM(c, ack, wnd) ==
  EndOrSend(Refill(BackInWindow([Released(c, ack, wnd) EXCEPT !.TRM = c.TRM])))

\* Mutant: a write waiting for room is not resumed.
NoRefill(c, ack, wnd) == EndOrSend(BackInWindow(Released(c, ack, wnd)))

tcp_release_retrans(c, ack, wnd) ==
  EndOrSend(Refill(BackInWindow(Released(c, ack, wnd))))

-----------------------------------------------------------------------------
(* Received segments.                                                      *)

Has(s, f) == f \in s.flags

\* create_RST(): only data, a SYN or a FIN is answered with a reset.
create_RST(c, s) ==
  LET len == Len(s.data) + (IF Has(s, "SYN") THEN 1 ELSE 0)
                         + (IF Has(s, "FIN") THEN 1 ELSE 0)
      rst == IF Has(s, "ACK")
             THEN [seq |-> s.ack, ack |-> 0, flags |-> {"RST"},
                   wnd |-> RCV_WND, data |-> <<>>]
             ELSE [seq |-> 0, ack |-> Add(s.seq, len),
                   flags |-> {"RST", "ACK"}, wnd |-> RCV_WND, data |-> <<>>]
  IN IF len = 0 THEN c ELSE tcp_conn_write([c EXCEPT !.frag = rst])

AckBack(c) == tcp_conn_write([c EXCEPT !.sendack = TRUE])

\* The acceptability test of SYN_RECEIVED, ESTABLISHED and CLOSING.
Acceptable(c, s) ==
  LET InWindow(n) == LEmod4G(c.RCV, n) /\ Lmod4G(n, c.HI)
      len == Len(s.data)
  IN IF len = 0
     THEN IF c.HI = c.RCV THEN s.seq = c.HI ELSE InWindow(s.seq)
     ELSE /\ Gmod4G(c.HI, c.RCV)
          /\ InWindow(s.seq) \/ InWindow(Add(s.seq, len - 1))

\* Mutant: the bytes already received are counted and not skipped.
AppendUnskipped(c, s) ==
  LET hi == Add(s.seq, Len(s.data))
      upto == IF Gmod4G(hi, c.HI) THEN c.HI ELSE hi
      fin == Has(s, "FIN") /\ upto = hi /\ ~c.finrecv /\ Lmod4G(upto, c.HI)
  IN [c EXCEPT !.rcvd = @ \o SubSeq(s.data, 1, Diff(upto, c.RCV)),
               !.push = @ \/ Has(s, "PSH"),
               !.RCV = Add(upto, IF fin THEN 1 ELSE 0),
               !.finrecv = @ \/ fin]

\* process_data(): the part of a segment at RCV that fits the window is
\* appended, then the data held in advance if it follows.
Append_data(c, s) ==
  LET skip == Diff(c.RCV, s.seq)
      hi == Add(s.seq, Len(s.data))
      cut == Gmod4G(hi, c.HI)
      upto == IF cut THEN c.HI ELSE hi
      fin == /\ Has(s, "FIN") /\ ~cut /\ ~c.finrecv
             /\ Lmod4G(upto, c.HI)
  IN [c EXCEPT !.rcvd = @ \o SubSeq(s.data, skip + 1,
                                    skip + Diff(upto, c.RCV)),
               !.push = @ \/ Has(s, "PSH"),
               !.RCV = Add(upto, IF fin THEN 1 ELSE 0),
               !.finrecv = @ \/ fin]

\* Data after a FIN is dropped; data not yet in turn waits; what was
\* received meanwhile is skipped.
UseAdvanced(c, fin) ==
  LET skip == Diff(c.RCV, c.advseq)
      taken == [c EXCEPT !.adv = <<>>]
  IN IF c.adv = <<>> THEN c
     ELSE IF fin THEN taken
     ELSE IF Gmod4G(c.advseq, c.RCV) THEN c
     ELSE IF skip >= Len(c.adv) THEN taken
     ELSE ReadIfPosted(
            [taken EXCEPT !.rcvd = @ \o SubSeq(c.adv, skip + 1, Len(c.adv)),
                          !.RCV = Add(@, Len(c.adv) - skip)])

process_data(c, s) ==
  LET fin == Has(s, "FIN") /\ LEmod4G(Add(s.seq, Len(s.data)), c.HI)
  IN UseAdvanced(ReadIfPosted(Append_data(c, s)), fin)

\* process_advanced_data(): one run of data ahead of RCV is kept.
process_advanced_data(c, s) ==
  LET hi == Add(s.seq, Len(s.data))
      pushed == [AckBack(c) EXCEPT !.push = @ \/ Has(s, "PSH")]
  IN IF Gmod4G(hi, c.HI) THEN pushed
     ELSE IF c.adv = <<>>
     THEN [pushed EXCEPT !.adv = s.data, !.advseq = s.seq]
     ELSE IF hi = c.advseq
     THEN [pushed EXCEPT !.adv = s.data \o @, !.advseq = s.seq]
     ELSE IF Add(c.advseq, Len(c.adv)) = s.seq
     THEN [pushed EXCEPT !.adv = @ \o s.data]
     ELSE pushed

-----------------------------------------------------------------------------
(* tcp_frag2conn(), one operator for each state of the connection.         *)

InClosed(c, s) == IF Has(s, "RST") THEN c ELSE tcp_conn_write(create_RST(c, s))

InListen(c, s) ==
  CASE Has(s, "RST") -> c
    [] ~Has(s, "RST") /\ Has(s, "ACK") -> tcp_conn_write(create_RST(c, s))
    [] ~Has(s, "RST") /\ ~Has(s, "ACK") ->
         tcp_set_send_timer(tcp_conn_write(
           [c EXCEPT !.LO = Add(s.seq, 1), !.RCV = Add(s.seq, 1),
                     !.HI = Add(s.seq, 1 + RCV_WND), !.UNA = c.iss,
                     !.TRM = c.iss, !.NXT = Add(c.iss, 1),
                     !.PSH = Add(c.iss, -1), !.state = "SYN_RECEIVED"]))

\* What ESTABLISHED and CLOSING do with a valid acknowledgement field.
ProcessAck(c, s) ==
  LET alive == IF c.state = "CLOSING" THEN c ELSE [c EXCEPT !.stt = FALSE]
      wnd == IF s.wnd > 2 * MSS THEN 2 * MSS ELSE s.wnd
      opened == tcp_conn_write([alive EXCEPT !.cwnd = Add(c.UNA, wnd)])
  IN IF s.ack = c.UNA
     THEN IF s.wnd = 0 THEN [alive EXCEPT !.cwnd = c.UNA, !.TRM = c.UNA]
          ELSE IF c.cwnd = c.UNA THEN opened ELSE alive
     ELSE IF Lmod4G(c.UNA, s.ack) /\ LEmod4G(s.ack, c.NXT)
          THEN tcp_release_retrans(alive, s.ack, s.wnd)
          ELSE alive

ProcessText(c, s) ==
  IF s.data # <<>>
  THEN AckBack(IF LEmod4G(s.seq, c.RCV) THEN process_data(c, s)
               ELSE process_advanced_data(c, s))
  ELSE IF Has(s, "FIN") /\ LEmod4G(s.seq, c.RCV)
       THEN LET new == ~c.finrecv /\ Lmod4G(c.RCV, c.HI)
            IN ReadIfPosted(AckBack(
                 [c EXCEPT !.RCV = IF new THEN Add(@, 1) ELSE @,
                           !.finrecv = @ \/ new]))
       ELSE c

Unacceptable(c, s) ==
  LET push == c.rcvd # <<>> /\ Has(s, "PSH")
  IN IF Has(s, "RST") THEN c
     ELSE IF push THEN ReadIfPosted([AckBack(c) EXCEPT !.push = TRUE])
     ELSE AckBack(c)

\* After the acknowledgement: what it covers must have been sent.
ProcessRest(c, s) ==
  CASE c.state = "CLOSED" -> c
    [] c.state # "CLOSED" /\ Gmod4G(s.ack, c.NXT) -> AckBack(c)
    [] c.state # "CLOSED" /\ LEmod4G(s.ack, c.NXT) -> ProcessText(c, s)

InEstablished(c, s) ==
  LET clean == c.finsent /\ c.finrecv /\ c.sendq = <<>>
  IN IF ~Acceptable(c, s) THEN Unacceptable(c, s)
     ELSE IF Has(s, "RST")
     THEN tcp_close_connection(c, IF clean THEN "OK" ELSE "ECONNRESET")
     ELSE IF Has(s, "SYN") /\ GEmod4G(s.seq, c.RCV)
     THEN tcp_close_connection(c, "ECONNRESET")
     ELSE IF ~Has(s, "ACK") THEN c
     ELSE ProcessRest(ProcessAck(c, s), s)

\* A listener whose handshake fails listens again, without a reply.
Refuse(c, err) ==
  IF c.orglisten
  THEN tcp_su4listen(tcp_close_connection(
         [c EXCEPT !.inprog = FALSE, !.fd = FALSE], err))
  ELSE tcp_close_connection(c, err)

InSynReceived(c, s) ==
  IF ~Acceptable(c, s) THEN IF Has(s, "RST") THEN c ELSE AckBack(c)
  ELSE IF Has(s, "RST") THEN Refuse(c, "ECONNREFUSED")
  ELSE IF Has(s, "SYN") /\ GEmod4G(s.seq, c.RCV) THEN Refuse(c, "ECONNRESET")
  ELSE IF ~Has(s, "ACK") THEN c
  ELSE IF Lmod4G(c.UNA, s.ack) /\ LEmod4G(s.ack, c.NXT)
  THEN InEstablished(tcp_restart_connect(
         tcp_release_retrans([c EXCEPT !.state = "ESTABLISHED"],
                             s.ack, s.wnd)), s)
  ELSE tcp_conn_write(create_RST(c, s))

InSynSent(c, s) ==
  LET bad == LEmod4G(s.ack, c.iss) \/ Gmod4G(s.ack, c.NXT)
      ok == Has(s, "ACK") /\ LEmod4G(c.UNA, s.ack) /\ LEmod4G(s.ack, c.NXT)
      synced == [c EXCEPT !.LO = Add(s.seq, 1), !.RCV = Add(s.seq, 1),
                          !.HI = Add(s.seq, 1 + RCV_WND),
                          !.UNA = IF Has(s, "ACK") THEN s.ack ELSE @]
      up == AckBack(tcp_restart_connect(
              [synced EXCEPT !.state = "ESTABLISHED"]))
  IN IF Has(s, "ACK") /\ bad
     THEN IF Has(s, "RST") THEN c ELSE tcp_conn_write(create_RST(c, s))
     ELSE IF Has(s, "RST")
     THEN IF ok THEN tcp_close_connection(c, "ECONNREFUSED") ELSE c
     ELSE IF ~Has(s, "SYN") THEN c
     ELSE IF Gmod4G(synced.UNA, c.iss)
     THEN IF s.data # <<>> THEN InEstablished(up, s) ELSE up
     ELSE tcp_conn_write([synced EXCEPT !.state = "SYN_RECEIVED",
                                        !.TRM = c.iss])

\* find_best_conn(): a listening block matches nothing but a SYN, and a
\* segment nobody matches meets a closed block.
NoConn(c, s) ==
  c.state = "CLOSED" \/ (c.state = "LISTEN" /\ ~Has(s, "SYN"))

tcp_frag2conn(c, s) ==
  CASE NoConn(c, s) -> InClosed(c, s)
    [] c.state = "LISTEN" /\ Has(s, "SYN") -> InListen(c, s)
    [] c.state = "SYN_SENT" -> InSynSent(c, s)
    [] c.state = "SYN_RECEIVED" -> InSynReceived(c, s)
    [] c.state \in {"ESTABLISHED", "CLOSING"} -> InEstablished(c, s)

-----------------------------------------------------------------------------
(* make_pack() and tcp_port_write(): the segments a block has to send.     *)

Nothing == [seg |-> NoRST, some |-> FALSE]

\* SYN_SENT and SYN_RECEIVED: the SYN, or an acknowledgement asked for.
HandshakePack(c) ==
  LET syn == c.TRM = c.iss
      flags == (IF c.state = "SYN_SENT" THEN {} ELSE {"ACK"})
               \cup (IF syn THEN {"SYN"} ELSE {})
  IN IF c.TRM = c.NXT /\ ~c.sendack THEN <<c, Nothing>>
     ELSE <<[c EXCEPT !.sendack = FALSE, !.TRM = IF syn THEN Add(@, 1) ELSE @],
            [some |-> TRUE,
             seg |-> [seq |-> c.TRM, ack |-> c.RCV, flags |-> flags,
                      wnd |-> MSS, data |-> <<>>]]>>

\* How far the next segment reaches: one segment, not past the window, and
\* a partial one only when nothing is unacknowledged.
DataPack(c) ==
  LET fin == c.finsent /\ c.TRM # c.NXT
      top == IF c.finsent THEN Add(c.NXT, -1) ELSE c.NXT
      lo == IF c.finsent /\ c.TRM = c.NXT THEN top ELSE c.TRM
      toolong == Diff(top, lo) > MSS - HDR
      hi1 == IF toolong THEN Add(lo, MSS - HDR) ELSE c.NXT
      data1 == IF toolong THEN hi1 ELSE top
      beyond == Gmod4G(hi1, c.cwnd)
      hi == IF beyond THEN c.cwnd ELSE hi1
      hidata == IF beyond THEN c.cwnd ELSE data1
      none == \/ c.UNA = c.NXT
              \/ c.TRM = c.cwnd
              \/ hi = c.TRM
              \/ c.TRM # c.UNA /\ Diff(hidata, lo) + HDR < MSS
      psh == Gmod4G(c.PSH, lo) /\ LEmod4G(c.PSH, hidata)
  IN [none |-> none, hi |-> hi,
      flags |-> (IF fin /\ ~toolong /\ ~beyond THEN {"FIN"} ELSE {})
                \cup (IF psh THEN {"PSH"} ELSE {}),
      data |-> SubSeq(c.sendq, Diff(lo, c.UNA) + 1, Diff(hidata, c.UNA))]

\* The segment of an established connection: its data d, or only the
\* acknowledgement somebody asked for.
Packed(c, d, ack) ==
  LET seg == [seq |-> c.TRM, ack |-> ack, wnd |-> Diff(c.HI, c.RCV),
              flags |-> {"ACK"} \cup (IF d.none THEN {} ELSE d.flags),
              data |-> IF d.none THEN <<>> ELSE d.data]
  IN IF d.none /\ ~c.sendack THEN <<c, Nothing>>
     ELSE <<[c EXCEPT !.sendack = FALSE, !.TRM = IF d.none THEN @ ELSE d.hi],
            [some |-> TRUE, seg |-> seg]>>

\* Mutant: the acknowledgement covers the data held in advance.
AckAdvanced(c) ==
  Packed(c, DataPack(c),
         IF c.adv = <<>> THEN c.RCV ELSE Add(c.advseq, Len(c.adv)))

EstablishedPack(c) == Packed(c, DataPack(c), c.RCV)

make_pack(c) ==
  CASE c.state \in {"CLOSED", "LISTEN"} -> <<c, Nothing>>
    [] c.state \in {"SYN_SENT", "SYN_RECEIVED"} -> HandshakePack(c)
    [] c.state \in {"ESTABLISHED", "CLOSING"} -> EstablishedPack(c)

MaxBurst == SND_WND + 2

\* A queued reset goes first, then whatever make_pack() makes until it has
\* nothing left.
Burst(acc) ==
  LET m == make_pack(acc.c)
  IN IF acc.done THEN acc
     ELSE IF m[2].some THEN [acc EXCEPT !.c = m[1], !.out = Append(@, m[2].seg)]
     ELSE [acc EXCEPT !.done = TRUE]

\* tcp_port_write(), of a segment that ip_send() takes or suspends.  What it
\* may refuse for good, a host that cannot be reached or is no destination
\* (tcp_notreach()), is left out: the two ends have a route to each other.
tcp_port_write(c) ==
  LET start == [c |-> [c EXCEPT !.more = FALSE, !.frag = NoRST],
                out |-> IF c.frag = NoRST THEN <<>> ELSE <<c.frag>>,
                done |-> ~c.more]
      burst[i \in 0..MaxBurst] ==
        IF i = 0 THEN start ELSE LET acc == burst[i - 1] IN Burst(acc)
  IN burst[MaxBurst]

\* The end of every handler: p's block, and its segments under way to the
\* other, of those to p only the ones that are kept.
Sent(p, kept, r) ==
  /\ tcb' = [tcb EXCEPT ![p] = r.c]
  /\ net' = [net EXCEPT ![p] = kept, ![Other(p)] = @ \o r.out]

Finish(p, c) == Sent(p, net[p], tcp_port_write(c))

-----------------------------------------------------------------------------
(* What a program does with its descriptor.                                *)

SumSeq(s) == FoldLeft(LAMBDA n, m : n + m, 0, s)

Idle(c) == c.ioctl = "none" /\ ~c.writing

MayOpen(p, how) ==
  /\ script[p].open = how /\ tcb[p].open
  /\ tcb[p].opened = "no" /\ tcb[p].ioctl = "none"

Listen(p) ==
  /\ MayOpen(p, "listen")
  /\ Finish(p, tcp_su4listen([tcb[p] EXCEPT !.ioctl = "LISTEN"]))
  /\ UNCHANGED <<script, faults>>

Connect(p) ==
  /\ MayOpen(p, "connect")
  /\ Finish(p, tcp_su4connect([tcb[p] EXCEPT !.ioctl = "CONN"]))
  /\ UNCHANGED <<script, faults>>

\* tcp_write(): refused on a closed connection or after a shutdown, and the
\* timer is started if it is not running for unacknowledged data.
tcp_write(c, n) ==
  LET posted == [c EXCEPT !.writing = TRUE, !.woffset = 0, !.wcount = n]
      quiet == c.UNA = c.NXT /\ c.tseq = c.UNA
      timed == IF quiet THEN tcp_set_send_timer(posted) ELSE posted
  IN IF c.state = "CLOSED" \/ c.finsent THEN ReplyWrite(c, "error")
     ELSE tcp_conn_write(tcp_fd_write(timed))

MayWrite(p) ==
  LET c == tcb[p]
  IN /\ c.open /\ c.connected /\ ~c.failed /\ Idle(c)
     /\ c.shut = "no" /\ c.posted < Len(script[p].writes)

Write(p) ==
  /\ MayWrite(p)
  /\ Finish(p, tcp_write([tcb[p] EXCEPT !.posted = @ + 1],
                         script[p].writes[tcb[p].posted + 1]))
  /\ UNCHANGED <<script, faults>>

MayRead(p) ==
  LET c == tcb[p]
  IN /\ c.open /\ c.connected /\ ~c.failed /\ ~c.eof /\ ~c.reading
     /\ script[p].read > 0

Read(p) ==
  /\ MayRead(p)
  /\ Finish(p, tcp_fd_read([tcb[p] EXCEPT !.reading = TRUE,
                                          !.rcount = script[p].read]))
  /\ UNCHANGED <<script, faults>>

\* All the script writes has been taken from the program.
Written(p) == Idle(tcb[p]) /\ tcb[p].posted = Len(script[p].writes)

\* NWIOTCPSHUTDOWN.
MayShutdown(p) ==
  /\ script[p].shutdown /\ tcb[p].open /\ tcb[p].connected
  /\ Written(p) /\ tcb[p].shut = "no"

Shutdown(p) ==
  /\ MayShutdown(p)
  /\ Finish(p, tcp_conn_write(tcp_fd_write(
                 [tcb[p] EXCEPT !.ioctl = "SHUTDOWN"])))
  /\ UNCHANGED <<script, faults>>

\* What is still posted when the descriptor goes.  A program that has waited
\* for its answer, or cancelled, leaves nothing; the channel server calls
\* srm_close() over whatever there is (coh_sr.c:464-470, 512-519), and since a
\* closed descriptor has no connection any more (tc_fd = 0) its READ is never
\* answered.  Nobody is left to be told either way.  An open that is still in
\* progress is given up as tcp_cancel() does; MayClose never comes to that.
Cancel(c) ==
  LET quiet == [c EXCEPT !.reading = FALSE, !.rcount = 0, !.writing = FALSE,
                         !.wcount = 0, !.woffset = 0, !.ioctl = "none"]
  IN IF c.inprog
     THEN tcp_close_connection([quiet EXCEPT !.inprog = FALSE, !.fd = FALSE],
                               "ENOCONN")
     ELSE quiet

tcp_close(c) ==
  LET Closing(d) == IF d.state = "ESTABLISHED"
                    THEN [d EXCEPT !.state = "CLOSING"] ELSE d
      IfDone(d) == IF d.UNA = d.NXT
                   THEN tcp_close_connection(d, "ENOTCONN") ELSE d
  IN IF ~c.fd THEN c
     ELSE IfDone(Closing(tcp_shutdown([c EXCEPT !.fd = FALSE])))

MayClose(p) ==
  LET c == tcb[p]
  IN /\ c.open
     /\ \/ c.failed
        \/ c.opened \notin {"no", "OK"}
        \/ script[p].close = "eof" /\ c.eof /\ Written(p)
        \/ script[p].close = "early" /\ c.connected /\ Written(p)

Close(p) ==
  /\ MayClose(p)
  /\ Finish(p, tcp_close(Cancel([tcb[p] EXCEPT !.open = FALSE])))
  /\ UNCHANGED <<script, faults>>

-----------------------------------------------------------------------------
(* tcp_send_timeout().                                                     *)

\* Mutant: the timer stops without a mark for the next write to see.
TimerForgets(c) == [c EXCEPT !.stt = FALSE, !.timer = FALSE, !.tseq = 0]

\* Nothing is unacknowledged: the next write starts the timer again.
TimerIdle(c) == [c EXCEPT !.tseq = c.UNA, !.stt = FALSE, !.timer = FALSE]

\* Something was acknowledged since the timer was set.
TimerProgress(c) == [c EXCEPT !.tseq = c.UNA, !.stt = FALSE]

\* Go back to the oldest unacknowledged byte, or probe a closed window.
Retransmit(c) ==
  LET probe == IF c.cwnd = c.UNA THEN Add(c.cwnd, 1) ELSE c.cwnd
      large == Gmod4G(probe, Add(c.UNA, 2 * MSS))
      half == c.cthresh \div 2
  IN tcp_conn_write(
       [c EXCEPT !.TRM = c.UNA,
                 !.cwnd = IF large THEN Add(c.UNA, 2 * MSS) ELSE probe,
                 !.cthresh = IF ~large THEN @
                             ELSE IF half < 2 * MSS THEN 2 * MSS ELSE half])

\* The faults left to happen, of any kind.
Fault(kind) ==
  /\ kind \in FaultKinds /\ faults > 0
  /\ faults' = faults - 1

NetEmpty == \A p \in Peer : net[p] = <<>>

\* The timer of p expires and sends nothing.
TimerExpires(p) ==
  LET c == tcb[p]
  IN /\ c.timer
     /\ \/ c.NXT = c.UNA /\ Finish(p, TimerIdle(c))
        \/ c.NXT # c.UNA /\ c.tseq # c.UNA /\ Finish(p, TimerProgress(c))
        \/ /\ c.NXT # c.UNA /\ c.tseq = c.UNA /\ ~c.stt
           /\ Finish(p, [c EXCEPT !.stt = TRUE])
     /\ UNCHANGED <<script, faults>>

MustRetransmit(c) == c.timer /\ c.NXT # c.UNA /\ c.tseq = c.UNA /\ c.stt

\* It expires because everything under way has arrived or is lost ...
TimerRetransmits(p) ==
  /\ MustRetransmit(tcb[p]) /\ NetEmpty
  /\ Finish(p, Retransmit(tcb[p]))
  /\ UNCHANGED <<script, faults>>

\* ... or too early, with segments still under way ...
TimerEarly(p) ==
  /\ MustRetransmit(tcb[p]) /\ ~NetEmpty
  /\ Fault("early")
  /\ Finish(p, Retransmit(tcb[p]))
  /\ UNCHANGED script

\* ... or tc_rt_dead after the last sign of life.
TimerGivesUp(p) ==
  /\ MustRetransmit(tcb[p])
  /\ Fault("dead")
  /\ Finish(p, tcp_close_connection(tcb[p], "ETIMEDOUT"))
  /\ UNCHANGED script

-----------------------------------------------------------------------------
(* The network between the two.                                            *)

\* p receives the i-th segment under way to it.
Arrive(p, i, kept) ==
  /\ Sent(p, kept, tcp_port_write(tcp_frag2conn(tcb[p], net[p][i])))
  /\ UNCHANGED script

DeliverFirst(p) ==
  /\ net[p] # <<>>
  /\ Arrive(p, 1, Tail(net[p]))
  /\ UNCHANGED faults

Overtake(p) ==
  /\ Len(net[p]) > 1
  /\ Fault("overtake")
  /\ Arrive(p, 2, RemoveAt(net[p], 2))

Duplicate(p) ==
  /\ net[p] # <<>>
  /\ Fault("duplicate")
  /\ Arrive(p, 1, net[p])

Lose(p) ==
  /\ Fault("lose")
  /\ \E i \in 1..Len(net[p]) : net' = [net EXCEPT ![p] = RemoveAt(@, i)]
  /\ UNCHANGED <<script, tcb>>

-----------------------------------------------------------------------------
Init ==
  /\ script \in Scripts
  /\ tcb = [p \in Peer |-> FreshBlock(p)]
  /\ net = [p \in Peer |-> <<>>]
  /\ faults = MaxFaults

Next ==
  \E p \in Peer :
    \/ Listen(p) \/ Connect(p) \/ Write(p) \/ Read(p) \/ Shutdown(p)
    \/ Close(p) \/ TimerExpires(p) \/ TimerRetransmits(p) \/ TimerEarly(p)
    \/ TimerGivesUp(p) \/ DeliverFirst(p) \/ Overtake(p) \/ Duplicate(p)
    \/ Lose(p)

(***************************************************************************)
(* The programs keep going: whatever a script has next is done.  The       *)
(* network delivers what it does not lose.  These are weak fairness,       *)
(* written out with the guards wherever evaluating ENABLED would repeat    *)
(* the handler: each of the steps changes the state whenever its guard     *)
(* holds.  A running timer expires, although the model lets it retransmit  *)
(* only when nothing is under way: strong fairness, written out likewise.  *)
(***************************************************************************)
AppFairness ==
  \A p \in Peer :
    /\ WF_vars(Listen(p))
    /\ []<>~MayOpen(p, "connect") \/ []<><<Connect(p)>>_vars
    /\ []<>~MayWrite(p) \/ []<><<Write(p)>>_vars
    /\ []<>~MayRead(p) \/ []<><<Read(p)>>_vars
    /\ []<>~MayShutdown(p) \/ []<><<Shutdown(p)>>_vars
    /\ []<>~MayClose(p) \/ []<><<Close(p)>>_vars

NetFairness ==
  \A p \in Peer : []<>(net[p] = <<>>) \/ []<><<DeliverFirst(p)>>_vars

TimerReady(p) == tcb[p].timer /\ (MustRetransmit(tcb[p]) => NetEmpty)

TimerFairness ==
  \A p \in Peer :
    <>[]~TimerReady(p) \/ []<><<TimerExpires(p) \/ TimerRetransmits(p)>>_vars

Fairness == AppFairness /\ NetFairness /\ TimerFairness

Spec == Init /\ [][Next]_vars /\ Fairness

-----------------------------------------------------------------------------
(* Properties.                                                             *)

Segment == [seq : 0..SeqSpace-1, ack : 0..SeqSpace-1, wnd : 0..RCV_WND,
            flags : SUBSET {"SYN", "ACK", "FIN", "RST", "PSH"},
            data : Seq(Nat)]

TypeOK ==
  /\ script \in Scripts
  /\ faults \in 0..MaxFaults
  /\ \A p \in Peer : \A i \in 1..Len(net[p]) : net[p][i] \in Segment
  /\ \A p \in Peer :
       LET c == tcb[p]
       IN /\ c.state \in {"CLOSED", "LISTEN", "SYN_SENT", "SYN_RECEIVED",
                          "ESTABLISHED", "CLOSING"}
          /\ {c.UNA, c.TRM, c.NXT, c.PSH, c.cwnd, c.LO, c.RCV, c.HI,
              c.advseq, c.tseq} \subseteq 0..SeqSpace-1
          /\ {c.rcvd, c.adv, c.sendq, c.got} \subseteq Seq(Nat)
          /\ ~c.more /\ c.frag = NoRST

Connected(c) == c.state \in {"ESTABLISHED", "CLOSING"}

(***************************************************************************)
(* The connection implements the two byte streams of ByteStream: whatever  *)
(* the network does to the segments and wherever the numbers wrap, a       *)
(* program reads exactly what the other wrote, in order, and sees the end  *)
(* of the stream only after all of it.                                     *)
(***************************************************************************)
Stream == INSTANCE ByteStream WITH
            Byte <- Nat,
            wrote <- [p \in Peer |-> [i \in 1..tcb[p].sent |-> i]],
            read <- [p \in Peer |-> tcb[p].got],
            ended <- [p \in Peer |-> tcb[p].ended],
            eof <- [p \in Peer |-> tcb[p].eof]

StreamSpec == Stream!Spec

\* An acknowledged byte is held by the other side or was read there: what
\* tcp_release_retrans() frees is never needed again.
NothingAckedLost ==
  \A p \in Peer :
    LET c == tcb[p]  q == tcb[Other(p)]
    IN Connected(c) /\ Connected(q) =>
         c.sent - Len(c.sendq) <= Len(q.got) + Len(q.rcvd)

\* tcp_check_conn() and the assertions the build compiles out: the counters
\* have their types and are in order, and the queues hold exactly what the
\* counters say.
CheckConn ==
  /\ TypeOK
  /\ \A p \in Peer :
       LET c == tcb[p]
       IN Connected(c) =>
            /\ LEmod4G(c.UNA, c.TRM) /\ LEmod4G(c.TRM, c.NXT)
            /\ LEmod4G(c.TRM, c.cwnd) \/ c.TRM = c.NXT
            /\ LEmod4G(c.RCV, c.HI)
            /\ DataSize(c) = Len(c.rcvd)
            /\ Diff(c.NXT, c.UNA) =
                 Len(c.sendq) + (IF c.finsent /\ c.UNA # c.NXT THEN 1 ELSE 0)

\* Unacknowledged data always has the timer running, whatever order the
\* timer, the acknowledgement and the next write come in: without it a lost
\* segment is never sent again.
TimerCovers ==
  \A p \in Peer :
    LET c == tcb[p]
    IN c.state \notin {"CLOSED", "LISTEN"} /\ c.UNA # c.NXT => c.timer

\* A shutdown answered with success means the other side has it all, the
\* end of the stream included.
ShutdownMeansReceived ==
  \A p \in Peer :
    LET c == tcb[p]  q == tcb[Other(p)]
    IN c.shut = "OK" /\ Connected(q) =>
         Len(q.got) + Len(q.rcvd) = c.sent /\ q.finrecv

\* The right edge of an offered window never moves back.
WindowNeverShrinks ==
  [][\A p \in Peer :
       Connected(tcb[p]) /\ Connected(tcb'[p]) =>
         LEmod4G(tcb[p].HI, tcb'[p].HI)]_vars

\* Every write, read, shutdown and connect a program posts is answered in
\* the end, although segments are lost, repeated and reordered, and the
\* timers and the window updates have to make up for it.
Answered ==
  <>[](\A p \in Peer : /\ ~tcb[p].writing /\ ~tcb[p].reading
                       /\ tcb[p].ioctl \notin {"SHUTDOWN", "CONN"})
=============================================================================
