--------------------------- MODULE TcpStreamProofs ---------------------------
(***************************************************************************)
(* Proofs about a connection of TcpConn: two blocks and the segments under *)
(* way between them.  What one side's counters say of the other side holds *)
(* of the blocks and of every segment, repeated and late ones included, in *)
(* every step of either side and of the network; from this follow the      *)
(* invariants of TcpConn, and that it implements the streams of ByteStream *)
(* and keeps their promise.                                                *)
(***************************************************************************)
EXTENDS TcpConnProofs

-----------------------------------------------------------------------------
(* What a program is told: the end of the stream it reads, and that its
   shutdown reached the other side. *)

\* A step of p's block c tells nothing that is not so, and ends no connection
\* without an error.
Tells(p, c, t, q) ==
  /\ t.eof \in BOOLEAN /\ Len(t.got) \in Nat /\ Len(c.got) <= Len(t.got)
  /\ c.ended => t.ended /\ t.sent = c.sent
  /\ c.eof => t.eof
  /\ t.eof => c.eof \/ (q.ended /\ q.sent <= Len(t.got))
  /\ t.shut = "OK" => c.shut = "OK" \/ (t.ended /\ Heard(p, q) >= t.sent + 2)
  /\ t.state = "CLOSED" => t.error # "OK"

LEMMA TellsTrans ==
  ASSUME NEW p, NEW c, NEW t, NEW u, NEW q, Len(c.got) \in Nat, q.sent \in Nat,
         Tells(p, c, t, q), Tells(p, t, u, q)
  PROVE  Tells(p, c, u, q)
<1>1. Len(c.got) <= Len(u.got)
  BY DEF Tells
<1>2. u.eof => c.eof \/ (q.ended /\ q.sent <= Len(u.got))
  BY DEF Tells
<1>3. u.shut = "OK" => c.shut = "OK" \/ (u.ended /\ Heard(p, q) >= u.sent + 2)
  <2>1. CASE t.shut = "OK"
    BY <2>1 DEF Tells
  <2>2. CASE t.shut # "OK"
    BY <2>2 DEF Tells
  <2> QED
    BY <2>1, <2>2
<1> QED
  BY <1>1, <1>2, <1>3 DEF Tells

\* A step that answers nothing.
Mute(c, t) == t.eof = c.eof /\ t.shut = c.shut

LEMMA KeepsMute ==
  ASSUME NEW c, NEW t, NEW S, Keeps(c, t, S), S \cap {"eof", "shut"} = {}
  PROVE  Mute(c, t)
<1>1. {"eof", "shut"} \subseteq Names \ S
  BY DEF Names
<1> QED
  BY <1>1 DEF Keeps, Mute

LEMMA MovesTells ==
  ASSUME NEW p \in Peer, NEW o \in Peer, NEW c, NEW t, NEW q, Moves(p, o, c, t, q),
         t.eof \in BOOLEAN, c.eof => t.eof,
         t.eof => c.eof \/ (q.ended /\ q.sent <= Len(t.got)),
         t.shut = "OK" => c.shut = "OK" \/ (t.ended /\ Heard(p, q) >= t.sent + 2)
  PROVE  Tells(p, c, t, q)
<1>1. Live(p, o, t, q) /\ Grows(o, c, t)
  BY DEF Moves
<1>2. Len(t.got) \in Nat
  BY <1>1, LiveTypes
<1>3. t.state # "CLOSED"
  BY <1>1 DEF Live, Connected
<1> QED
  BY <1>1, <1>2, <1>3 DEF Tells, Grows

LEMMA MuteMove ==
  ASSUME NEW p \in Peer, NEW o \in Peer, NEW c, NEW t, NEW q, Moves(p, o, c, t, q),
         c.eof \in BOOLEAN, Mute(c, t)
  PROVE  Tells(p, c, t, q)
<1>1. t.eof = c.eof /\ t.shut = c.shut
  BY DEF Mute
<1> QED
  BY <1>1, MovesTells

(* tcp_fd_write(): a shutdown is answered once its FIN is acknowledged. *)
LEMMA SentTo ==
  ASSUME NEW p \in Peer, NEW c, NEW q, Sends(p, c, q), Room(p, q)
  PROVE  /\ Pos(p, c.NXT) = 1 + c.sent + One(c.finsent) /\ c.sent \in Nat
         /\ Pos(p, c.UNA) <= Heard(p, q) /\ c.finsent = c.ended
<1> DEFINE u == Pos(p, c.UNA)
           m == Pos(p, c.TRM)
           n == Pos(p, c.NXT)
           w == Pos(p, c.cwnd)
<1>1. /\ u \in Int /\ m \in Int /\ n \in Int /\ w \in Int
      /\ n = 1 + c.sent + One(c.finsent) /\ u <= Heard(p, q) /\ c.sent \in Nat
  BY SendPlaces
<1> QED
  BY <1>1 DEF Sends, SendOrder

LEMMA FinHeard ==
  ASSUME NEW p \in Peer, NEW o \in Peer, NEW c, NEW q, Live(p, o, c, q), Room(p, q),
         c.finsent, c.UNA = c.NXT
  PROVE  c.ended /\ Heard(p, q) >= c.sent + 2
<1>1. /\ Pos(p, c.NXT) = 1 + c.sent + One(c.finsent) /\ c.sent \in Nat
      /\ Pos(p, c.UNA) <= Heard(p, q) /\ c.finsent = c.ended
  BY SentTo DEF Live
<1>2. Heard(p, q) \in Nat
  BY DEF Room
<1> QED
  BY <1>1, <1>2 DEF One

LEMMA WriteTells ==
  ASSUME NEW p \in Peer, NEW o \in Peer, NEW c, NEW q, Live(p, o, c, q), Room(p, q),
         c.writing \/ c.ioctl # "none", c.eof \in BOOLEAN, NEW t, t = tcp_fd_write(c)
  PROVE  Tells(p, c, t, q)
<1>1. Moves(p, o, c, t, q)
  BY LiveFdWrite
<1>2. Full(c) /\ c.state # "CLOSED"
  BY DEF Live, MiscOK, Connected
<1>3. CASE c.ioctl # "none" /\ ~c.writing
  <2>1. t = FdIoctl(c)
    BY <1>3 DEF tcp_fd_write
  <2>2. \/ t = c \/ t = SendFin(c)
        \/ t = ReplyIoctl(c, "OK") /\ c.finsent /\ c.UNA = c.NXT
    <3>1. CASE c.ioctl # "SHUTDOWN"
      BY <2>1, <3>1 DEF FdIoctl
    <3>2. CASE c.ioctl = "SHUTDOWN" /\ ~c.finsent
      BY <1>2, <2>1, <3>2 DEF FdIoctl
    <3>3. CASE c.ioctl = "SHUTDOWN" /\ c.finsent
      BY <1>2, <2>1, <3>3 DEF FdIoctl
    <3> QED
      BY <3>1, <3>2, <3>3
  <2>3. CASE t = c
    BY <1>1, <2>3, MuteMove DEF Mute
  <2>4. CASE t = SendFin(c)
    <3>1. Keeps(c, t, FinFields)
      BY <1>2, <2>4, FrameSendFin
    <3>2. Mute(c, t)
      BY <3>1, KeepsMute DEF FinFields
    <3> QED
      BY <1>1, <3>2, MuteMove
  <2>5. CASE t = ReplyIoctl(c, "OK") /\ c.finsent /\ c.UNA = c.NXT
    <3>1. Keeps(c, t, ReplyIoctlFields)
      BY <1>2, <2>5, FrameReplies
    <3>2. t.eof = c.eof /\ t.ended = c.ended /\ t.sent = c.sent /\ t.got = c.got
      BY <3>1 DEF Keeps, ReplyIoctlFields, Names
    <3>3. c.ended /\ Heard(p, q) >= c.sent + 2
      BY <2>5, FinHeard
    <3> QED
      BY <1>1, <3>2, <3>3, MovesTells
  <2> QED
    BY <2>2, <2>3, <2>4, <2>5
<1>4. CASE ~(c.ioctl # "none" /\ ~c.writing)
  <2>1. t = FdCopyIn(c)
    BY <1>2, <1>4 DEF tcp_fd_write
  <2>2. \A k : Keeps(c, CopyIn(c, k), CopyInFields)
    BY <1>2, FrameCopyIn
  <2>3. \A k : Keeps(c, ReplyWrite(CopyIn(c, k), "ok"), CopyInFields \cup ReplyWriteFields)
    <3> TAKE k
    <3> DEFINE d == CopyIn(c, k)
    <3>1. Keeps(c, d, CopyInFields) /\ Full(d)
      BY <2>2 DEF Keeps
    <3> HIDE DEF d
    <3>2. Keeps(d, ReplyWrite(d, "ok"), ReplyWriteFields)
      BY <3>1, FrameReplies
    <3>3. Keeps(c, ReplyWrite(d, "ok"), CopyInFields \cup ReplyWriteFields)
      BY <3>1, <3>2, KeepsTrans
    <3> QED
      BY <3>3 DEF d
  <2>4. Keeps(c, t, CopyInFields \cup ReplyWriteFields)
    BY <2>1, <2>2, <2>3 DEF FdCopyIn, Keeps
  <2>5. (CopyInFields \cup ReplyWriteFields) \cap {"eof", "shut"} = {}
    BY DEF CopyInFields, ReplyWriteFields
  <2>6. Mute(c, t)
    BY <2>4, <2>5, KeepsMute
  <2> QED
    BY <1>1, <2>6, MuteMove
<1> QED
  BY <1>3, <1>4

(* tcp_fd_read(): the end is told when everything has been handed over. *)
LEMMA EofRead ==
  ASSUME NEW p \in Peer, NEW o \in Peer, NEW c, NEW q, MiscOK(p, c), Takes(o, c, q),
         Room(p, q), c.state # "CLOSED", c.eof \in BOOLEAN, c.reading,
         NEW t, t = tcp_fd_read(c)
  PROVE  /\ t.eof \in BOOLEAN /\ (c.eof => t.eof) /\ t.shut = c.shut
         /\ t.eof => c.eof \/ (q.ended /\ q.sent = Len(c.got))
<1>1. Full(c) /\ c.rcount > 0 /\ c.rcount \in Nat
  BY DEF MiscOK
<1>2. t.shut = c.shut
  <2>1. Keeps(c, t, ReadFields)
    BY <1>1, FrameFdRead
  <2> QED
    BY <2>1 DEF Keeps, ReadFields, ReplyReadFields, Names
<1>3. CASE Defer(c)
  BY <1>2, <1>3 DEF tcp_fd_read
<1>4. CASE ~Defer(c)
  <2> DEFINE n == IF DataSize(c) >= c.rcount THEN c.rcount ELSE DataSize(c)
             d == Drain(SlideWindow(CopyOut(c, n)))
  <2>1. t = HandOver(c, n)
    BY <1>4 DEF tcp_fd_read
  <2>2. /\ Pos(o, c.LO) \in Int /\ Pos(o, c.RCV) \in Int /\ q.sent \in Nat
        /\ c.finrecv => q.ended /\ Pos(o, c.RCV) = q.sent + 2
        /\ Len(c.got) = Pos(o, c.LO) - 1
        /\ DataSize(c) = Pos(o, c.RCV) - One(c.finrecv) - Pos(o, c.LO)
        /\ Pos(o, c.LO) <= Pos(o, c.RCV) - One(c.finrecv)
    BY TakePlaces
  <2>3. DataSize(c) \in Nat
    BY <2>2 DEF One
  <2>4. n \in Nat /\ (n = 0 => DataSize(c) = 0)
    BY <1>1, <2>3
  <2>5. n = 0 /\ c.finrecv => q.ended /\ q.sent = Len(c.got)
    <3>1. SUFFICES ASSUME n = 0, c.finrecv PROVE q.ended /\ q.sent = Len(c.got)
      OBVIOUS
    <3>2. DataSize(c) = 0 /\ One(c.finrecv) = 1
      BY <2>4, <3>1 DEF One
    <3>3. q.ended /\ Pos(o, c.RCV) = q.sent + 2
      BY <2>2, <3>1
    <3> HIDE DEF n
    <3> QED
      BY <2>2, <3>2, <3>3
  <2>6. Full(d) /\ d.eof = c.eof
    <3> DEFINE x == CopyOut(c, n)
               y == SlideWindow(x)
    <3>1. Keeps(c, x, {"got", "rcvd", "LO", "rcount"})
      BY <1>1, FrameCopyOut
    <3> HIDE DEF x, n
    <3>2. Keeps(x, y, {"HI", "sendack", "more"})
      BY <3>1, FrameSlide DEF Keeps
    <3> HIDE DEF y
    <3>3. Keeps(y, Drain(y), {"push"})
      BY <3>2, FrameDrain DEF Keeps
    <3>4. Keeps(c, Drain(y), {"got", "rcvd", "LO", "rcount", "HI", "sendack", "more", "push"})
      BY <3>1, <3>2, <3>3 DEF Keeps
    <3>5. d = Drain(y)
      BY DEF x, y
    <3> QED
      BY <3>4, <3>5 DEF Keeps, Names
  <2>7. t = IF n > 0 THEN ReplyRead(d, "data") ELSE IF c.finrecv THEN ReplyRead(d, "eof") ELSE d
    BY <2>1 DEF HandOver
  <2> HIDE DEF n, d
  <2>8. /\ ReplyRead(d, "data").eof = (d.eof \/ FALSE)
        /\ ReplyRead(d, "eof").eof = (d.eof \/ TRUE)
    BY <2>6 DEF ReplyRead, Full, Names
  <2>9. CASE n > 0
    BY <1>2, <2>6, <2>7, <2>8, <2>9
  <2>10. CASE n = 0 /\ c.finrecv
    <3>1. t = ReplyRead(d, "eof")
      BY <2>7, <2>10
    <3> QED
      BY <1>2, <2>5, <2>6, <2>8, <2>10, <3>1
  <2>11. CASE n = 0 /\ ~c.finrecv
    <3>1. t = d
      BY <2>7, <2>11
    <3> QED
      BY <1>2, <2>6, <3>1
  <2> QED
    BY <2>4, <2>9, <2>10, <2>11
<1> QED
  BY <1>3, <1>4

LEMMA ReadTells ==
  ASSUME NEW p \in Peer, NEW o \in Peer, NEW c, NEW q, MiscOK(p, c), Takes(o, c, q),
         Parked(o, c, q), Room(p, q), c.state # "CLOSED", c.eof \in BOOLEAN,
         NEW t, t = c \/ (c.reading /\ t = tcp_fd_read(c))
  PROVE  Tells(p, c, t, q)
<1>1. Full(c)
  BY DEF MiscOK
<1>2. Read1(o, c, t) /\ Takes(o, t, q)
  BY <1>1, ReadDone
<1>3. t.ended = c.ended /\ t.sent = c.sent /\ t.state = c.state /\ t.shut = c.shut
  BY <1>2 DEF Read1, Keeps, ReadFields, ReplyReadFields, Names
<1>4. Len(c.got) <= Len(t.got) /\ Len(c.got) \in Nat /\ Len(t.got) \in Nat
  <2>1. c.got \in Seq(Nat) /\ t.got \in Seq(Nat)
    BY <1>2, TakePlaces
  <2> QED
    BY <1>2, <2>1 DEF Read1
<1>5. /\ t.eof \in BOOLEAN /\ (c.eof => t.eof)
      /\ t.eof => c.eof \/ (q.ended /\ q.sent = Len(c.got))
  <2>1. CASE t = c
    BY <2>1
  <2>2. CASE c.reading /\ t = tcp_fd_read(c)
    BY <2>2, EofRead
  <2> QED
    BY <2>1, <2>2
<1> QED
  BY <1>3, <1>4, <1>5 DEF Tells

(* tcp_close_connection(): what is posted is answered with the error. *)
LEMMA CloseTells ==
  ASSUME NEW p \in Peer, NEW o \in Peer, NEW c, NEW q, Live(p, o, c, q), Room(p, q),
         c.eof \in BOOLEAN, NEW err, err # "OK", NEW t, t = tcp_close_connection(c, err)
  PROVE  Tells(p, c, t, q)
<1>1. Full(c) /\ c.state # "CLOSED" /\ SendTypes(c) /\ RecvTypes(c)
  BY DEF Live, MiscOK, Connected, Sends, Recvs, Takes
<1>2. Ended(c, t, err) /\ Replied(c, t, err)
  BY <1>1, CloseEnds
<1>3. t.sent = c.sent /\ t.ended = c.ended /\ t.got = c.got
  BY <1>1, <1>2, EndedTypes
<1>4. t.eof = c.eof
  BY <1>2 DEF Replied
<1>5. t.shut = "OK" => c.shut = "OK"
  BY <1>2 DEF Replied
<1>6. Len(c.got) \in Nat
  BY LiveTypes
<1>7. t.error # "OK"
  BY <1>2 DEF Ended
<1> QED
  BY <1>3, <1>4, <1>5, <1>6, <1>7 DEF Tells

LEMMA RefillTells ==
  ASSUME NEW p \in Peer, NEW o \in Peer, NEW c, NEW q, Live(p, o, c, q), Room(p, q),
         c.eof \in BOOLEAN, NEW t, t = Refill(c)
  PROVE  Tells(p, c, t, q)
<1>1. t = c \/ ((c.writing \/ c.ioctl # "none") /\ t = tcp_fd_write(c))
  BY DEF Refill
<1>2. CASE t = c
  BY <1>2, MovesSelf, MuteMove DEF Mute
<1> QED
  BY <1>1, <1>2, WriteTells

LEMMA EndTells ==
  ASSUME NEW p \in Peer, NEW o \in Peer, NEW c, NEW q, Live(p, o, c, q), Room(p, q),
         c.eof \in BOOLEAN, NEW t, t = EndOrSend(c)
  PROVE  Tells(p, c, t, q)
<1>1. CASE ~c.fd /\ c.UNA = c.NXT
  <2>1. t = tcp_close_connection(c, "ENOTCONN")
    BY <1>1 DEF EndOrSend
  <2> QED
    BY <2>1, CloseTells
<1>2. CASE ~(~c.fd /\ c.UNA = c.NXT)
  <2>1. t = c \/ t = tcp_conn_write(c)
    <3>1. CASE c.cwnd # c.TRM /\ c.NXT # c.TRM
      BY <1>2, <3>1 DEF EndOrSend
    <3>2. CASE ~(c.cwnd # c.TRM /\ c.NXT # c.TRM)
      BY <1>2, <3>2 DEF EndOrSend
    <3> QED
      BY <3>1, <3>2
  <2>2. Keeps(c, t, {"more"})
    BY <2>1, FrameWrite, KeepsSelf DEF Live, MiscOK
  <2>3. Moves(p, o, c, t, q)
    BY <2>2, LiveFrame DEF LiveFields, MiscFields, SendFields, RecvFields, TakeFields
  <2>4. Mute(c, t)
    BY <2>2, KeepsMute
  <2> QED
    BY <2>3, <2>4, MuteMove
<1> QED
  BY <1>1, <1>2

LEMMA ReleaseTells ==
  ASSUME NEW p \in Peer, NEW o \in Peer, NEW c, NEW q, Live(p, o, c, q), Room(p, q),
         c.eof \in BOOLEAN,
         NEW ack \in Num, Lmod4G(c.UNA, ack), LEmod4G(ack, c.NXT), Pos(p, ack) <= Heard(p, q),
         NEW wnd \in 0 .. RCV_WND, NEW t, t = tcp_release_retrans(c, ack, wnd)
  PROVE  Tells(p, c, t, q)
<1> DEFINE b == BackInWindow(Released(c, ack, wnd))
           r == Refill(b)
<1>1. Moves(p, o, c, b, q)
  BY LiveReleased
<1>2. Mute(c, b)
  <2>1. Keeps(c, b, RelFields)
    BY FrameReleased DEF Live, MiscOK
  <2> QED
    BY <2>1, KeepsMute DEF RelFields
<1>3. t = EndOrSend(r)
  BY DEF tcp_release_retrans
<1> HIDE DEF b
<1>4. Tells(p, c, b, q) /\ b.eof \in BOOLEAN
  BY <1>1, <1>2, MuteMove DEF Mute
<1>5. Live(p, o, b, q)
  BY <1>1 DEF Moves
<1>6. Tells(p, b, r, q) /\ r.eof \in BOOLEAN
  BY <1>4, <1>5, RefillTells DEF Tells
<1>7. Live(p, o, r, q)
  BY <1>5, LiveRefill DEF Moves
<1> HIDE DEF r
<1>8. Tells(p, r, t, q)
  BY <1>3, <1>6, <1>7, EndTells
<1>9. Len(c.got) \in Nat /\ q.sent \in Nat /\ Len(b.got) \in Nat
  BY <1>5, LiveTypes DEF Room
<1>10. Tells(p, b, t, q)
  BY <1>6, <1>8, <1>9, TellsTrans
<1> QED
  BY <1>4, <1>9, <1>10, TellsTrans

LEMMA AckTells ==
  ASSUME NEW p \in Peer, NEW o \in Peer, NEW c, NEW q, Live(p, o, c, q), Room(p, q),
         c.eof \in BOOLEAN,
         NEW s, s.ack \in Num, s.wnd \in 0 .. RCV_WND, Pos(p, s.ack) <= Heard(p, q),
         NEW t, t = ProcessAck(c, s)
  PROVE  Tells(p, c, t, q)
<1> DEFINE alive == IF c.state = "CLOSING" THEN c ELSE [c EXCEPT !.stt = FALSE]
           wnd == IF s.wnd > 2 * MSS THEN 2 * MSS ELSE s.wnd
           d == [alive EXCEPT !.cwnd = Add(c.UNA, wnd)]
           shut == [alive EXCEPT !.cwnd = c.UNA, !.TRM = c.UNA]
           F == {"stt", "cwnd", "TRM", "more"}
<1>1. \/ t = alive \/ t = shut \/ t = tcp_conn_write(d)
      \/ /\ Lmod4G(c.UNA, s.ack) /\ LEmod4G(s.ack, c.NXT)
         /\ t = tcp_release_retrans(alive, s.ack, s.wnd)
  BY DEF ProcessAck
<1>2. Keeps(c, alive, {"stt"}) /\ c.state # "CLOSED"
  BY DEF Live, MiscOK, Full, Keeps, Connected
<1>3. Settles(p, o, c, t, q)
  BY LiveProcessAck
<1> HIDE DEF alive, wnd
<1>4. CASE t = alive \/ t = shut \/ t = tcp_conn_write(d)
  <2>1. Keeps(c, shut, F) /\ Keeps(c, d, F)
    BY <1>2 DEF Full, Keeps
  <2> HIDE DEF shut, d
  <2>2. Keeps(d, tcp_conn_write(d), {"more"})
    BY <2>1, FrameWrite DEF Keeps
  <2>3. Keeps(c, t, F)
    BY <1>2, <1>4, <2>1, <2>2 DEF Keeps
  <2>4. t.state = c.state
    BY <2>3 DEF Keeps, Names
  <2>5. Moves(p, o, c, t, q)
    BY <1>2, <1>3, <2>4, SettledIs
  <2>6. Mute(c, t)
    BY <2>3, KeepsMute
  <2> QED
    BY <2>5, <2>6, MuteMove
<1>5. CASE /\ Lmod4G(c.UNA, s.ack) /\ LEmod4G(s.ack, c.NXT)
           /\ t = tcp_release_retrans(alive, s.ack, s.wnd)
  <2>1. Moves(p, o, c, alive, q)
    BY <1>2, LiveFrame DEF LiveFields, MiscFields, SendFields, RecvFields, TakeFields
  <2>2. Mute(c, alive)
    BY <1>2, KeepsMute
  <2>3. Tells(p, c, alive, q)
    BY <2>1, <2>2, MuteMove
  <2>4. alive.UNA = c.UNA /\ alive.NXT = c.NXT /\ alive.eof \in BOOLEAN /\ Live(p, o, alive, q)
    BY <1>2, <2>1, <2>2 DEF Keeps, Names, Moves, Mute
  <2>5. Tells(p, alive, t, q)
    BY <1>5, <2>4, ReleaseTells
  <2>6. Len(c.got) \in Nat /\ q.sent \in Nat
    BY LiveTypes DEF Room
  <2> QED
    BY <2>3, <2>5, <2>6, TellsTrans
<1> QED
  BY <1>1, <1>4, <1>5

(* The text of a segment. *)
LEMMA KeepsTells ==
  ASSUME NEW p, NEW c, NEW t, NEW q, NEW S, Keeps(c, t, S),
         S \cap {"eof", "shut", "got", "ended", "sent", "state"} = {},
         c.eof \in BOOLEAN, Len(c.got) \in Nat, c.state # "CLOSED"
  PROVE  Tells(p, c, t, q)
<1>1. {"eof", "shut", "got", "ended", "sent", "state"} \subseteq Names \ S
  BY DEF Names
<1>2. /\ t.eof = c.eof /\ t.shut = c.shut /\ t.got = c.got /\ t.ended = c.ended
      /\ t.sent = c.sent /\ t.state = c.state
  BY <1>1 DEF Keeps
<1> QED
  BY <1>2 DEF Tells

LEMMA UseTells ==
  ASSUME NEW p \in Peer, NEW o \in Peer, NEW c, NEW q, MiscOK(p, c), Takes(o, c, q),
         Parked(o, c, q), Room(p, q), c.state # "CLOSED", c.eof \in BOOLEAN,
         NEW fin, NEW t, t = UseAdvanced(c, fin)
  PROVE  Tells(p, c, t, q)
<1> DEFINE u == Joined(c)
           taken == [c EXCEPT !.adv = <<>>]
           skip == Diff(c.RCV, c.advseq)
<1>1. Full(c) /\ RecvTypes(c)
  BY DEF MiscOK, Takes
<1>2. c.got \in Seq(Nat)
  BY TakePlaces
<1>3. Len(c.got) \in Nat
  BY <1>2
<1>4. \/ t = c \/ t = taken
      \/ /\ t = ReadIfPosted(u) /\ c.adv # <<>> /\ ~Gmod4G(c.advseq, c.RCV) /\ skip < Len(c.adv)
  <2>1. c.adv # <<>> => Len(c.adv) \in Nat
    BY DEF Parked
  <2>2. skip \in Num /\ skip \in Int
    <3>1. c.RCV \in Num /\ c.advseq \in Num
      BY <1>1 DEF RecvTypes
    <3>2. skip \in Num
      BY <3>1, DiffIs
    <3> QED
      BY <3>2, Space DEF Num
  <2>3. t = IF c.adv = <<>> THEN c ELSE IF fin THEN taken
            ELSE IF Gmod4G(c.advseq, c.RCV) THEN c
            ELSE IF skip >= Len(c.adv) THEN taken ELSE ReadIfPosted(u)
    BY DEF UseAdvanced, Joined
  <2> HIDE DEF skip, taken, u
  <2>4. skip >= Len(c.adv) \/ skip < Len(c.adv) \/ c.adv = <<>>
    BY <2>1, <2>2
  <2> QED
    BY <2>3, <2>4
<1>5. CASE t = c
  <2>1. Keeps(c, t, {})
    BY <1>1, <1>5, KeepsSelf
  <2> QED
    BY <1>3, <2>1, KeepsTells
<1>6. CASE t = taken
  <2>1. Keeps(c, t, {"adv"})
    BY <1>1, <1>6 DEF Full, Keeps
  <2> QED
    BY <1>3, <2>1, KeepsTells
<1>7. CASE t = ReadIfPosted(u) /\ c.adv # <<>> /\ ~Gmod4G(c.advseq, c.RCV) /\ skip < Len(c.adv)
  <2>1. /\ Takes(o, u, q) /\ Parked(o, u, q) /\ MiscOK(p, u)
        /\ Keeps(c, u, {"adv", "rcvd", "RCV"})
    BY <1>7, AdvancedJoins
  <2> HIDE DEF u
  <2>2. u.state = c.state /\ u.eof = c.eof
    BY <2>1 DEF Keeps, Names
  <2>3. Tells(p, c, u, q)
    BY <1>3, <2>1, KeepsTells
  <2>4. t = u \/ (u.reading /\ t = tcp_fd_read(u))
    BY <1>7 DEF ReadIfPosted
  <2>5. Tells(p, u, t, q)
    BY <2>1, <2>2, <2>4, ReadTells
  <2>6. q.sent \in Nat
    BY DEF Room
  <2> QED
    BY <1>3, <2>3, <2>5, <2>6, TellsTrans
<1> QED
  BY <1>4, <1>5, <1>6, <1>7

LEMMA DataTells ==
  ASSUME NEW p \in Peer, NEW o \in Peer, NEW c, NEW q, Live(p, o, c, q), Room(p, q),
         NEW s \in Segment, Spoken(o, s, q), s.data # <<>>, LEmod4G(s.seq, c.RCV),
         Pos(o, s.seq) + Len(s.data) > Pos(o, c.RCV), Pos(o, c.RCV) < Pos(o, c.HI),
         c.eof \in BOOLEAN, NEW u, u = process_data(c, s)
  PROVE  Tells(p, c, u, q)
<1> DEFINE t == Append_data(c, s)
           r == ReadIfPosted(t)
           fin == Has(s, "FIN") /\ LEmod4G(Add(s.seq, Len(s.data)), c.HI)
           S == {"rcvd", "push", "RCV", "finrecv"}
<1>1. Takes(o, t, q) /\ Parked(o, t, q) /\ MiscOK(p, t) /\ Keeps(c, t, S)
  BY AppendTakes
<1> HIDE DEF t
<1>2. t.state = c.state /\ t.got = c.got /\ t.eof = c.eof /\ Full(t)
  BY <1>1 DEF Keeps, Names
<1>3. c.state # "CLOSED" /\ Len(c.got) \in Nat /\ q.sent \in Nat
  BY LiveTypes DEF Live, Connected, Room
<1>4. Tells(p, c, t, q)
  BY <1>1, <1>3, KeepsTells
<1>5. Read1(o, t, r) /\ MiscOK(p, r) /\ Takes(o, r, q) /\ Parked(o, r, q)
  BY <1>1, <1>2, <1>3, ReadHere
<1>6. r = t \/ (t.reading /\ r = tcp_fd_read(t))
  BY DEF ReadIfPosted
<1>7. u = UseAdvanced(r, fin)
  BY DEF process_data, t
<1> HIDE DEF r, fin
<1>8. Tells(p, t, r, q)
  BY <1>1, <1>2, <1>3, <1>6, ReadTells
<1>9. r.state = t.state
  BY <1>5 DEF Read1, Keeps, ReadFields, ReplyReadFields, Names
<1>10. Tells(p, r, u, q)
  <2>1. r.eof \in BOOLEAN /\ r.state # "CLOSED"
    BY <1>2, <1>3, <1>8, <1>9 DEF Tells
  <2> QED
    BY <1>5, <1>7, <2>1, UseTells
<1>11. Tells(p, t, u, q)
  BY <1>2, <1>3, <1>8, <1>10, TellsTrans
<1> QED
  BY <1>3, <1>4, <1>11, TellsTrans

LEMMA AheadTells ==
  ASSUME NEW p \in Peer, NEW o \in Peer, NEW c, NEW q, Live(p, o, c, q), c.eof \in BOOLEAN,
         NEW s, NEW t, t = process_advanced_data(c, s)
  PROVE  Tells(p, c, t, q)
<1> DEFINE ack == AckBack(c)
           pushed == [ack EXCEPT !.push = @ \/ Has(s, "PSH")]
           t1 == [pushed EXCEPT !.adv = s.data, !.advseq = s.seq]
           t2 == [pushed EXCEPT !.adv = s.data \o @, !.advseq = s.seq]
           t3 == [pushed EXCEPT !.adv = @ \o s.data]
           F == {"more", "sendack", "push", "adv", "advseq"}
<1>1. Full(c) /\ c.state # "CLOSED" /\ Len(c.got) \in Nat
  BY LiveTypes DEF Live, Connected
<1>2. t = pushed \/ t = t1 \/ t = t2 \/ t = t3
  BY DEF process_advanced_data
<1>3. Keeps(c, ack, {"more", "sendack"})
  BY <1>1, FrameAckBack
<1> HIDE DEF ack
<1>4. Keeps(c, pushed, {"more", "sendack", "push"})
  BY <1>3 DEF Full, Keeps
<1> HIDE DEF pushed
<1>5. Keeps(c, t1, F) /\ Keeps(c, t2, F) /\ Keeps(c, t3, F) /\ Keeps(c, pushed, F)
  BY <1>4 DEF Full, Keeps
<1>6. Keeps(c, t, F)
  BY <1>2, <1>5
<1> QED
  BY <1>1, <1>6, KeepsTells

LEMMA AckBackTells ==
  ASSUME NEW p \in Peer, NEW o \in Peer, NEW c, NEW q, Live(p, o, c, q), c.eof \in BOOLEAN
  PROVE  Tells(p, c, AckBack(c), q)
<1>1. Keeps(c, AckBack(c), {"more", "sendack"})
  BY FrameAckBack DEF Live, MiscOK
<1>2. c.state # "CLOSED" /\ Len(c.got) \in Nat
  BY LiveTypes DEF Live, Connected
<1> QED
  BY <1>1, <1>2, KeepsTells

LEMMA PostedTells ==
  ASSUME NEW p \in Peer, NEW o \in Peer, NEW c, NEW q, Live(p, o, c, q), Room(p, q),
         c.eof \in BOOLEAN
  PROVE  Tells(p, c, ReadIfPosted(c), q)
<1>1. Parked(o, c, q) /\ Takes(o, c, q) /\ MiscOK(p, c) /\ c.state # "CLOSED"
  BY ParkedIs
<1>2. ReadIfPosted(c) = c \/ (c.reading /\ ReadIfPosted(c) = tcp_fd_read(c))
  BY DEF ReadIfPosted
<1> QED
  BY <1>1, <1>2, ReadTells

\* A step of a live connection that tells what is so.
Says(p, o, c, t, q) == Moves(p, o, c, t, q) /\ Tells(p, c, t, q)

LEMMA SaysTrans ==
  ASSUME NEW p \in Peer, NEW o \in Peer, NEW c, NEW t, NEW u, NEW q, Live(p, o, c, q),
         Room(p, q), Says(p, o, c, t, q), Says(p, o, t, u, q)
  PROVE  Says(p, o, c, u, q)
<1>1. Moves(p, o, c, u, q)
  BY MovesTrans DEF Says
<1>2. Len(c.got) \in Nat /\ q.sent \in Nat
  BY LiveTypes DEF Room
<1> QED
  BY <1>1, <1>2, TellsTrans DEF Says

LEMMA SaysSelf ==
  ASSUME NEW p \in Peer, NEW o \in Peer, NEW c, NEW q, Live(p, o, c, q), c.eof \in BOOLEAN
  PROVE  Says(p, o, c, c, q)
BY MovesSelf, MuteMove DEF Mute, Says

LEMMA SaysBack ==
  ASSUME NEW p \in Peer, NEW o \in Peer, NEW c, NEW q, Live(p, o, c, q), Room(p, q),
         c.eof \in BOOLEAN
  PROVE  Says(p, o, c, AckBack(c), q) /\ Says(p, o, c, ReadIfPosted(c), q)
BY LiveAckBack, AckBackTells, LiveReadIfPosted, PostedTells DEF Says

LEMMA TextSays ==
  ASSUME NEW p \in Peer, NEW o \in Peer, NEW c, NEW q, Live(p, o, c, q), Room(p, q),
         NEW s \in Segment, Spoken(o, s, q), Acceptable(c, s), c.eof \in BOOLEAN
  PROVE  Says(p, o, c, ProcessText(c, s), q)
<1> DEFINE new == ~c.finrecv /\ Lmod4G(c.RCV, c.HI)
           d == [c EXCEPT !.RCV = IF new THEN Add(@, 1) ELSE @, !.finrecv = @ \/ new]
           b == AckBack(d)
           x == process_data(c, s)
           y == process_advanced_data(c, s)
<1>1. Takes(o, c, q) /\ Full(c) /\ c.state # "CLOSED" /\ Len(c.got) \in Nat
  BY ParkedIs, LiveTypes
<1>2. CASE s.data # <<>> /\ LEmod4G(s.seq, c.RCV)
  <2>1. ProcessText(c, s) = AckBack(x)
    BY <1>2 DEF ProcessText
  <2>2. /\ Pos(o, s.seq) + Len(s.data) > Pos(o, c.RCV) /\ Pos(o, c.RCV) < Pos(o, c.HI)
    BY <1>1, <1>2, AcceptedData
  <2>3. Says(p, o, c, x, q)
    BY <1>2, <2>2, LiveData, DataTells DEF Says
  <2> HIDE DEF x
  <2>4. Says(p, o, x, AckBack(x), q)
    BY <2>3, SaysBack DEF Says, Moves, Tells
  <2> QED
    BY <2>1, <2>3, <2>4, SaysTrans
<1>3. CASE s.data # <<>> /\ ~LEmod4G(s.seq, c.RCV)
  <2>1. ProcessText(c, s) = AckBack(y)
    BY <1>3 DEF ProcessText
  <2>2. Gmod4G(s.seq, c.RCV)
    BY <1>3 DEF LEmod4G, Gmod4G
  <2>3. Says(p, o, c, y, q)
    BY <1>3, <2>2, LiveAdvanced, AheadTells DEF Says
  <2> HIDE DEF y
  <2>4. Says(p, o, y, AckBack(y), q)
    BY <2>3, SaysBack DEF Says, Moves, Tells
  <2> QED
    BY <2>1, <2>3, <2>4, SaysTrans
<1>4. CASE s.data = <<>> /\ Has(s, "FIN") /\ LEmod4G(s.seq, c.RCV)
  <2>1. ProcessText(c, s) = ReadIfPosted(b)
    BY <1>4 DEF ProcessText
  <2>2. Moves(p, o, c, d, q)
    BY <1>4, LiveFin
  <2>3. Keeps(c, d, {"RCV", "finrecv"})
    BY <1>1 DEF Full, Keeps
  <2> HIDE DEF d
  <2>4. Says(p, o, c, d, q)
    BY <1>1, <2>2, <2>3, KeepsTells DEF Says
  <2>5. Says(p, o, d, b, q)
    BY <2>4, SaysBack DEF Says, Moves, Tells
  <2> HIDE DEF b
  <2>6. Says(p, o, b, ReadIfPosted(b), q)
    BY <2>5, SaysBack DEF Says, Moves, Tells
  <2>7. Says(p, o, c, b, q)
    BY <2>4, <2>5, SaysTrans
  <2> QED
    BY <2>1, <2>6, <2>7, SaysTrans
<1>5. CASE s.data = <<>> /\ ~(Has(s, "FIN") /\ LEmod4G(s.seq, c.RCV))
  BY <1>5, SaysSelf DEF ProcessText
<1> QED
  BY <1>2, <1>3, <1>4, <1>5

LEMMA RestSays ==
  ASSUME NEW p \in Peer, NEW o \in Peer, NEW c, NEW q, Live(p, o, c, q), Room(p, q),
         NEW s \in Segment, Spoken(o, s, q), Acceptable(c, s), c.eof \in BOOLEAN
  PROVE  Says(p, o, c, ProcessRest(c, s), q)
<1>1. c.state # "CLOSED"
  BY DEF Live, Connected
<1>2. CASE Gmod4G(s.ack, c.NXT)
  <2>1. ProcessRest(c, s) = AckBack(c)
    BY <1>1, <1>2 DEF ProcessRest, LEmod4G, Gmod4G
  <2> QED
    BY <2>1, SaysBack
<1>3. CASE ~Gmod4G(s.ack, c.NXT)
  <2>1. ProcessRest(c, s) = ProcessText(c, s)
    BY <1>1, <1>3 DEF ProcessRest, LEmod4G, Gmod4G
  <2> QED
    BY <2>1, TextSays
<1> QED
  BY <1>2, <1>3

(* A reset that finds both streams at their ends closes the connection without
   an error. *)
Clean(c, s) == Acceptable(c, s) /\ Has(s, "RST") /\ c.finsent /\ c.finrecv /\ c.sendq = <<>>

LEMMA SegmentTells ==
  ASSUME NEW p \in Peer, NEW o \in Peer, NEW c, NEW q, Live(p, o, c, q), Room(p, q),
         NEW s \in Segment, Truth(o, p, s, q), ~Clean(c, s), c.eof \in BOOLEAN
  PROVE  Tells(p, c, InEstablished(c, s), q)
<1> DEFINE a == ProcessAck(c, s)
<1>1. Full(c) /\ c.state # "CLOSED" /\ Len(c.got) \in Nat /\ q.sent \in Nat
  BY LiveTypes DEF Live, Connected, Room
<1>2. CASE ~Acceptable(c, s)
  <2> DEFINE b == AckBack(c)
             d == [b EXCEPT !.push = TRUE]
  <2>1. InEstablished(c, s) = Unacceptable(c, s)
    BY <1>2 DEF InEstablished
  <2>2. Unacceptable(c, s) \in {c, b, ReadIfPosted(d)}
    BY DEF Unacceptable
  <2>3. Says(p, o, c, b, q)
    BY SaysBack
  <2>4. Keeps(c, d, {"more", "sendack", "push"})
    <3>1. Keeps(c, b, {"more", "sendack"})
      BY <1>1, FrameAckBack
    <3> HIDE DEF b
    <3> QED
      BY <3>1 DEF Full, Keeps
  <2> HIDE DEF b, d
  <2>5. Says(p, o, c, d, q)
    <3>1. Moves(p, o, c, d, q)
      BY <2>4, LiveFrame DEF LiveFields, MiscFields, SendFields, RecvFields, TakeFields
    <3> QED
      BY <1>1, <2>4, <3>1, KeepsTells DEF Says
  <2>6. Says(p, o, d, ReadIfPosted(d), q)
    BY <2>5, SaysBack DEF Says, Moves, Tells
  <2>7. Says(p, o, c, ReadIfPosted(d), q)
    BY <2>5, <2>6, SaysTrans
  <2>8. Says(p, o, c, c, q)
    BY SaysSelf
  <2> QED
    BY <2>1, <2>2, <2>3, <2>7, <2>8 DEF Says
<1>3. CASE Acceptable(c, s) /\ (Has(s, "RST") \/ (Has(s, "SYN") /\ GEmod4G(s.seq, c.RCV)))
  <2>1. InEstablished(c, s) = tcp_close_connection(c, "ECONNRESET")
    BY <1>3 DEF InEstablished, Clean
  <2> QED
    BY <2>1, CloseTells
<1>4. CASE Acceptable(c, s) /\ ~Has(s, "RST") /\ ~(Has(s, "SYN") /\ GEmod4G(s.seq, c.RCV)) /\ ~Has(s, "ACK")
  <2>1. InEstablished(c, s) = c
    BY <1>4 DEF InEstablished
  <2> QED
    BY <2>1, SaysSelf DEF Says
<1>5. CASE Acceptable(c, s) /\ ~Has(s, "RST") /\ ~(Has(s, "SYN") /\ GEmod4G(s.seq, c.RCV)) /\ Has(s, "ACK")
  <2>1. InEstablished(c, s) = ProcessRest(a, s)
    BY <1>5 DEF InEstablished
  <2>2. s.ack \in Num /\ s.wnd \in 0 .. RCV_WND
    BY DEF Segment, Num
  <2>3. Pos(p, s.ack) <= Heard(p, q) /\ Spoken(o, s, q)
    BY <1>5 DEF Truth
  <2>4. Settles(p, o, c, a, q) /\ Tells(p, c, a, q)
    BY <2>2, <2>3, LiveProcessAck, AckTells
  <2>5. Keeps(c, a, AckFields) \/ a.state = "CLOSED"
    BY <1>1, FrameProcessAck
  <2> HIDE DEF a
  <2>6. CASE a.state = "CLOSED"
    <3>1. ProcessRest(a, s) = a
      BY <2>6 DEF ProcessRest
    <3> QED
      BY <2>1, <2>4, <3>1
  <2>7. CASE a.state # "CLOSED"
    <3>1. Moves(p, o, c, a, q) /\ Live(p, o, a, q)
      BY <2>4, <2>7, SettledIs DEF Moves
    <3>2. a.RCV = c.RCV /\ a.HI = c.HI
      BY <2>5, <2>7 DEF Keeps, AckFields, RelFields, WriteFields, FinFields, ReplyWriteFields,
             ReplyIoctlFields, CopyInFields, Names
    <3>3. Acceptable(a, s)
      BY <1>5, <3>2 DEF Acceptable
    <3>4. a.eof \in BOOLEAN
      BY <2>4 DEF Tells
    <3>5. Tells(p, a, ProcessRest(a, s), q)
      BY <2>3, <3>1, <3>3, <3>4, RestSays DEF Says
    <3> QED
      BY <1>1, <2>1, <2>4, <3>5, TellsTrans
  <2> QED
    BY <2>6, <2>7
<1> QED
  BY <1>2, <1>3, <1>4, <1>5

-----------------------------------------------------------------------------
(* What a program has been told is so, whatever the answer: end of file means
   that everything was read, a shutdown answered with success that the other
   side has it all.  A connection that closed without an error gives both
   answers to whoever asks later (tcp_fd_read(), tcp_fd_write()), so both must
   be true of it.  A side whose own connection is over may have been told the
   end by a reset instead of by the FIN. *)

\* A connection was made, and is over.
Gone(c) == c.connected /\ c.state = "CLOSED"

\* The program behind c has read the stream of q to its end.
AllRead(c, q) == q.ended /\ q.sent <= Len(c.got)

\* The end of p's stream reached the other side, or that side is over.
Heeded(p, c, q) == c.ended /\ (Heard(p, q) >= c.sent + 2 \/ Gone(q))

\* What p's program was told, and will be told, is so.
Told(p, c, q) ==
  /\ c.eof \in BOOLEAN
  /\ c.eof => AllRead(c, q)
  /\ c.shut = "OK" => Heeded(p, c, q)
  /\ Gone(c) /\ c.error = "OK" /\ c.open => AllRead(c, q) /\ Heeded(p, c, q)

\* A step of p that keeps it so.
Sure(p, c, t, q) ==
  Told(p, c, q) => Told(p, t, q) /\ (c.eof => t.eof) /\ (Gone(c) => Gone(t))

LEMMA SureTrans ==
  ASSUME NEW p, NEW c, NEW t, NEW u, NEW q, Sure(p, c, t, q), Sure(p, t, u, q)
  PROVE  Sure(p, c, u, q)
BY DEF Sure

(* A step that answers nothing, and leaves the error of a closed connection
   and its descriptor as they are or forgets them. *)
LEMMA MuteSure ==
  ASSUME NEW p, NEW c, NEW t, NEW q, NEW S, Keeps(c, t, S),
         S \cap {"eof", "shut", "got", "ended", "sent", "state", "connected"} = {},
         t.open /\ t.error = "OK" => c.open /\ c.error = "OK"
  PROVE  Sure(p, c, t, q)
<1>1. {"eof", "shut", "got", "ended", "sent", "state", "connected"} \subseteq Names \ S
  BY DEF Names
<1>2. /\ t.eof = c.eof /\ t.shut = c.shut /\ t.got = c.got /\ t.ended = c.ended
      /\ t.sent = c.sent /\ t.state = c.state /\ t.connected = c.connected
  BY <1>1 DEF Keeps
<1> QED
  BY <1>2 DEF Sure, Told, AllRead, Heeded, Gone

LEMMA StillSure ==
  ASSUME NEW p, NEW c, NEW t, NEW q, NEW S, Keeps(c, t, S),
         S \cap {"eof", "shut", "got", "ended", "sent", "state", "connected",
                 "error", "open"} = {}
  PROVE  Sure(p, c, t, q)
<1>1. {"error", "open"} \subseteq Names \ S
  BY DEF Names
<1>2. t.error = c.error /\ t.open = c.open
  BY <1>1 DEF Keeps
<1> QED
  BY <1>2, MuteSure

(* What a live connection tells. *)
LEMMA TellsSure ==
  ASSUME NEW p \in Peer, NEW o \in Peer, NEW c, NEW q, Live(p, o, c, q), Room(p, q), NEW t,
         c.eof \in BOOLEAN => Tells(p, c, t, q)
  PROVE  Sure(p, c, t, q)
<1> SUFFICES ASSUME Told(p, c, q)
             PROVE  Told(p, t, q) /\ (c.eof => t.eof) /\ (Gone(c) => Gone(t))
  BY DEF Sure
<1>1. Tells(p, c, t, q)
  BY DEF Told
<1>2. ~Gone(c)
  BY DEF Live, Connected, Gone
<1>3. Len(c.got) \in Nat /\ Len(t.got) \in Nat /\ q.sent \in Nat /\ Len(c.got) <= Len(t.got)
  BY <1>1, LiveTypes DEF Room, Tells
<1>4. t.eof => AllRead(t, q)
  <2>1. AllRead(c, q) => AllRead(t, q)
    BY <1>3 DEF AllRead
  <2> QED
    BY <1>1, <2>1 DEF Tells, Told, AllRead
<1>5. t.shut = "OK" => Heeded(p, t, q)
  <2>1. Heeded(p, c, q) => Heeded(p, t, q)
    BY <1>1 DEF Heeded, Tells
  <2> QED
    BY <1>1, <2>1 DEF Tells, Told, Heeded
<1>6. Gone(t) => t.error # "OK"
  BY <1>1 DEF Gone, Tells
<1> QED
  BY <1>1, <1>2, <1>4, <1>5, <1>6 DEF Told, Tells

(* A block without a connection was told nothing. *)
LEMMA FreshTold ==
  ASSUME NEW p, NEW c, NEW q, Fresh(c), ~c.connected
  PROVE  Told(p, c, q)
BY DEF Fresh, Told, Gone

(***************************************************************************)
(* The clean reset.  A reset that finds both streams at their ends closes  *)
(* the connection without an error (tcp_recv.c:530-538), although bytes    *)
(* may still wait to be read, and its own FIN may not have arrived at a    *)
(* side that is still there.                                               *)
(***************************************************************************)
CutOff(c, t, q) ==
  /\ c.state # "CLOSED" /\ t.state = "CLOSED" /\ t.error = "OK" /\ c.open
  /\ c.rcvd # <<>> \/ (c.UNA # c.NXT /\ Connected(q))

LEMMA SpaceBig == SeqSpace > 4 * (SND_WND + RCV_WND + MSS)
BY NetAssumption

LEMMA AddNum ==
  ASSUME NEW a \in Int, NEW k \in Int
  PROVE  Add(a, k) \in Num
<1> DEFINE z == a + k
<1>1. SeqSpace \in Nat \ {0} /\ z \in Int
  BY Space
<1> HIDE DEF z
<1>2. z % SeqSpace \in 0 .. SeqSpace - 1
  BY <1>1
<1> QED
  BY <1>2 DEF Add, Num, z

\* A connection that is being made: nothing but the SYN is under way.
Opening(p, o, c) ==
  /\ MiscOK(p, c) /\ SendTypes(c) /\ RecvTypes(c) /\ Fresh(c)
  /\ c.state \in Handshake /\ ~c.connected /\ c.fd
  /\ c.UNA = ISS[p] /\ Pos(p, c.NXT) = 1 /\ Pos(p, c.TRM) <= 1
  /\ 1 <= Pos(p, c.cwnd) /\ Pos(p, c.cwnd) <= 2 * MSS + RCV_WND
  /\ c.state = "SYN_RECEIVED" =>
       c.LO = c.RCV /\ Pos(o, c.RCV) = 1 /\ Pos(o, c.HI) = 1 + RCV_WND

\* The SYN of a connect is sent by the step that asks for it.
Hand(p, o, c) == Opening(p, o, c) /\ (c.state = "SYN_SENT" => c.TRM = c.NXT \/ c.more)

\* What holds of a block, and of a step of its handler.
Good(p, o, c, q) == Live(p, o, c, q) \/ Over(p, o, c, q) \/ Hand(p, o, c)
Goes(p, o, c, t, q) == Good(p, o, t, q) /\ Grows(o, c, t)

LEMMA SettlesGo ==
  ASSUME NEW p, NEW o, NEW c, NEW t, NEW q, Settles(p, o, c, t, q)
  PROVE  Goes(p, o, c, t, q)
BY DEF Settles, Goes, Good

LEMMA GoodSized ==
  ASSUME NEW p \in Peer, NEW o \in Peer, NEW c, NEW q, Good(p, o, c, q)
  PROVE  Sized(o, c)
<1>1. CASE Hand(p, o, c)
  <2>1. c.sent \in Nat /\ c.got = <<>> /\ c.RCV \in Num /\ c.HI \in Num
    BY <1>1 DEF Hand, Opening, Fresh, SendTypes, RecvTypes
  <2>2. Pos(o, c.RCV) \in Num /\ Pos(o, c.HI) \in Num
    BY <2>1, PosType
  <2>3. Len(<<>>) \in Nat
    OBVIOUS
  <2> QED
    BY <2>1, <2>2, <2>3, Space DEF Sized, Num
<1> QED
  BY <1>1, SizedAre DEF Good

LEMMA GoesTrans ==
  ASSUME NEW p \in Peer, NEW o \in Peer, NEW c, NEW t, NEW u, NEW q,
         Good(p, o, c, q), Goes(p, o, c, t, q), Goes(p, o, t, u, q)
  PROVE  Goes(p, o, c, u, q)
<1>1. Sized(o, c) /\ Sized(o, t) /\ Sized(o, u)
  BY GoodSized DEF Goes
<1> QED
  BY <1>1, GrowsTrans DEF Goes

\* A step of p's handler that also tells only what is so.
Does(p, o, c, t, q) == Goes(p, o, c, t, q) /\ Sure(p, c, t, q)

LEMMA DoesTrans ==
  ASSUME NEW p \in Peer, NEW o \in Peer, NEW c, NEW t, NEW u, NEW q,
         Good(p, o, c, q), Does(p, o, c, t, q), Does(p, o, t, u, q)
  PROVE  Does(p, o, c, u, q)
BY GoesTrans, SureTrans DEF Does

LEMMA SettlesDo ==
  ASSUME NEW p \in Peer, NEW o \in Peer, NEW c, NEW q, Live(p, o, c, q), Room(p, q), NEW t,
         Settles(p, o, c, t, q), c.eof \in BOOLEAN => Tells(p, c, t, q)
  PROVE  Does(p, o, c, t, q)
BY SettlesGo, TellsSure DEF Does

(* A step that makes no connection. *)
Waits(p, o, c, t, q) == Does(p, o, c, t, q) /\ ~t.connected

LEMMA FreshDoes ==
  ASSUME NEW p \in Peer, NEW o \in Peer, NEW c, NEW t, NEW q, Good(p, o, c, q),
         Goes(p, o, c, t, q), ~c.connected, ~t.connected
  PROVE  Waits(p, o, c, t, q)
<1>1. ASSUME NEW d, Good(p, o, d, q), ~d.connected PROVE Fresh(d)
  BY <1>1 DEF Good, Live, Over, Hand, Opening
<1>2. Fresh(c) /\ Fresh(t)
  BY <1>1 DEF Goes
<1>3. Told(p, t, q) /\ c.eof = FALSE /\ ~Gone(c)
  BY <1>2, FreshTold DEF Fresh, Gone
<1> QED
  BY <1>3 DEF Waits, Does, Sure

(* A block without a connection grows by anything. *)
LEMMA FreshGrows ==
  ASSUME NEW o, NEW c, NEW t, Fresh(c), ~c.connected, t.sent \in Nat, Len(t.got) \in Nat
  PROVE  Grows(o, c, t)
<1>1. c.sent = 0 /\ ~c.ended /\ c.got = <<>>
  BY DEF Fresh
<1>2. Len(<<>>) = 0
  OBVIOUS
<1> QED
  BY <1>1, <1>2 DEF Grows

\* What opening a connection leaves as it is.
OpenFixed == LiveFields \cup {"fd", "eof", "shut"}

LEMMA OpeningFrame ==
  ASSUME NEW p \in Peer, NEW o \in Peer, NEW c, Opening(p, o, c), NEW t, NEW S, Keeps(c, t, S),
         S \cap (OpenFixed \ {"frag", "tseq", "TRM", "cwnd", "cthresh"}) = {},
         FragOK(t.frag), t.tseq \in Num, t.TRM \in Num, t.cwnd \in Num, t.cthresh \in Nat,
         Pos(p, t.TRM) <= 1, 1 <= Pos(p, t.cwnd), Pos(p, t.cwnd) <= 2 * MSS + RCV_WND
  PROVE  Opening(p, o, t) /\ t.state = c.state /\ Grows(o, c, t) /\ t.NXT = c.NXT /\ t.UNA = c.UNA
<1>1. OpenFixed \ {"frag", "tseq", "TRM", "cwnd", "cthresh"} \subseteq Names \ S
  BY DEF OpenFixed, LiveFields, MiscFields, SendFields, RecvFields, TakeFields, Names
<1>2. \A f \in OpenFixed \ {"frag", "tseq", "TRM", "cwnd", "cthresh"} : t[f] = c[f]
  BY <1>1 DEF Keeps
<1>3. /\ t.iss = c.iss /\ t.PSH = c.PSH /\ t.wcount = c.wcount
      /\ t.rcount = c.rcount /\ t.posted = c.posted /\ t.connected = c.connected
      /\ t.finsent = c.finsent /\ t.writing = c.writing
      /\ t.reading = c.reading /\ t.open = c.open /\ t.ioctl = c.ioctl /\ t.state = c.state
  BY <1>2 DEF OpenFixed, LiveFields, MiscFields
<1>4. /\ t.UNA = c.UNA /\ t.NXT = c.NXT /\ t.sent = c.sent /\ t.ended = c.ended
      /\ t.sendq = c.sendq
  BY <1>2 DEF OpenFixed, LiveFields, SendFields
<1>5. /\ t.LO = c.LO /\ t.RCV = c.RCV /\ t.HI = c.HI /\ t.advseq = c.advseq
      /\ t.finrecv = c.finrecv /\ t.got = c.got /\ t.rcvd = c.rcvd /\ t.adv = c.adv
      /\ t.fd = c.fd /\ t.eof = c.eof /\ t.shut = c.shut
  BY <1>2 DEF OpenFixed, LiveFields, RecvFields, TakeFields
<1>6. MiscOK(p, t)
  BY <1>3 DEF Opening, MiscOK, Keeps
<1>7. SendTypes(t) /\ RecvTypes(t)
  BY <1>3, <1>4, <1>5 DEF Opening, SendTypes, RecvTypes
<1>8. Fresh(t)
  BY <1>3, <1>4, <1>5 DEF Opening, Fresh
<1>9. Opening(p, o, t)
  BY <1>3, <1>4, <1>5, <1>6, <1>7, <1>8 DEF Opening
<1>10. t.sent \in Nat /\ Len(t.got) \in Nat
  <2>1. t.got = <<>>
    BY <1>8 DEF Fresh
  <2>2. Len(<<>>) \in Nat
    OBVIOUS
  <2> QED
    BY <1>7, <2>1, <2>2 DEF SendTypes
<1> QED
  BY <1>3, <1>4, <1>9, <1>10, FreshGrows DEF Opening

(* What touches neither the counters nor the queues keeps the handshake. *)
LEMMA HandFrame ==
  ASSUME NEW p \in Peer, NEW o \in Peer, NEW c, Hand(p, o, c), NEW t, NEW S, Keeps(c, t, S),
         S \cap (OpenFixed \ {"frag", "tseq"}) = {}, FragOK(t.frag), t.tseq \in Num,
         c.more => t.more
  PROVE  Hand(p, o, t) /\ Grows(o, c, t)
<1>1. t.TRM = c.TRM /\ t.cwnd = c.cwnd /\ t.cthresh = c.cthresh
  <2>1. {"TRM", "cwnd", "cthresh"} \subseteq Names \ S
    BY DEF OpenFixed, LiveFields, SendFields, Names
  <2> QED
    BY <2>1 DEF Keeps
<1>2. Opening(p, o, c) /\ SendTypes(c)
  BY DEF Hand, Opening
<1>3. /\ t.TRM \in Num /\ t.cwnd \in Num /\ t.cthresh \in Nat
      /\ Pos(p, t.TRM) <= 1 /\ 1 <= Pos(p, t.cwnd) /\ Pos(p, t.cwnd) <= 2 * MSS + RCV_WND
  BY <1>1, <1>2 DEF Opening, SendTypes
<1>4. S \cap (OpenFixed \ {"frag", "tseq", "TRM", "cwnd", "cthresh"}) = {}
  OBVIOUS
<1>5. Opening(p, o, t) /\ t.state = c.state /\ Grows(o, c, t) /\ t.NXT = c.NXT
  BY <1>2, <1>3, <1>4, OpeningFrame
<1> QED
  BY <1>1, <1>5 DEF Hand

(* The end of a connection that was never made. *)
LEMMA FreshCloses ==
  ASSUME NEW p \in Peer, NEW o \in Peer, NEW c, NEW q, MiscOK(p, c), SendTypes(c), RecvTypes(c),
         Fresh(c), ~c.connected, c.state # "CLOSED",
         NEW err, NEW t, t = tcp_close_connection(c, err)
  PROVE  Over(p, o, t, q) /\ ~t.connected /\ Grows(o, c, t) /\ t.state = "CLOSED"
<1>1. Full(c)
  BY DEF MiscOK
<1>2. Ended(c, t, err) /\ Replied(c, t, err)
  BY <1>1, CloseEnds
<1>3. MiscOK(p, t) /\ ~t.connected
  BY <1>1, <1>2, EndedMisc DEF SendTypes
<1>4. /\ SendTypes(t) /\ RecvTypes(t)
      /\ t.sent = c.sent /\ t.ended = c.ended /\ t.got = c.got /\ t.RCV = c.RCV /\ t.HI = c.HI
  BY <1>1, <1>2, EndedTypes
<1>5. Fresh(t)
  <2>1. /\ t.sent = 0 /\ ~t.ended /\ ~t.finsent /\ ~t.finrecv /\ t.got = <<>>
        /\ t.rcvd = <<>> /\ t.adv = <<>> /\ t.sendq = <<>>
    BY <1>1, <1>2, <1>4 DEF Fresh, Ended
  <2>2. ~t.reading /\ ~t.writing /\ t.eof = FALSE /\ t.shut = "no" /\ t.ioctl # "SHUTDOWN"
    BY <1>1, <1>2 DEF Fresh, Replied
  <2> QED
    BY <2>1, <2>2 DEF Fresh
<1>6. Over(p, o, t, q)
  BY <1>2, <1>3, <1>4, <1>5 DEF Over, Ended
<1>7. t.sent \in Nat /\ Len(t.got) \in Nat
  <2>1. t.got = <<>>
    BY <1>5 DEF Fresh
  <2>2. Len(<<>>) \in Nat
    OBVIOUS
  <2> QED
    BY <1>4, <2>1, <2>2 DEF SendTypes
<1> QED
  BY <1>1, <1>2, <1>3, <1>6, <1>7, FreshGrows DEF Ended

LEMMA OpeningCloses ==
  ASSUME NEW p \in Peer, NEW o \in Peer, NEW c, NEW q, Opening(p, o, c),
         NEW err, NEW t, t = tcp_close_connection(c, err)
  PROVE  Over(p, o, t, q) /\ ~t.connected /\ Grows(o, c, t) /\ t.state = "CLOSED"
<1>1. /\ MiscOK(p, c) /\ c.state # "CLOSED" /\ SendTypes(c) /\ RecvTypes(c)
      /\ ~c.connected /\ Fresh(c)
  BY DEF Opening, Handshake
<1> QED
  BY <1>1, FreshCloses

(* Listening and connecting begin from such a block. *)
LEMMA OverStarts ==
  ASSUME NEW p \in Peer, NEW o \in Peer, NEW c, NEW q, Over(p, o, c, q), ~c.connected,
         NEW t, t = tcp_su4listen(c) \/ t = tcp_su4connect(c)
  PROVE  Hand(p, o, t) /\ Grows(o, c, t)
<1>1. MiscOK(p, c) /\ Full(c) /\ SendTypes(c) /\ RecvTypes(c) /\ Fresh(c) /\ c.iss = ISS[p]
  BY DEF Over, MiscOK
<1> DEFINE S == StartFields
<1>2. /\ Keeps(c, t, StartFields)
      /\ t.UNA = c.iss /\ t.TRM = c.iss /\ t.NXT = Add(c.iss, 1) /\ t.PSH = c.iss
      /\ t.LO = 0 /\ t.RCV = 0 /\ t.HI = 0 /\ t.cwnd = Add(c.iss, 2 * MSS)
      /\ t.cthresh = SND_WND /\ t.finsent = FALSE /\ t.finrecv = FALSE /\ t.tseq = 0 /\ t.fd = TRUE
  <2>1. CASE t = tcp_su4listen(c)
    <3>1. Keeps(c, t, StartFields)
      BY <1>1, <2>1 DEF tcp_su4listen, tcp_setup_conn, Full, Keeps, StartFields, SetupFields
    <3>2. /\ t.UNA = c.iss /\ t.TRM = c.iss /\ t.NXT = Add(c.iss, 1) /\ t.PSH = c.iss
          /\ t.LO = 0 /\ t.RCV = 0 /\ t.HI = 0 /\ t.cwnd = Add(c.iss, 2 * MSS)
          /\ t.cthresh = SND_WND /\ t.finsent = FALSE /\ t.finrecv = FALSE /\ t.tseq = 0
          /\ t.fd = TRUE
      BY <1>1, <2>1 DEF tcp_su4listen, tcp_setup_conn, Full, Names
    <3> QED
      BY <3>1, <3>2
  <2>2. CASE t = tcp_su4connect(c)
    <3>1. Keeps(c, t, StartFields)
      BY <1>1, <2>2 DEF tcp_su4connect, tcp_setup_conn, tcp_conn_write, tcp_set_send_timer, Full,
            Keeps, StartFields, SetupFields
    <3>2. /\ t.UNA = c.iss /\ t.TRM = c.iss /\ t.NXT = Add(c.iss, 1) /\ t.PSH = c.iss
          /\ t.LO = 0 /\ t.RCV = 0 /\ t.HI = 0 /\ t.cwnd = Add(c.iss, 2 * MSS)
          /\ t.cthresh = SND_WND /\ t.finsent = FALSE /\ t.finrecv = FALSE /\ t.tseq = 0
          /\ t.fd = TRUE
      BY <1>1, <2>2 DEF tcp_su4connect, tcp_setup_conn, tcp_conn_write, tcp_set_send_timer, Full,
            Names
    <3> QED
      BY <3>1, <3>2
  <2> QED
    BY <2>1, <2>2
<1>3. \/ t.state = "LISTEN"
      \/ t.state = "SYN_SENT" /\ t.more = TRUE
  <2>1. CASE t = tcp_su4listen(c)
    BY <1>1, <2>1 DEF tcp_su4listen, tcp_setup_conn, Full, Names
  <2>2. CASE t = tcp_su4connect(c)
    BY <1>1, <2>2 DEF tcp_su4connect, tcp_setup_conn, tcp_conn_write, tcp_set_send_timer, Full,
            Names
  <2> QED
    BY <2>1, <2>2
<1>4. /\ t.iss = c.iss /\ t.wcount = c.wcount /\ t.rcount = c.rcount /\ t.posted = c.posted
      /\ t.connected = c.connected /\ t.frag = c.frag /\ t.writing = c.writing
      /\ t.reading = c.reading /\ t.open = c.open /\ t.ioctl = c.ioctl
      /\ t.sent = c.sent /\ t.ended = c.ended /\ t.sendq = c.sendq /\ t.advseq = c.advseq
      /\ t.got = c.got /\ t.rcvd = c.rcvd /\ t.adv = c.adv /\ t.eof = c.eof /\ t.shut = c.shut
  BY <1>2 DEF Keeps, StartFields, SetupFields, Names
<1>5. 0 \in Num /\ ISS[p] \in Num /\ Pos(p, ISS[p]) = 0
  BY PosStart, Space DEF Num
<1>6. Add(c.iss, 1) \in Num /\ Pos(p, Add(c.iss, 1)) = 1
  <2> DEFINE k == 1
  <2>1. k \in Int /\ - SeqSpace <= k /\ k <= SeqSpace /\ 0 <= 0 + k /\ 0 + k < SeqSpace
    BY SpaceBig, Space
  <2> HIDE DEF k
  <2>2. Add(ISS[p], k) \in Num /\ Pos(p, Add(ISS[p], k)) = 0 + k
    BY <1>5, <2>1, PosAdd
  <2> QED
    BY <1>1, <2>2 DEF k
<1>7. Add(c.iss, 2 * MSS) \in Num /\ Pos(p, Add(c.iss, 2 * MSS)) = 2 * MSS
  <2> DEFINE k == 2 * MSS
  <2>1. k \in Int /\ - SeqSpace <= k /\ k <= SeqSpace /\ 0 <= 0 + k /\ 0 + k < SeqSpace
    BY SpaceBig, Space
  <2> HIDE DEF k
  <2>2. Add(ISS[p], k) \in Num /\ Pos(p, Add(ISS[p], k)) = 0 + k
    BY <1>5, <2>1, PosAdd
  <2>3. 0 + k = k
    BY <2>1
  <2> QED
    BY <1>1, <2>2, <2>3 DEF k
<1>8. MiscOK(p, t)
  BY <1>1, <1>2, <1>4, <1>5 DEF MiscOK, Keeps
<1>9. SendTypes(t) /\ RecvTypes(t)
  BY <1>1, <1>2, <1>4, <1>5, <1>6, <1>7, Space DEF SendTypes, RecvTypes
<1>10. Fresh(t)
  BY <1>1, <1>2, <1>4 DEF Fresh
<1>11. Opening(p, o, t)
  <2>1. t.state \in Handshake /\ t.state # "SYN_RECEIVED" /\ ~t.connected /\ t.fd
    BY <1>2, <1>3, <1>4 DEF Handshake
  <2>2. t.UNA = ISS[p] /\ Pos(p, t.NXT) = 1 /\ Pos(p, t.TRM) <= 1
    BY <1>1, <1>2, <1>5, <1>6
  <2>3. Pos(p, t.cwnd) = 2 * MSS
    BY <1>2, <1>7
  <2>4. 1 <= 2 * MSS /\ 2 * MSS <= 2 * MSS + RCV_WND
    BY Space
  <2> QED
    BY <1>8, <1>9, <1>10, <2>1, <2>2, <2>3, <2>4 DEF Opening
<1>12. t.sent \in Nat /\ Len(t.got) \in Nat
  <2>1. t.got = <<>>
    BY <1>10 DEF Fresh
  <2>2. Len(<<>>) \in Nat
    OBVIOUS
  <2> QED
    BY <1>9, <2>1, <2>2 DEF SendTypes
<1> QED
  BY <1>1, <1>3, <1>11, <1>12, FreshGrows DEF Hand

(* create_RST(): a reset is a segment, and all it changes. *)
LEMMA ResetFrag ==
  ASSUME NEW c, Full(c), FragOK(c.frag), NEW s \in Segment,
         NEW t, t = tcp_conn_write(create_RST(c, s))
  PROVE  Keeps(c, t, {"frag", "more"}) /\ FragOK(t.frag) /\ t.more
<1> DEFINE len == Len(s.data) + (IF Has(s, "SYN") THEN 1 ELSE 0)
                              + (IF Has(s, "FIN") THEN 1 ELSE 0)
           rst == IF Has(s, "ACK")
                  THEN [seq |-> s.ack, ack |-> 0, flags |-> {"RST"},
                        wnd |-> RCV_WND, data |-> <<>>]
                  ELSE [seq |-> 0, ack |-> Add(s.seq, len),
                        flags |-> {"RST", "ACK"}, wnd |-> RCV_WND, data |-> <<>>]
           d == create_RST(c, s)
<1>1. Keeps(c, t, {"frag", "more"})
  BY FrameRST
<1>2. s.seq \in Num /\ s.ack \in Num /\ Len(s.data) \in Nat
  BY DEF Segment, Num
<1>3. len \in Int
  BY <1>2
<1> HIDE DEF len
<1>4. Add(s.seq, len) \in Num /\ 0 \in Num /\ RCV_WND \in 0 .. RCV_WND
  <2>1. s.seq \in Int
    BY <1>2, Space DEF Num
  <2>2. Add(s.seq, len) \in Num
    BY <1>3, <2>1, AddNum
  <2> QED
    BY <2>2, Space DEF Num
<1>5. FragOK(rst)
  <2>1. <<>> \in Seq(Nat)
    OBVIOUS
  <2>2. CASE Has(s, "ACK")
    <3>1. rst = [seq |-> s.ack, ack |-> 0, flags |-> {"RST"}, wnd |-> RCV_WND, data |-> <<>>]
      BY <2>2
    <3> QED
      BY <1>2, <1>4, <2>1, <3>1 DEF FragOK, Segment, Num
  <2>3. CASE ~Has(s, "ACK")
    <3>1. rst = [seq |-> 0, ack |-> Add(s.seq, len), flags |-> {"RST", "ACK"},
                 wnd |-> RCV_WND, data |-> <<>>]
      BY <2>3
    <3> QED
      BY <1>2, <1>4, <2>1, <3>1 DEF FragOK, Segment, Num
  <2> QED
    BY <2>2, <2>3
<1> HIDE DEF rst
<1>6. d = IF len = 0 THEN c ELSE tcp_conn_write([c EXCEPT !.frag = rst])
  BY DEF create_RST, len, rst
<1>7. d = c \/ (Full(d) /\ d.frag = rst)
  BY <1>6 DEF tcp_conn_write, Full, Names
<1>8. Full(d) /\ FragOK(d.frag)
  BY <1>5, <1>7
<1> HIDE DEF d
<1>9. t.frag = d.frag /\ t.more = TRUE
  BY <1>8 DEF tcp_conn_write, Full, Names, d
<1> QED
  BY <1>1, <1>8, <1>9

(* A reset for a segment that belongs to no connection. *)
LEMMA OverFrame ==
  ASSUME NEW p \in Peer, NEW o \in Peer, NEW c, NEW q, Over(p, o, c, q), NEW t, NEW S,
         Keeps(c, t, S), S \cap (OpenFixed \ {"frag", "tseq"}) = {},
         FragOK(t.frag), t.tseq \in Num
  PROVE  Over(p, o, t, q) /\ Grows(o, c, t) /\ t.connected = c.connected
<1>1. OpenFixed \ {"frag", "tseq"} \subseteq Names \ S
  BY DEF OpenFixed, LiveFields, MiscFields, SendFields, RecvFields, TakeFields, Names
<1>2. \A f \in OpenFixed \ {"frag", "tseq"} : t[f] = c[f]
  BY <1>1 DEF Keeps
<1>3. /\ t.iss = c.iss /\ t.PSH = c.PSH /\ t.wcount = c.wcount
      /\ t.rcount = c.rcount /\ t.posted = c.posted /\ t.connected = c.connected
      /\ t.finsent = c.finsent /\ t.writing = c.writing
      /\ t.reading = c.reading /\ t.open = c.open /\ t.ioctl = c.ioctl /\ t.state = c.state
  BY <1>2 DEF OpenFixed, LiveFields, MiscFields
<1>4. /\ t.UNA = c.UNA /\ t.NXT = c.NXT /\ t.TRM = c.TRM /\ t.cwnd = c.cwnd
      /\ t.cthresh = c.cthresh /\ t.sent = c.sent /\ t.ended = c.ended /\ t.sendq = c.sendq
  BY <1>2 DEF OpenFixed, LiveFields, SendFields
<1>5. /\ t.LO = c.LO /\ t.RCV = c.RCV /\ t.HI = c.HI /\ t.advseq = c.advseq
      /\ t.finrecv = c.finrecv /\ t.got = c.got /\ t.rcvd = c.rcvd /\ t.adv = c.adv
      /\ t.eof = c.eof /\ t.shut = c.shut
  BY <1>2 DEF OpenFixed, LiveFields, RecvFields, TakeFields
<1>6. MiscOK(p, t)
  BY <1>3 DEF Over, MiscOK, Keeps
<1>7. SendTypes(t) /\ RecvTypes(t)
  BY <1>3, <1>4, <1>5 DEF Over, SendTypes, RecvTypes
<1>8. Over(p, o, t, q)
  BY <1>3, <1>4, <1>5, <1>6, <1>7 DEF Over, Rest, Fresh
<1>9. Grows(o, c, t)
  <2>1. Sized(o, c)
    BY SizedAre
  <2> QED
    BY <1>3, <1>4, <1>5, <2>1 DEF Grows, Sized
<1> QED
  BY <1>3, <1>8, <1>9

(* What a handshake becomes is not a connection. *)
LEMMA HandWaits ==
  ASSUME NEW p \in Peer, NEW o \in Peer, NEW c, NEW q, Hand(p, o, c),
         NEW t, Hand(p, o, t) \/ (Over(p, o, t, q) /\ ~t.connected), Grows(o, c, t)
  PROVE  Waits(p, o, c, t, q)
BY FreshDoes DEF Hand, Opening, Good, Goes

LEMMA OpeningReset ==
  ASSUME NEW p \in Peer, NEW o \in Peer, NEW c, NEW q, Hand(p, o, c), NEW s \in Segment
  PROVE  Waits(p, o, c, tcp_conn_write(create_RST(c, s)), q)
<1> DEFINE t == tcp_conn_write(create_RST(c, s))
<1>1. Full(c) /\ FragOK(c.frag) /\ c.tseq \in Num
  BY DEF Hand, Opening, MiscOK
<1>2. Keeps(c, t, {"frag", "more"}) /\ FragOK(t.frag) /\ t.more
  BY <1>1, ResetFrag
<1> HIDE DEF t
<1>3. t.tseq = c.tseq
  BY <1>2 DEF Keeps, Names
<1>4. {"frag", "more"} \cap (OpenFixed \ {"frag", "tseq"}) = {}
  BY DEF OpenFixed, LiveFields, MiscFields, SendFields, RecvFields, TakeFields
<1>5. Hand(p, o, t) /\ Grows(o, c, t)
  BY <1>1, <1>2, <1>3, <1>4, HandFrame
<1>6. Waits(p, o, c, t, q)
  BY <1>5, HandWaits
<1> QED
  BY <1>6 DEF t

\* A step that makes no connection where there was none.
Stays(p, o, c, t, q) == Does(p, o, c, t, q) /\ (~c.connected => ~t.connected)

LEMMA OverReset ==
  ASSUME NEW p \in Peer, NEW o \in Peer, NEW c, NEW q, Over(p, o, c, q), NEW s \in Segment
  PROVE  Stays(p, o, c, tcp_conn_write(create_RST(c, s)), q)
<1> DEFINE t == tcp_conn_write(create_RST(c, s))
<1>1. Full(c) /\ FragOK(c.frag) /\ c.tseq \in Num
  BY DEF Over, MiscOK
<1>2. Keeps(c, t, {"frag", "more"}) /\ FragOK(t.frag) /\ t.more
  BY <1>1, ResetFrag
<1> HIDE DEF t
<1>3. t.tseq = c.tseq
  BY <1>2 DEF Keeps, Names
<1>4. {"frag", "more"} \cap (OpenFixed \ {"frag", "tseq"}) = {}
  BY DEF OpenFixed, LiveFields, MiscFields, SendFields, RecvFields, TakeFields
<1>5. Over(p, o, t, q) /\ Grows(o, c, t) /\ t.connected = c.connected
  BY <1>1, <1>2, <1>3, <1>4, OverFrame
<1>6. Sure(p, c, t, q)
  BY <1>2, StillSure
<1> QED
  BY <1>5, <1>6 DEF Stays, Does, Goes, Good, t

(* Nothing changes, or an acknowledgement is asked for. *)
LEMMA HandStays ==
  ASSUME NEW p \in Peer, NEW o \in Peer, NEW c, NEW q, Hand(p, o, c)
  PROVE  Waits(p, o, c, c, q) /\ Waits(p, o, c, AckBack(c), q)
<1> DEFINE t == AckBack(c)
<1>1. Full(c) /\ FragOK(c.frag) /\ c.tseq \in Num
  BY DEF Hand, Opening, MiscOK
<1>2. Keeps(c, c, {}) /\ Keeps(c, t, {"more", "sendack"}) /\ t.more
  BY <1>1, KeepsSelf, FrameAckBack DEF AckBack, tcp_conn_write, Full, Names
<1> HIDE DEF t
<1>3. t.tseq = c.tseq /\ t.frag = c.frag
  BY <1>2 DEF Keeps, Names
<1>4. {"more", "sendack"} \cap (OpenFixed \ {"frag", "tseq"}) = {}
  BY DEF OpenFixed, LiveFields, MiscFields, SendFields, RecvFields, TakeFields
<1>5. Hand(p, o, t) /\ Grows(o, c, t)
  BY <1>1, <1>2, <1>3, <1>4, HandFrame
<1>6. Hand(p, o, c) /\ Grows(o, c, c)
  BY <1>1, <1>2, HandFrame
<1>7. Waits(p, o, c, c, q) /\ Waits(p, o, c, t, q)
  BY <1>5, <1>6, HandWaits
<1> QED
  BY <1>7 DEF t

LEMMA OverStays ==
  ASSUME NEW p \in Peer, NEW o \in Peer, NEW c, NEW q, Over(p, o, c, q)
  PROVE  Stays(p, o, c, c, q)
<1>1. Keeps(c, c, {}) /\ FragOK(c.frag) /\ c.tseq \in Num
  BY KeepsSelf DEF Over, MiscOK
<1>2. Over(p, o, c, q) /\ Grows(o, c, c)
  BY <1>1, OverFrame
<1>3. Sure(p, c, c, q)
  BY DEF Sure
<1> QED
  BY <1>2, <1>3 DEF Stays, Does, Goes, Good

(* The handshake is done. *)
LEMMA JoinedLive ==
  ASSUME NEW p \in Peer, NEW o \in Peer, NEW q, q.sent \in Nat, 1 <= Heard(p, q),
         NEW t, MiscOK(p, t), SendTypes(t), RecvTypes(t), Connected(t), t.connected,
         t.sent = 0, ~t.ended, ~t.finsent, ~t.finrecv,
         t.got = <<>>, t.rcvd = <<>>, t.adv = <<>>, t.sendq = <<>>,
         Pos(p, t.UNA) = 1, Pos(p, t.TRM) = 1, Pos(p, t.NXT) = 1,
         1 <= Pos(p, t.cwnd), Pos(p, t.cwnd) <= 1 + 2 * MSS + RCV_WND,
         t.LO = t.RCV, Pos(o, t.RCV) = 1, Pos(o, t.HI) = 1 + RCV_WND
  PROVE  Live(p, o, t, q)
<1>1. Acked(p, t) = 0
  BY DEF Acked
<1>2. Run(0, 0) = <<>>
  BY RunEmpty
<1>3. One(t.finsent) = 0 /\ One(t.finrecv) = 0
  BY DEF One
<1>4. t.finsent = t.ended
  BY DEF SendTypes
<1>5. SendOrder(p, t, q)
  BY <1>1, <1>3, <1>4, Space DEF SendOrder
<1>6. RecvOrder(o, t, q)
  BY <1>3, Space DEF RecvOrder
<1>7. Sends(p, t, q)
  BY <1>1, <1>2, <1>5 DEF Sends
<1>8. Takes(o, t, q)
  <2>1. t.got = Run(0, Pos(o, t.LO) - 1)
    BY <1>2
  <2>2. t.rcvd = Run(Pos(o, t.LO) - 1, Pos(o, t.RCV) - 1 - One(t.finrecv))
    BY <1>2, <1>3
  <2> QED
    BY <1>6, <2>1, <2>2 DEF Takes
<1> QED
  BY <1>7, <1>8 DEF Live, Recvs

(* tcp_restart_connect() on a handshake that succeeded. *)
LEMMA RestartOpen ==
  ASSUME NEW c, Full(c), c.state # "CLOSED", NEW t, t = tcp_restart_connect(c)
  PROVE  /\ Keeps(c, t, OpenFields) /\ t.connected = TRUE /\ t.ioctl = "none"
         /\ c.ioctl # "SHUTDOWN" => t.shut = c.shut
         /\ t.fd = c.fd
BY DEF tcp_restart_connect, ReplyIoctl, Full, Keeps, OpenFields, ReplyIoctlFields, Names

LEMMA RestartMisc ==
  ASSUME NEW p \in Peer, NEW c, MiscOK(p, c), c.state # "CLOSED",
         NEW t, t = tcp_restart_connect(c)
  PROVE  MiscOK(p, t) /\ t.connected = TRUE
<1>1. /\ Keeps(c, t, OpenFields) /\ t.connected = TRUE /\ t.ioctl = "none"
  BY RestartOpen DEF MiscOK
<1>2. /\ t.iss = c.iss /\ t.PSH = c.PSH /\ t.tseq = c.tseq /\ t.wcount = c.wcount
      /\ t.rcount = c.rcount /\ t.posted = c.posted
      /\ t.frag = c.frag /\ t.finsent = c.finsent /\ t.writing = c.writing
      /\ t.reading = c.reading /\ t.open = c.open
  BY <1>1 DEF Keeps, OpenFields, ReplyIoctlFields, Names
<1> QED
  BY <1>1, <1>2, ZenonT(40) DEF MiscOK, Keeps

(* The SYN is acknowledged: nothing is left to send. *)
LEMMA SynReleased ==
  ASSUME NEW p \in Peer, NEW o \in Peer, NEW c, Opening(p, o, c),
         NEW ack \in Num, Lmod4G(c.UNA, ack), LEmod4G(ack, c.NXT), 2 * Pos(p, ack) < SeqSpace,
         NEW wnd \in 0 .. RCV_WND, NEW e, e = [c EXCEPT !.state = "ESTABLISHED"],
         NEW t, t = tcp_release_retrans(e, ack, wnd)
  PROVE  /\ Keeps(c, t, {"state", "cthresh", "UNA", "TRM", "cwnd", "sendq"})
         /\ t.state = "ESTABLISHED" /\ t.cthresh \in Nat /\ t.UNA = ack /\ t.TRM = ack
         /\ t.cwnd \in Num /\ Pos(p, t.cwnd) = 1 + 2 * MSS /\ t.sendq = <<>>
         /\ Pos(p, ack) = 1
<1>1. /\ Full(c) /\ c.UNA \in Num /\ c.NXT \in Num /\ c.TRM \in Num /\ c.cwnd \in Num
      /\ c.cthresh \in Nat /\ ~c.finsent /\ ~c.writing /\ c.ioctl # "SHUTDOWN" /\ c.fd
      /\ c.iss = ISS[p] /\ c.UNA = ISS[p] /\ Pos(p, c.NXT) = 1 /\ Pos(p, c.TRM) <= 1
      /\ Pos(p, c.UNA) = 0
  BY PosStart DEF Opening, MiscOK, SendTypes, Fresh
<1>2. 2 * 1 < SeqSpace /\ 2 * (1 + 2 * MSS) < SeqSpace /\ SeqSpace \in Nat
  BY SpaceBig, Space
<1> DEFINE k == Pos(p, ack)
           m == Pos(p, c.TRM)
<1>3. k \in Int /\ m \in Int /\ 0 <= k /\ 0 <= m /\ m <= 1
  BY <1>1, PosType
<1>4. Near(p, c.UNA) /\ Near(p, c.NXT) /\ Near(p, ack) /\ Near(p, c.TRM)
  <2>1. 2 * Pos(p, c.TRM) < SeqSpace
    BY <1>2, <1>3
  <2>2. 2 * Pos(p, c.NXT) < SeqSpace /\ 2 * Pos(p, c.UNA) < SeqSpace
    BY <1>1, <1>2
  <2> QED
    BY <1>1, <2>1, <2>2 DEF Near
<1>5. k = 1 /\ ack = c.NXT
  <2>1. Lmod4G(c.UNA, ack) <=> Pos(p, c.UNA) < Pos(p, ack)
    BY <1>4, Compare
  <2>2. LEmod4G(ack, c.NXT) <=> Pos(p, ack) <= Pos(p, c.NXT)
    BY <1>4, Compare
  <2>3. k = 1
    BY <1>1, <1>3, <2>1, <2>2
  <2> QED
    BY <1>1, <2>3, PosSame
<1>6. Lmod4G(c.TRM, ack) \/ c.TRM = ack
  <2>1. Lmod4G(c.TRM, ack) <=> Pos(p, c.TRM) < Pos(p, ack)
    BY <1>4, Compare
  <2>2. c.TRM = ack <=> Pos(p, c.TRM) = Pos(p, ack)
    BY <1>4, Compare
  <2> QED
    BY <1>3, <1>5, <2>1, <2>2
<1>7. /\ Keeps(c, e, {"state"}) /\ e.state = "ESTABLISHED"
  BY <1>1 DEF Full, Keeps, Names
<1>8. /\ Full(e) /\ e.UNA = c.UNA /\ e.NXT = c.NXT /\ e.TRM = c.TRM /\ e.cwnd = c.cwnd
      /\ e.cthresh = c.cthresh /\ e.finsent = c.finsent /\ e.writing = c.writing
      /\ e.ioctl = c.ioctl /\ e.fd = c.fd /\ e.iss = c.iss /\ e.sendq = c.sendq
  BY <1>7 DEF Keeps, Names
<1> DEFINE fin == IF e.finsent THEN 1 ELSE 0
           lo == IF e.UNA = e.iss THEN Add(e.UNA, 1) ELSE e.UNA
           acked == IF e.finsent /\ ack = e.NXT THEN Add(ack, -1) ELSE ack
           size == Diff(Add(e.NXT, -fin), acked)
           aw == AckWindow(e, wnd)
           rel == Released(e, ack, wnd)
<1>9. size = 0
  <2> DEFINE z == -fin
  <2>1. z = 0
    <3>1. fin = 0 /\ fin \in Int
      BY <1>1, <1>8
    <3> HIDE DEF fin
    <3>2. -fin = 0 - fin
      <4>1. fin \in Int
        BY <3>1
      <4> QED
        BY <4>1
    <3>3. 0 - fin = 0
      BY <3>1
    <3>4. -fin = 0
      BY <3>2, <3>3
    <3> QED
      BY <3>4 DEF z
  <2> HIDE DEF z
  <2>2. /\ Add(e.NXT, 0) = IF e.NXT + 0 < 0 THEN e.NXT + 0 + SeqSpace
                        ELSE IF e.NXT + 0 < SeqSpace THEN e.NXT + 0 ELSE e.NXT + 0 - SeqSpace
    <3> DEFINE y == 0
    <3>1. y \in Int /\ - SeqSpace <= y /\ y <= SeqSpace
      BY <1>2
    <3> HIDE DEF y
    <3>2. Add(e.NXT, y) = IF e.NXT + y < 0 THEN e.NXT + y + SeqSpace
                        ELSE IF e.NXT + y < SeqSpace THEN e.NXT + y ELSE e.NXT + y - SeqSpace
      BY <1>1, <1>8, <3>1, AddIs
    <3> QED
      BY <3>2 DEF y
  <2>3. Add(e.NXT, 0) = e.NXT
    BY <1>1, <1>2, <1>8, <2>2 DEF Num
  <2>4. acked = ack
    BY <1>1, <1>8
  <2>5. Diff(e.NXT, ack) = 0
    <3>1. Pos(p, e.NXT) >= Pos(p, ack) => Diff(e.NXT, ack) = Pos(p, e.NXT) - Pos(p, ack)
      BY <1>4, <1>8, Compare
    <3> QED
      BY <1>1, <1>5, <1>8, <3>1
  <2>6. size = Diff(Add(e.NXT, z), acked)
    BY DEF z
  <2> HIDE DEF size, acked, fin
  <2> QED
    BY <2>1, <2>3, <2>4, <2>5, <2>6
<1>10. aw.thresh \in Nat
  <2>1. e.cthresh \in Nat /\ e.cwnd \in Num /\ e.UNA \in Num /\ wnd \in Nat
    BY <1>1, <1>8, Space
  <2> HIDE DEF fin, lo, acked, size, rel
  <2> QED
    BY <2>1, WindowIs
<1> DEFINE j == 2 * MSS
<1>11. Add(ack, j) \in Num /\ Pos(p, Add(ack, j)) = 1 + j
  <2>1. j \in Int /\ - SeqSpace <= j /\ j <= SeqSpace /\ 0 <= 1 + j /\ 1 + j < SeqSpace
    BY <1>2, Space
  <2> HIDE DEF j
  <2> QED
    BY <1>5, <2>1, PosAdd
<1> HIDE DEF size, aw
<1>12. /\ Keeps(e, rel, {"cthresh", "UNA", "TRM", "cwnd", "sendq"})
       /\ rel.cthresh = aw.thresh /\ rel.UNA = ack /\ rel.TRM = ack
       /\ rel.cwnd = Add(ack, 2 * MSS) /\ rel.sendq = <<>>
  <2>1. rel = [e EXCEPT !.cthresh = aw.thresh, !.UNA = ack,
                 !.TRM = IF Lmod4G(@, ack) THEN ack ELSE @,
                 !.cwnd = Add(ack, IF size = 0 THEN 2 * MSS ELSE aw.window),
                 !.sendq = IF size = 0 THEN <<>> ELSE SubSeq(@, Diff(acked, lo) + 1, Len(@))]
    BY DEF Released, aw, size
  <2> HIDE DEF rel
  <2>2. Keeps(e, rel, {"cthresh", "UNA", "TRM", "cwnd", "sendq"})
    BY <1>8, <2>1 DEF Full, Keeps
  <2>3. /\ rel.cthresh = aw.thresh /\ rel.UNA = ack
        /\ rel.TRM = (IF Lmod4G(e.TRM, ack) THEN ack ELSE e.TRM)
        /\ rel.cwnd = Add(ack, 2 * MSS) /\ rel.sendq = <<>>
    BY <1>8, <1>9, <2>1 DEF Full, Names
  <2> QED
    BY <1>6, <1>8, <2>2, <2>3
<1> DEFINE b == BackInWindow(rel)
<1> HIDE DEF rel
<1>13. rel.cwnd \in Num /\ Pos(p, rel.cwnd) = 1 + 2 * MSS
  BY <1>11, <1>12
<1>14. ~Gmod4G(rel.TRM, rel.cwnd)
  <2>1. Near(p, rel.cwnd) /\ Near(p, rel.TRM)
    BY <1>2, <1>4, <1>12, <1>13 DEF Near
  <2>2. Gmod4G(rel.TRM, rel.cwnd) <=> Pos(p, rel.TRM) > Pos(p, rel.cwnd)
    BY <2>1, Compare
  <2>3. Pos(p, rel.TRM) = 1
    BY <1>5, <1>12
  <2> QED
    BY <1>13, <2>2, <2>3, Space
<1>15. Full(rel)
  BY <1>12 DEF Keeps
<1>16. Keeps(rel, b, {}) /\ Full(b)
  BY <1>14, <1>15 DEF BackInWindow, Full, Keeps, Names
<1> HIDE DEF b
<1>17. /\ b.fd = c.fd /\ b.writing = c.writing /\ b.ioctl = c.ioctl /\ b.NXT = c.NXT
       /\ b.UNA = ack /\ b.TRM = ack /\ b.state = "ESTABLISHED"
  <2>1. /\ b.fd = rel.fd /\ b.writing = rel.writing /\ b.ioctl = rel.ioctl /\ b.NXT = rel.NXT
        /\ b.UNA = rel.UNA /\ b.TRM = rel.TRM /\ b.state = rel.state
    BY <1>16 DEF Keeps, Names
  <2>2. /\ rel.fd = e.fd /\ rel.writing = e.writing /\ rel.ioctl = e.ioctl /\ rel.NXT = e.NXT
        /\ rel.state = e.state
    BY <1>12 DEF Keeps, Names
  <2>3. rel.UNA = ack /\ rel.TRM = ack
    BY <1>12
  <2> QED
    BY <1>7, <1>8, <2>1, <2>2, <2>3
<1>18. Refill(b) = b
  <2>1. CASE b.ioctl # "none"
    <3>1. tcp_fd_write(b) = b
      BY <1>1, <1>17, <2>1 DEF tcp_fd_write, FdIoctl
    <3> QED
      BY <3>1 DEF Refill
  <2>2. CASE b.ioctl = "none"
    BY <1>1, <1>17, <2>2 DEF Refill
  <2> QED
    BY <2>1, <2>2
<1>19. EndOrSend(b) = b
  BY <1>1, <1>5, <1>17 DEF EndOrSend
<1>20. t = b
  BY <1>18, <1>19 DEF tcp_release_retrans, b, rel
<1>21. Keeps(c, t, {"state", "cthresh", "UNA", "TRM", "cwnd", "sendq"})
  BY <1>7, <1>12, <1>16, <1>20, ZenonT(20) DEF Keeps
<1>22. /\ t.cthresh = aw.thresh /\ t.cwnd = rel.cwnd /\ t.sendq = <<>>
  BY <1>12, <1>16, <1>20 DEF Keeps, Names
<1> QED
  BY <1>5, <1>10, <1>13, <1>17, <1>20, <1>21, <1>22

(* A listening block meets a SYN. *)
LEMMA Listened ==
  ASSUME NEW p \in Peer, NEW o \in Peer, NEW c, NEW q, Hand(p, o, c), c.state = "LISTEN",
         NEW s \in Segment, Truth(o, p, s, q), Has(s, "SYN")
  PROVE  Waits(p, o, c, InListen(c, s), q)
<1> DEFINE d == [c EXCEPT !.LO = Add(s.seq, 1), !.RCV = Add(s.seq, 1),
                     !.HI = Add(s.seq, 1 + RCV_WND), !.UNA = c.iss,
                     !.TRM = c.iss, !.NXT = Add(c.iss, 1),
                     !.PSH = Add(c.iss, -1), !.state = "SYN_RECEIVED"]
           t == tcp_set_send_timer(tcp_conn_write(d))
           S == {"LO", "RCV", "HI", "UNA", "TRM", "NXT", "PSH", "state", "more", "timer", "stt"}
<1>1. CASE Has(s, "RST")
  BY <1>1, HandStays DEF InListen
<1>2. CASE ~Has(s, "RST") /\ Has(s, "ACK")
  BY <1>2, OpeningReset DEF InListen
<1>3. CASE ~Has(s, "RST") /\ ~Has(s, "ACK")
  <2>1. InListen(c, s) = t
    BY <1>3 DEF InListen
  <2>2. /\ Opening(p, o, c) /\ Full(c) /\ MiscOK(p, c) /\ SendTypes(c) /\ RecvTypes(c) /\ Fresh(c)
        /\ c.iss = ISS[p] /\ ~c.connected
    BY DEF Hand, Opening, MiscOK
  <2>3. s.seq = ISS[o]
    BY <1>3 DEF Truth, Spoken
  <2>4. ISS[p] \in Num /\ ISS[o] \in Num /\ Pos(p, ISS[p]) = 0 /\ Pos(o, ISS[o]) = 0
    BY PosStart
  <2>5. ASSUME NEW x \in Peer, NEW k \in Int, 0 <= k, k <= 1 + RCV_WND
        PROVE  Add(ISS[x], k) \in Num /\ Pos(x, Add(ISS[x], k)) = k
    <3>1. - SeqSpace <= k /\ k <= SeqSpace /\ 0 <= 0 + k /\ 0 + k < SeqSpace
      BY <2>5, SpaceBig, Space
    <3>2. Add(ISS[x], k) \in Num /\ Pos(x, Add(ISS[x], k)) = 0 + k
      BY <3>1, PosStart, PosAdd
    <3> QED
      BY <3>2
  <2>6. /\ Add(ISS[o], 1) \in Num /\ Pos(o, Add(ISS[o], 1)) = 1
        /\ Add(ISS[p], 1) \in Num /\ Pos(p, Add(ISS[p], 1)) = 1
    <3> DEFINE k == 1
    <3>1. k \in Int /\ 0 <= k /\ k <= 1 + RCV_WND
      BY Space
    <3> HIDE DEF k
    <3>2. /\ Add(ISS[o], k) \in Num /\ Pos(o, Add(ISS[o], k)) = k
          /\ Add(ISS[p], k) \in Num /\ Pos(p, Add(ISS[p], k)) = k
      BY <2>5, <3>1
    <3> QED
      BY <3>2 DEF k
  <2>7. Add(ISS[o], 1 + RCV_WND) \in Num /\ Pos(o, Add(ISS[o], 1 + RCV_WND)) = 1 + RCV_WND
    <3> DEFINE k == 1 + RCV_WND
    <3>1. k \in Int /\ 0 <= k /\ k <= 1 + RCV_WND
      BY Space
    <3> HIDE DEF k
    <3>2. Add(ISS[o], k) \in Num /\ Pos(o, Add(ISS[o], k)) = k
      BY <2>5, <3>1
    <3> QED
      BY <3>2 DEF k
  <2>8. Add(ISS[p], -1) \in Num
    <3> DEFINE k == -1
    <3>1. k \in Int /\ ISS[p] \in Int
      BY <2>4, Space DEF Num
    <3> HIDE DEF k
    <3>2. Add(ISS[p], k) \in Num
      BY <3>1, AddNum
    <3> QED
      BY <3>2 DEF k
  <2>9. Keeps(c, t, S)
    BY <2>2 DEF tcp_set_send_timer, tcp_conn_write, Full, Keeps
  <2>10. /\ t.LO = Add(s.seq, 1) /\ t.RCV = Add(s.seq, 1) /\ t.HI = Add(s.seq, 1 + RCV_WND)
         /\ t.UNA = c.iss /\ t.TRM = c.iss /\ t.NXT = Add(c.iss, 1) /\ t.PSH = Add(c.iss, -1)
         /\ t.state = "SYN_RECEIVED"
    BY <2>2 DEF tcp_set_send_timer, tcp_conn_write, Full, Names
  <2> HIDE DEF t
  <2>11. /\ t.iss = c.iss /\ t.tseq = c.tseq /\ t.wcount = c.wcount /\ t.rcount = c.rcount
         /\ t.posted = c.posted /\ t.connected = c.connected /\ t.frag = c.frag
         /\ t.finsent = c.finsent /\ t.writing = c.writing /\ t.reading = c.reading
         /\ t.open = c.open /\ t.ioctl = c.ioctl /\ t.fd = c.fd
         /\ t.cwnd = c.cwnd /\ t.cthresh = c.cthresh
         /\ t.sent = c.sent /\ t.ended = c.ended /\ t.sendq = c.sendq /\ t.advseq = c.advseq
         /\ t.finrecv = c.finrecv
         /\ t.got = c.got /\ t.rcvd = c.rcvd /\ t.adv = c.adv /\ t.eof = c.eof /\ t.shut = c.shut
    BY <2>9 DEF Keeps, Names
  <2>12. t.UNA = ISS[p] /\ t.TRM = ISS[p] /\ t.NXT = Add(ISS[p], 1) /\ t.PSH = Add(ISS[p], -1)
         /\ t.LO = Add(ISS[o], 1) /\ t.RCV = Add(ISS[o], 1) /\ t.HI = Add(ISS[o], 1 + RCV_WND)
    BY <2>2, <2>3, <2>10
  <2>13. MiscOK(p, t)
    BY <2>2, <2>8, <2>9, <2>11, <2>12 DEF MiscOK, Keeps
  <2>14. SendTypes(t) /\ RecvTypes(t) /\ Fresh(t)
    BY <2>2, <2>4, <2>6, <2>7, <2>11, <2>12 DEF SendTypes, RecvTypes, Fresh
  <2>15. Opening(p, o, t)
    BY <2>2, <2>4, <2>6, <2>7, <2>10, <2>11, <2>12, <2>13, <2>14 DEF Opening, Handshake
  <2>16. Grows(o, c, t)
    <3>1. t.sent \in Nat /\ t.got = <<>>
      BY <2>14 DEF SendTypes, Fresh
    <3>2. Len(<<>>) \in Nat
      OBVIOUS
    <3> QED
      BY <2>2, <3>1, <3>2, FreshGrows
  <2>17. Hand(p, o, t)
    BY <2>10, <2>15 DEF Hand
  <2> QED
    BY <2>1, <2>16, <2>17, HandWaits
<1> QED
  BY <1>1, <1>2, <1>3

(* A handshake that fails, with or without another listen. *)
LEMMA Refused ==
  ASSUME NEW p \in Peer, NEW o \in Peer, NEW c, NEW q, Hand(p, o, c), NEW err
  PROVE  Waits(p, o, c, Refuse(c, err), q)
<1> DEFINE d == [c EXCEPT !.inprog = FALSE, !.fd = FALSE]
           t == tcp_close_connection(d, err)
           u == tcp_su4listen(t)
<1>1. Opening(p, o, c) /\ Full(c)
  BY DEF Hand, Opening, MiscOK
<1>2. CASE ~c.orglisten
  <2>1. /\ Over(p, o, Refuse(c, err), q) /\ Grows(o, c, Refuse(c, err))
        /\ ~Refuse(c, err).connected
    BY <1>1, <1>2, OpeningCloses DEF Refuse
  <2> QED
    BY <2>1, HandWaits
<1>3. CASE c.orglisten
  <2>1. Refuse(c, err) = u
    BY <1>3 DEF Refuse
  <2>2. Keeps(c, d, {"inprog", "fd"})
    BY <1>1 DEF Full, Keeps
  <2> HIDE DEF d
  <2>3. /\ MiscOK(p, d) /\ SendTypes(d) /\ RecvTypes(d) /\ Fresh(d) /\ d.state = c.state
        /\ d.connected = c.connected /\ d.sent = c.sent /\ d.got = c.got /\ d.ended = c.ended
    <3>1. {"inprog", "fd"} \cap MiscFields = {}
      BY DEF MiscFields
    <3>2. MiscOK(p, d) /\ d.connected = c.connected /\ d.state = c.state
      BY <1>1, <2>2, <3>1, MiscFrame DEF Opening
    <3>3. /\ d.UNA = c.UNA /\ d.NXT = c.NXT /\ d.TRM = c.TRM /\ d.cwnd = c.cwnd
          /\ d.cthresh = c.cthresh /\ d.sent = c.sent /\ d.ended = c.ended /\ d.sendq = c.sendq
          /\ d.finsent = c.finsent
          /\ d.LO = c.LO /\ d.RCV = c.RCV /\ d.HI = c.HI /\ d.advseq = c.advseq
          /\ d.finrecv = c.finrecv /\ d.got = c.got /\ d.rcvd = c.rcvd /\ d.adv = c.adv
          /\ d.eof = c.eof /\ d.shut = c.shut /\ d.reading = c.reading /\ d.writing = c.writing
          /\ d.ioctl = c.ioctl
      BY <2>2 DEF Keeps, Names
    <3> QED
      BY <1>1, <3>2, <3>3 DEF Opening, SendTypes, RecvTypes, Fresh
  <2>4. d.state # "CLOSED" /\ ~d.connected
    BY <1>1, <2>3 DEF Opening, Handshake
  <2>5. Over(p, o, t, q) /\ ~t.connected
    BY <2>3, <2>4, FreshCloses
  <2> HIDE DEF t
  <2>10. Hand(p, o, u)
    BY <2>5, OverStarts
  <2> HIDE DEF u
  <2>11. Grows(o, c, u)
    <3>1. u.sent \in Nat /\ u.got = <<>>
      BY <2>10 DEF Hand, Opening, SendTypes, Fresh
    <3>2. Len(<<>>) \in Nat
      OBVIOUS
    <3> QED
      BY <1>1, <3>1, <3>2, FreshGrows DEF Opening
  <2> QED
    BY <2>1, <2>10, <2>11, HandWaits
<1> QED
  BY <1>2, <1>3

LEMMA OpeningOver ==
  ASSUME NEW p \in Peer, NEW o \in Peer, NEW c, NEW q, Hand(p, o, c), NEW err
  PROVE  Waits(p, o, c, tcp_close_connection(c, err), q)
<1> DEFINE t == tcp_close_connection(c, err)
<1>1. Over(p, o, t, q) /\ Grows(o, c, t) /\ ~t.connected
  BY OpeningCloses DEF Hand
<1> QED
  BY <1>1, HandWaits

(* A connection that was just made has told nothing. *)
LEMMA JoinedSure ==
  ASSUME NEW p \in Peer, NEW o \in Peer, NEW c, NEW u, NEW q, Opening(p, o, c),
         Live(p, o, u, q), u.eof = FALSE, u.shut = "no"
  PROVE  Sure(p, c, u, q)
<1>1. c.eof = FALSE /\ ~Gone(c) /\ ~Gone(u)
  BY DEF Opening, Fresh, Live, Connected, Gone
<1> QED
  BY <1>1 DEF Sure, Told

(* SYN_RECEIVED: the SYN is acknowledged, and the segment is taken in the new state. *)
LEMMA Received ==
  ASSUME NEW p \in Peer, NEW o \in Peer, NEW c, NEW q, Hand(p, o, c), c.state = "SYN_RECEIVED",
         Room(p, q), NEW s \in Segment, Truth(o, p, s, q)
  PROVE  Does(p, o, c, InSynReceived(c, s), q)
<1> DEFINE e == [c EXCEPT !.state = "ESTABLISHED"]
           r == tcp_release_retrans(e, s.ack, s.wnd)
           u == tcp_restart_connect(r)
<1>1. CASE ~Acceptable(c, s)
  <2>1. InSynReceived(c, s) \in {c, AckBack(c)}
    BY <1>1 DEF InSynReceived
  <2> QED
    BY <2>1, HandStays DEF Waits
<1>2. CASE Acceptable(c, s) /\ (Has(s, "RST") \/ (Has(s, "SYN") /\ GEmod4G(s.seq, c.RCV)))
  <2>1. InSynReceived(c, s) \in {Refuse(c, "ECONNREFUSED"), Refuse(c, "ECONNRESET")}
    BY <1>2 DEF InSynReceived
  <2> QED
    BY <2>1, Refused DEF Waits
<1>3. CASE /\ Acceptable(c, s) /\ ~(Has(s, "RST") \/ (Has(s, "SYN") /\ GEmod4G(s.seq, c.RCV)))
           /\ ~(Has(s, "ACK") /\ Lmod4G(c.UNA, s.ack) /\ LEmod4G(s.ack, c.NXT))
  <2>1. InSynReceived(c, s) \in {c, tcp_conn_write(create_RST(c, s))}
    BY <1>3 DEF InSynReceived
  <2> QED
    BY <2>1, HandStays, OpeningReset DEF Waits
<1>4. CASE /\ Acceptable(c, s) /\ ~(Has(s, "RST") \/ (Has(s, "SYN") /\ GEmod4G(s.seq, c.RCV)))
           /\ Has(s, "ACK") /\ Lmod4G(c.UNA, s.ack) /\ LEmod4G(s.ack, c.NXT)
  <2>1. InSynReceived(c, s) = InEstablished(u, s)
    BY <1>4 DEF InSynReceived
  <2>2. Opening(p, o, c) /\ MiscOK(p, c) /\ SendTypes(c) /\ RecvTypes(c) /\ Fresh(c) /\ Full(c)
    BY DEF Hand, Opening, MiscOK
  <2>3. s.ack \in Num /\ s.wnd \in 0 .. RCV_WND
    BY DEF Segment, Num
  <2>4. 1 <= Pos(p, s.ack) /\ Pos(p, s.ack) <= Heard(p, q)
    BY <1>4 DEF Truth
  <2>5. 2 * Pos(p, s.ack) < SeqSpace /\ 1 <= Heard(p, q) /\ q.sent \in Nat
    <3>1. Heard(p, q) \in Nat /\ 2 * (Heard(p, q) + SND_WND + RCV_WND + 2 * MSS + 2) <= SeqSpace
          /\ q.sent \in Nat
      BY DEF Room
    <3>2. Pos(p, s.ack) \in Int
      BY <2>3, PosType
    <3> QED
      BY <2>4, <3>1, <3>2, Space
  <2>6. /\ Keeps(c, r, {"state", "cthresh", "UNA", "TRM", "cwnd", "sendq"})
        /\ r.state = "ESTABLISHED" /\ r.cthresh \in Nat /\ r.UNA = s.ack /\ r.TRM = s.ack
        /\ r.cwnd \in Num /\ Pos(p, r.cwnd) = 1 + 2 * MSS /\ r.sendq = <<>>
        /\ Pos(p, s.ack) = 1
    BY <1>4, <2>2, <2>3, <2>5, SynReleased
  <2> HIDE DEF r
  <2>7. /\ r.iss = c.iss /\ r.tseq = c.tseq /\ r.wcount = c.wcount /\ r.rcount = c.rcount
        /\ r.posted = c.posted /\ r.connected = c.connected /\ r.frag = c.frag
        /\ r.finsent = c.finsent /\ r.writing = c.writing /\ r.reading = c.reading
        /\ r.open = c.open /\ r.ioctl = c.ioctl /\ r.fd = c.fd /\ r.PSH = c.PSH
        /\ r.NXT = c.NXT /\ r.LO = c.LO /\ r.RCV = c.RCV /\ r.HI = c.HI
        /\ r.sent = c.sent /\ r.ended = c.ended /\ r.advseq = c.advseq
        /\ r.finrecv = c.finrecv
        /\ r.got = c.got /\ r.rcvd = c.rcvd /\ r.adv = c.adv
    BY <2>6 DEF Keeps, Names
  <2>8. MiscOK(p, r)
    BY <2>2, <2>6, <2>7 DEF MiscOK, Keeps
  <2>9. MiscOK(p, u) /\ u.connected = TRUE
    BY <2>6, <2>8, RestartMisc
  <2>10. Keeps(r, u, OpenFields)
    BY <2>6, <2>8, RestartOpen DEF MiscOK
  <2> HIDE DEF u
  <2>11. /\ u.UNA = r.UNA /\ u.TRM = r.TRM /\ u.NXT = r.NXT /\ u.cwnd = r.cwnd
         /\ u.cthresh = r.cthresh /\ u.sent = r.sent /\ u.ended = r.ended /\ u.sendq = r.sendq
         /\ u.finsent = r.finsent /\ u.LO = r.LO /\ u.RCV = r.RCV /\ u.HI = r.HI
         /\ u.advseq = r.advseq /\ u.finrecv = r.finrecv /\ u.got = r.got /\ u.rcvd = r.rcvd
         /\ u.adv = r.adv /\ u.state = r.state
    BY <2>10 DEF Keeps, OpenFields, ReplyIoctlFields, Names
  <2>12. SendTypes(u) /\ RecvTypes(u)
    BY <2>2, <2>3, <2>6, <2>7, <2>11 DEF SendTypes, RecvTypes
  <2>13. /\ u.sent = 0 /\ ~u.ended /\ ~u.finsent /\ ~u.finrecv
         /\ u.got = <<>> /\ u.rcvd = <<>> /\ u.adv = <<>> /\ u.sendq = <<>>
    BY <2>2, <2>6, <2>7, <2>11 DEF Fresh
  <2>14. /\ Pos(p, u.UNA) = 1 /\ Pos(p, u.TRM) = 1 /\ Pos(p, u.NXT) = 1
         /\ Pos(p, u.cwnd) = 1 + 2 * MSS
         /\ u.LO = u.RCV /\ Pos(o, u.RCV) = 1 /\ Pos(o, u.HI) = 1 + RCV_WND
    BY <2>2, <2>6, <2>7, <2>11 DEF Opening
  <2>15. 1 <= 1 + 2 * MSS /\ 1 + 2 * MSS <= 1 + 2 * MSS + RCV_WND
    BY Space
  <2>16. Connected(u)
    BY <2>6, <2>11 DEF Connected
  <2>17. Live(p, o, u, q)
    BY <2>5, <2>9, <2>12, <2>13, <2>14, <2>15, <2>16, JoinedLive
  <2>18. Grows(o, c, u)
    <3>1. u.sent \in Nat /\ u.got = <<>>
      BY <2>12, <2>13 DEF SendTypes
    <3>2. Len(<<>>) \in Nat
      OBVIOUS
    <3> QED
      BY <2>2, <3>1, <3>2, FreshGrows DEF Opening
  <2>19. Sure(p, c, u, q)
    <3>1. u.eof = r.eof /\ r.eof = c.eof /\ r.shut = c.shut
      BY <2>6, <2>10 DEF Keeps, OpenFields, ReplyIoctlFields, Names
    <3>2. r.ioctl # "SHUTDOWN" /\ c.eof = FALSE /\ c.shut = "no"
      BY <2>2, <2>7 DEF Fresh
    <3>3. u.shut = r.shut
      BY <2>6, <2>8, <3>2, RestartOpen DEF MiscOK, u
    <3> QED
      BY <2>2, <2>17, <3>1, <3>2, <3>3, JoinedSure
  <2> DEFINE v == InEstablished(u, s)
  <2>20. Settles(p, o, u, v, q)
    BY <2>17, LiveSegment
  <2>21. u.eof \in BOOLEAN => Tells(p, u, v, q)
    BY <2>13, <2>17, SegmentTells DEF Clean
  <2> HIDE DEF v
  <2>22. Does(p, o, c, u, q) /\ Does(p, o, u, v, q)
    BY <2>17, <2>18, <2>19, <2>20, <2>21, SettlesDo DEF Does, Goes, Good
  <2>23. Does(p, o, c, v, q)
    BY <2>22, DoesTrans DEF Good
  <2> QED
    BY <2>1, <2>23 DEF v
<1> QED
  BY <1>1, <1>2, <1>3, <1>4

\* What the other side's SYN says of its stream.
LEMMA Synced ==
  ASSUME NEW o \in Peer
  PROVE  /\ Add(ISS[o], 1) \in Num /\ Pos(o, Add(ISS[o], 1)) = 1
         /\ Add(ISS[o], 1 + RCV_WND) \in Num /\ Pos(o, Add(ISS[o], 1 + RCV_WND)) = 1 + RCV_WND
<1>1. ASSUME NEW k \in Int, 0 <= k, k <= 1 + RCV_WND
      PROVE  Add(ISS[o], k) \in Num /\ Pos(o, Add(ISS[o], k)) = k
  <2>1. - SeqSpace <= k /\ k <= SeqSpace /\ 0 <= 0 + k /\ 0 + k < SeqSpace
    BY <1>1, SpaceBig, Space
  <2>2. Add(ISS[o], k) \in Num /\ Pos(o, Add(ISS[o], k)) = 0 + k
    BY <2>1, PosStart, PosAdd
  <2> QED
    BY <2>2
<1> DEFINE i == 1
           j == 1 + RCV_WND
<1>2. i \in Int /\ 0 <= i /\ i <= 1 + RCV_WND /\ j \in Int /\ 0 <= j /\ j <= 1 + RCV_WND
  BY Space
<1> HIDE DEF i, j
<1>3. /\ Add(ISS[o], i) \in Num /\ Pos(o, Add(ISS[o], i)) = i
      /\ Add(ISS[o], j) \in Num /\ Pos(o, Add(ISS[o], j)) = j
  BY <1>1, <1>2
<1> QED
  BY <1>3 DEF i, j

(* SYN_SENT: the other side's SYN, with or without an acknowledgement of ours. *)
LEMMA SynSent ==
  ASSUME NEW p \in Peer, NEW o \in Peer, NEW c, NEW q, Hand(p, o, c), c.state = "SYN_SENT",
         ~c.more, Room(p, q), NEW s \in Segment, Truth(o, p, s, q)
  PROVE  Does(p, o, c, InSynSent(c, s), q)
<1> DEFINE bad == LEmod4G(s.ack, c.iss) \/ Gmod4G(s.ack, c.NXT)
           ok == Has(s, "ACK") /\ LEmod4G(c.UNA, s.ack) /\ LEmod4G(s.ack, c.NXT)
           synced == [c EXCEPT !.LO = Add(s.seq, 1), !.RCV = Add(s.seq, 1),
                               !.HI = Add(s.seq, 1 + RCV_WND),
                               !.UNA = IF Has(s, "ACK") THEN s.ack ELSE @]
           e == [synced EXCEPT !.state = "ESTABLISHED"]
           u == tcp_restart_connect(e)
           up == AckBack(u)
           d == [synced EXCEPT !.state = "SYN_RECEIVED", !.TRM = c.iss]
           t == tcp_conn_write(d)
<1>1. /\ Opening(p, o, c) /\ MiscOK(p, c) /\ SendTypes(c) /\ RecvTypes(c) /\ Fresh(c) /\ Full(c)
      /\ c.iss = ISS[p] /\ c.UNA = ISS[p] /\ ~c.connected /\ c.TRM = c.NXT /\ Pos(p, c.NXT) = 1
      /\ 1 <= Pos(p, c.cwnd) /\ Pos(p, c.cwnd) <= 2 * MSS + RCV_WND
  BY DEF Hand, Opening, MiscOK
<1>2. CASE (Has(s, "ACK") /\ bad) \/ Has(s, "RST") \/ ~Has(s, "SYN")
  <2>1. InSynSent(c, s) \in {c, tcp_conn_write(create_RST(c, s)),
                             tcp_close_connection(c, "ECONNREFUSED")}
    BY <1>2 DEF InSynSent
  <2> QED
    BY <2>1, HandStays, OpeningReset, OpeningOver DEF Waits
<1>3. CASE ~((Has(s, "ACK") /\ bad) \/ Has(s, "RST") \/ ~Has(s, "SYN"))
  <2>1. s.seq = ISS[o] /\ s.data = <<>>
    BY <1>3 DEF Truth, Spoken
  <2>2. /\ Add(ISS[o], 1) \in Num /\ Pos(o, Add(ISS[o], 1)) = 1
        /\ Add(ISS[o], 1 + RCV_WND) \in Num /\ Pos(o, Add(ISS[o], 1 + RCV_WND)) = 1 + RCV_WND
        /\ ISS[p] \in Num /\ Pos(p, ISS[p]) = 0
    BY Synced, PosStart
  <2>3. /\ Keeps(c, synced, {"LO", "RCV", "HI", "UNA"})
        /\ synced.LO = Add(ISS[o], 1) /\ synced.RCV = Add(ISS[o], 1)
        /\ synced.HI = Add(ISS[o], 1 + RCV_WND)
        /\ synced.UNA = (IF Has(s, "ACK") THEN s.ack ELSE c.UNA)
    <3>1. Keeps(c, synced, {"LO", "RCV", "HI", "UNA"})
      BY <1>1 DEF Full, Keeps
    <3> QED
      BY <1>1, <2>1, <3>1 DEF Full, Names
  <2>4. InSynSent(c, s) = IF Gmod4G(synced.UNA, c.iss) THEN up ELSE t
    BY <1>3, <2>1 DEF InSynSent
  <2>5. s.ack \in Num
    BY DEF Segment, Num
  <2>6. Heard(p, q) \in Nat /\ 2 * (Heard(p, q) + SND_WND + RCV_WND + 2 * MSS + 2) <= SeqSpace
        /\ q.sent \in Nat
    BY DEF Room
  <2>7. CASE Has(s, "ACK")
    <3>1. 1 <= Pos(p, s.ack) /\ Pos(p, s.ack) <= Heard(p, q)
      BY <1>3, <2>7 DEF Truth
    <3>2. 2 * Pos(p, s.ack) < SeqSpace /\ 1 <= Heard(p, q) /\ Pos(p, s.ack) \in Int
          /\ 2 * 1 < SeqSpace /\ 2 * 0 < SeqSpace
      <4>1. Pos(p, s.ack) \in Int
        BY <2>5, PosType
      <4> QED
        BY <2>6, <3>1, <4>1, Space
    <3>3. Near(p, s.ack) /\ Near(p, c.NXT) /\ Near(p, c.iss)
      BY <1>1, <2>2, <2>5, <3>2 DEF Near, SendTypes
    <3>4. Pos(p, s.ack) = 1
      <4>1. Gmod4G(s.ack, c.NXT) <=> Pos(p, s.ack) > Pos(p, c.NXT)
        BY <3>3, Compare
      <4>2. ~Gmod4G(s.ack, c.NXT)
        BY <1>3, <2>7
      <4> QED
        BY <1>1, <3>1, <3>2, <4>1, <4>2
    <3>5. Gmod4G(synced.UNA, c.iss)
      <4>1. Gmod4G(s.ack, c.iss) <=> Pos(p, s.ack) > Pos(p, c.iss)
        BY <3>3, Compare
      <4>2. Pos(p, c.iss) = 0
        BY <1>1, <2>2
      <4> QED
        BY <2>3, <2>7, <3>4, <4>1, <4>2
    <3>6. synced.UNA = s.ack
      BY <2>3, <2>7
    <3> HIDE DEF synced
    <3>7. Keeps(synced, e, {"state"}) /\ e.state = "ESTABLISHED"
      BY <2>3 DEF Full, Keeps, Names
    <3> HIDE DEF e
    <3>8. /\ e.iss = c.iss /\ e.tseq = c.tseq /\ e.wcount = c.wcount /\ e.rcount = c.rcount
          /\ e.posted = c.posted /\ e.connected = c.connected /\ e.frag = c.frag
          /\ e.finsent = c.finsent /\ e.writing = c.writing /\ e.reading = c.reading
          /\ e.open = c.open /\ e.ioctl = c.ioctl /\ e.fd = c.fd /\ e.PSH = c.PSH
          /\ e.NXT = c.NXT /\ e.TRM = c.TRM /\ e.cwnd = c.cwnd /\ e.cthresh = c.cthresh
          /\ e.sent = c.sent /\ e.ended = c.ended /\ e.advseq = c.advseq
          /\ e.finrecv = c.finrecv /\ e.sendq = c.sendq
          /\ e.got = c.got /\ e.rcvd = c.rcvd /\ e.adv = c.adv
          /\ e.eof = c.eof /\ e.shut = c.shut
      BY <2>3, <3>7 DEF Keeps, Names
    <3>9. e.LO = synced.LO /\ e.RCV = synced.RCV /\ e.HI = synced.HI /\ e.UNA = synced.UNA
          /\ Full(e)
      BY <3>7 DEF Keeps, Names
    <3>10. MiscOK(p, e)
      BY <1>1, <3>8, <3>9 DEF MiscOK
    <3>11. MiscOK(p, u) /\ u.connected = TRUE
      BY <3>7, <3>10, RestartMisc
    <3>12. Keeps(e, u, OpenFields) /\ (e.ioctl # "SHUTDOWN" => u.shut = e.shut)
      BY <3>7, <3>10, RestartOpen DEF MiscOK
    <3> HIDE DEF u
    <3>13. /\ u.UNA = e.UNA /\ u.TRM = e.TRM /\ u.NXT = e.NXT /\ u.cwnd = e.cwnd
           /\ u.cthresh = e.cthresh /\ u.sent = e.sent /\ u.ended = e.ended /\ u.sendq = e.sendq
           /\ u.finsent = e.finsent /\ u.LO = e.LO /\ u.RCV = e.RCV /\ u.HI = e.HI
           /\ u.advseq = e.advseq /\ u.finrecv = e.finrecv /\ u.got = e.got /\ u.rcvd = e.rcvd
           /\ u.adv = e.adv /\ u.state = e.state
      BY <3>12 DEF Keeps, OpenFields, ReplyIoctlFields, Names
    <3>14. SendTypes(u) /\ RecvTypes(u)
      BY <1>1, <2>2, <2>3, <2>5, <3>6, <3>8, <3>9, <3>13 DEF SendTypes, RecvTypes
    <3>15. /\ u.sent = 0 /\ ~u.ended /\ ~u.finsent /\ ~u.finrecv
           /\ u.got = <<>> /\ u.rcvd = <<>> /\ u.adv = <<>> /\ u.sendq = <<>>
      BY <1>1, <3>8, <3>13 DEF Fresh
    <3>16. /\ Pos(p, u.UNA) = 1 /\ Pos(p, u.TRM) = 1 /\ Pos(p, u.NXT) = 1
           /\ u.cwnd = c.cwnd
           /\ u.LO = u.RCV /\ Pos(o, u.RCV) = 1 /\ Pos(o, u.HI) = 1 + RCV_WND
      BY <1>1, <2>2, <2>3, <3>4, <3>6, <3>8, <3>9, <3>13
    <3>17. 1 <= Pos(p, u.cwnd) /\ Pos(p, u.cwnd) <= 1 + 2 * MSS + RCV_WND
      <4>1. Pos(p, c.cwnd) \in Int
        BY <1>1, PosType DEF SendTypes
      <4> QED
        BY <1>1, <3>16, <4>1, Space
    <3>18. Connected(u)
      BY <3>7, <3>13 DEF Connected
    <3>19. Live(p, o, u, q)
      BY <2>6, <3>2, <3>11, <3>14, <3>15, <3>16, <3>17, <3>18, JoinedLive
    <3>20. Grows(o, c, u)
      <4>1. u.sent \in Nat /\ u.got = <<>>
        BY <3>14, <3>15 DEF SendTypes
      <4>2. Len(<<>>) \in Nat
        OBVIOUS
      <4> QED
        BY <1>1, <4>1, <4>2, FreshGrows
    <3>21. Settles(p, o, u, up, q) /\ (u.eof \in BOOLEAN => Tells(p, u, up, q))
      BY <3>19, LiveAckBack, MovesSettle, AckBackTells
    <3>24. Sure(p, c, u, q)
      <4>1. u.eof = FALSE /\ u.shut = "no"
        BY <1>1, <3>8, <3>12 DEF Fresh, Keeps, OpenFields, ReplyIoctlFields, Names
      <4> QED
        BY <1>1, <3>19, <4>1, JoinedSure
    <3> HIDE DEF up
    <3>22. Does(p, o, c, u, q) /\ Does(p, o, u, up, q)
      BY <3>19, <3>20, <3>21, <3>24, SettlesDo DEF Does, Goes, Good
    <3>23. Does(p, o, c, up, q)
      BY <3>22, DoesTrans DEF Good
    <3> QED
      BY <2>4, <3>5, <3>23
  <2>8. CASE ~Has(s, "ACK")
    <3>1. synced.UNA = c.iss
      BY <1>1, <2>3, <2>8
    <3>2. ~Gmod4G(synced.UNA, c.iss)
      <4>1. 2 * 0 < SeqSpace
        BY Space
      <4>2. Near(p, ISS[p])
        BY <2>2, <4>1 DEF Near
      <4>3. Gmod4G(ISS[p], ISS[p]) <=> Pos(p, ISS[p]) > Pos(p, ISS[p])
        BY <4>2, Compare
      <4> QED
        BY <1>1, <2>2, <3>1, <4>3
    <3> HIDE DEF synced
    <3>3. /\ Keeps(synced, d, {"state", "TRM"}) /\ d.state = "SYN_RECEIVED" /\ d.TRM = c.iss
      BY <2>3 DEF Full, Keeps, Names
    <3> HIDE DEF d
    <3>4. Keeps(d, t, {"more"})
      BY <3>3, FrameWrite DEF Keeps
    <3> HIDE DEF t
    <3>5. /\ t.iss = c.iss /\ t.tseq = c.tseq /\ t.wcount = c.wcount /\ t.rcount = c.rcount
          /\ t.posted = c.posted /\ t.connected = c.connected /\ t.frag = c.frag
          /\ t.finsent = c.finsent /\ t.writing = c.writing /\ t.reading = c.reading
          /\ t.open = c.open /\ t.ioctl = c.ioctl /\ t.fd = c.fd /\ t.PSH = c.PSH
          /\ t.NXT = c.NXT /\ t.cwnd = c.cwnd /\ t.cthresh = c.cthresh
          /\ t.sent = c.sent /\ t.ended = c.ended /\ t.advseq = c.advseq
          /\ t.finrecv = c.finrecv /\ t.sendq = c.sendq
          /\ t.got = c.got /\ t.rcvd = c.rcvd /\ t.adv = c.adv /\ t.eof = c.eof
          /\ t.shut = c.shut
      BY <2>3, <3>3, <3>4 DEF Keeps, Names
    <3>6. /\ t.LO = Add(ISS[o], 1) /\ t.RCV = Add(ISS[o], 1) /\ t.HI = Add(ISS[o], 1 + RCV_WND)
          /\ t.UNA = ISS[p] /\ t.TRM = ISS[p] /\ t.state = "SYN_RECEIVED" /\ Full(t)
      BY <1>1, <2>3, <3>1, <3>3, <3>4 DEF Keeps, Names
    <3>7. MiscOK(p, t)
      BY <1>1, <3>5, <3>6 DEF MiscOK
    <3>8. SendTypes(t) /\ RecvTypes(t) /\ Fresh(t)
      BY <1>1, <2>2, <3>5, <3>6 DEF SendTypes, RecvTypes, Fresh
    <3>9. Opening(p, o, t)
      BY <1>1, <2>2, <3>5, <3>6, <3>7, <3>8 DEF Opening, Handshake
    <3>10. Grows(o, c, t)
      <4>1. t.sent \in Nat /\ t.got = <<>>
        BY <3>8 DEF SendTypes, Fresh
      <4>2. Len(<<>>) \in Nat
        OBVIOUS
      <4> QED
        BY <1>1, <4>1, <4>2, FreshGrows
    <3>11. Waits(p, o, c, t, q)
      BY <3>6, <3>9, <3>10, HandWaits DEF Hand
    <3> QED
      BY <2>4, <3>2, <3>11 DEF Waits
  <2> QED
    BY <2>7, <2>8
<1> QED
  BY <1>2, <1>3

\* When the FIN has arrived and nothing waits, everything has been read.
LEMMA DrainedIs ==
  ASSUME NEW p \in Peer, NEW o \in Peer, NEW c, NEW q, Takes(o, c, q), Room(p, q)
  PROVE  c.finrecv /\ Len(c.rcvd) = 0 => q.ended /\ Len(c.got) = q.sent /\ q.sent \in Nat
<1> DEFINE l == Pos(o, c.LO)
           r == Pos(o, c.RCV)
           h == Pos(o, c.HI)
<1>1. /\ l \in Int /\ r \in Int /\ q.sent \in Nat
      /\ c.finrecv => q.ended /\ r = q.sent + 2
      /\ Len(c.got) = l - 1
  BY TakePlaces
<1>5. Len(c.rcvd) = r - One(c.finrecv) - l
  BY TakePlaces
<1> SUFFICES ASSUME c.finrecv, Len(c.rcvd) = 0
             PROVE  q.ended /\ Len(c.got) = q.sent /\ q.sent \in Nat
  OBVIOUS
<1>2. One(c.finrecv) = 1
  BY DEF One
<1> DEFINE g == Len(c.got)
<1>3. l \in Int /\ r \in Int /\ q.sent \in Nat /\ r = q.sent + 2 /\ g = l - 1 /\ 0 = r - 1 - l
  BY <1>1, <1>2, <1>5
<1> HIDE DEF l, r, g
<1>4. g = q.sent
  BY <1>3
<1> QED
  BY <1>1, <1>4 DEF g

(* The clean reset, which tells the truth unless it cuts something off. *)
LEMMA CleanSure ==
  ASSUME NEW p \in Peer, NEW o \in Peer, NEW c, NEW q, Live(p, o, c, q), Good(o, p, q, c),
         Room(p, q), c.finsent, c.finrecv,
         NEW t, t = tcp_close_connection(c, "OK"), ~CutOff(c, t, q)
  PROVE  Sure(p, c, t, q)
<1>1. /\ Full(c) /\ c.state # "CLOSED" /\ MiscOK(p, c) /\ Sends(p, c, q) /\ Takes(o, c, q)
      /\ SendTypes(c) /\ RecvTypes(c)
  BY DEF Live, MiscOK, Connected, Sends, Recvs, Takes
<1>2. Ended(c, t, "OK") /\ Replied(c, t, "OK")
  BY <1>1, CloseEnds
<1>3. /\ t.sent = c.sent /\ t.ended = c.ended /\ t.got = c.got /\ t.state = "CLOSED"
      /\ t.error = "OK" /\ t.open = c.open
  BY <1>1, <1>2, EndedTypes DEF Ended, Keeps, RestFields, AnswerFields, CutFields,
     ReplyReadFields, ReplyWriteFields, ReplyIoctlFields, Names
<1>4. c.open => AllRead(t, q) /\ Heeded(p, t, q)
  <2> SUFFICES ASSUME c.open PROVE AllRead(t, q) /\ Heeded(p, t, q)
    OBVIOUS
  <2>1. c.rcvd = <<>> /\ (c.UNA = c.NXT \/ ~Connected(q))
    BY <1>1, <1>3 DEF CutOff
  <2>2. AllRead(t, q)
    <3>1. Len(<<>>) = 0
      OBVIOUS
    <3>2. Len(c.rcvd) = 0
      BY <2>1, <3>1
    <3>3. q.ended /\ Len(c.got) = q.sent /\ q.sent \in Nat
      BY <1>1, <3>2, DrainedIs
    <3> QED
      BY <1>3, <3>3 DEF AllRead
  <2>3. Heeded(p, t, q)
    <3>1. c.ended
      BY <1>1, SentTo
    <3>2. CASE c.UNA = c.NXT
      BY <1>3, <3>1, <3>2, FinHeard DEF Heeded
    <3>3. CASE ~Connected(q)
      <4>1. q.ended
        BY <1>1, TakePlaces
      <4>2. Gone(q)
        BY <3>3, <4>1 DEF Good, Live, Hand, Opening, Over, Fresh, Gone
      <4> QED
        BY <1>3, <3>1, <4>2 DEF Heeded
    <3> QED
      BY <2>1, <3>2, <3>3
  <2> QED
    BY <2>2, <2>3
<1> SUFFICES ASSUME Told(p, c, q)
             PROVE  Told(p, t, q) /\ (c.eof => t.eof) /\ (Gone(c) => Gone(t))
  BY DEF Sure
<1>5. c.eof \in BOOLEAN /\ t.eof \in BOOLEAN /\ (c.eof => t.eof)
      /\ (t.eof => c.eof \/ c.open)
  <2>1. c.eof \in BOOLEAN
    BY DEF Told
  <2>2. t.eof = c.eof \/ (c.open /\ t.eof = (c.eof \/ TRUE))
    BY <1>1, <1>2 DEF Replied, MiscOK
  <2>3. CASE t.eof = c.eof
    BY <2>1, <2>3
  <2>4. CASE c.open /\ t.eof = (c.eof \/ TRUE)
    <3>1. t.eof = TRUE
      BY <2>1, <2>4
    <3> QED
      BY <2>1, <2>4, <3>1
  <2> QED
    BY <2>2, <2>3, <2>4
<1>6. t.eof => AllRead(t, q)
  BY <1>3, <1>4, <1>5 DEF Told, AllRead
<1>7. t.shut = "OK" => Heeded(p, t, q)
  <2>1. t.shut = c.shut \/ c.open
    BY <1>1, <1>2 DEF Replied, MiscOK
  <2> QED
    BY <1>3, <1>4, <2>1 DEF Told, Heeded
<1>8. ~Gone(c)
  BY <1>1 DEF Gone
<1> QED
  BY <1>3, <1>4, <1>5, <1>6, <1>7, <1>8 DEF Told

\* What a segment, and what a step of a process does that may meet one.
Works(p, o, c, t, q) == Goes(p, o, c, t, q) /\ (~CutOff(c, t, q) => Sure(p, c, t, q))

(* A segment, whatever the state of the block it meets. *)
LEMMA GoodSegment ==
  ASSUME NEW p \in Peer, NEW o \in Peer, NEW c, NEW q, Good(p, o, c, q), Good(o, p, q, c),
         ~c.more, Room(p, q), NEW s \in Segment, Truth(o, p, s, q)
  PROVE  Works(p, o, c, tcp_frag2conn(c, s), q)
<1>1. CASE c.state = "CLOSED"
  <2>1. Over(p, o, c, q)
    BY <1>1 DEF Good, Live, Connected, Hand, Opening, Handshake
  <2>2. tcp_frag2conn(c, s) = InClosed(c, s)
    BY <1>1 DEF tcp_frag2conn, NoConn
  <2>3. InClosed(c, s) \in {c, tcp_conn_write(create_RST(c, s))}
    BY DEF InClosed
  <2> QED
    BY <2>1, <2>2, <2>3, OverStays, OverReset DEF Stays, Does, Works
<1>2. CASE c.state \in Handshake
  <2>1. Hand(p, o, c)
    BY <1>2 DEF Good, Live, Connected, Over, Handshake
  <2>2. CASE c.state = "LISTEN" /\ ~Has(s, "SYN")
    <3>1. tcp_frag2conn(c, s) = InClosed(c, s)
      BY <2>2 DEF tcp_frag2conn, NoConn
    <3>2. InClosed(c, s) \in {c, tcp_conn_write(create_RST(c, s))}
      BY DEF InClosed
    <3> QED
      BY <2>1, <3>1, <3>2, HandStays, OpeningReset DEF Waits, Does, Works
  <2>3. CASE c.state = "LISTEN" /\ Has(s, "SYN")
    <3>1. tcp_frag2conn(c, s) = InListen(c, s)
      BY <2>3 DEF tcp_frag2conn, NoConn
    <3> QED
      BY <2>1, <2>3, <3>1, Listened DEF Waits, Does, Works
  <2>4. CASE c.state = "SYN_SENT"
    <3>1. tcp_frag2conn(c, s) = InSynSent(c, s)
      BY <2>4 DEF tcp_frag2conn, NoConn
    <3> QED
      BY <2>1, <2>4, <3>1, SynSent DEF Does, Works
  <2>5. CASE c.state = "SYN_RECEIVED"
    <3>1. tcp_frag2conn(c, s) = InSynReceived(c, s)
      BY <2>5 DEF tcp_frag2conn, NoConn
    <3> QED
      BY <2>1, <2>5, <3>1, Received DEF Does, Works
  <2> QED
    BY <1>2, <2>2, <2>3, <2>4, <2>5 DEF Handshake
<1>3. CASE Connected(c)
  <2>1. Live(p, o, c, q)
    BY <1>3 DEF Good, Over, Hand, Opening, Connected, Handshake
  <2>2. tcp_frag2conn(c, s) = InEstablished(c, s)
    BY <1>3 DEF tcp_frag2conn, NoConn, Connected
  <2> DEFINE t == InEstablished(c, s)
  <2>3. Settles(p, o, c, t, q)
    BY <2>1, LiveSegment
  <2>4. CASE ~Clean(c, s)
    <3>1. c.eof \in BOOLEAN => Tells(p, c, t, q)
      BY <2>1, <2>4, SegmentTells
    <3> HIDE DEF t
    <3>2. Does(p, o, c, t, q)
      BY <2>1, <2>3, <3>1, SettlesDo
    <3> QED
      BY <2>2, <3>2 DEF t, Does, Works
  <2>5. CASE Clean(c, s)
    <3>1. t = tcp_close_connection(c, "OK") /\ c.finsent /\ c.finrecv
      BY <2>5 DEF InEstablished, Clean
    <3> HIDE DEF t
    <3>2. ~CutOff(c, t, q) => Sure(p, c, t, q)
      BY <2>1, <3>1, CleanSure
    <3>3. Goes(p, o, c, t, q)
      BY <2>3, SettlesGo
    <3> QED
      BY <2>2, <3>2, <3>3 DEF t, Works
  <2> QED
    BY <2>4, <2>5
<1> QED
  BY <1>1, <1>2, <1>3 DEF Good, Live, Over, Hand, Opening

\* What p may have under way to o: segments that are true of its block.
Said(p, o, c) == {s \in Segment : Truth(p, o, s, c)}

(* What make_pack() makes during the handshake. *)
LEMMA HandPack ==
  ASSUME NEW p \in Peer, NEW o \in Peer, NEW c, Opening(p, o, c),
         NEW m, m = make_pack(c)
  PROVE  /\ Opening(p, o, m[1]) /\ Grows(o, c, m[1])
         /\ m[2].some => m[2].seg \in Said(p, o, c)
         /\ m[2].some /\ c.state = "SYN_SENT" => m[1].TRM = m[1].NXT
         /\ ~m[2].some /\ c.state = "SYN_SENT" => c.TRM = c.NXT
<1>1. /\ MiscOK(p, c) /\ Full(c) /\ SendTypes(c) /\ RecvTypes(c) /\ c.state \in Handshake
      /\ c.iss = ISS[p] /\ ~c.connected /\ c.sent = 0 /\ ~c.ended
  BY DEF Opening, MiscOK, Fresh
<1>2. c.TRM \in Num /\ c.NXT \in Num /\ c.RCV \in Num
  BY <1>1 DEF SendTypes, RecvTypes
<1>3. CASE c.state = "LISTEN"
  <2>1. m[1] = c /\ ~m[2].some
    BY <1>3 DEF make_pack, Nothing
  <2>2. c.sent \in Nat /\ Len(c.got) \in Nat /\ Fresh(c)
    <3>1. c.got = <<>> /\ Fresh(c)
      BY DEF Opening, Fresh
    <3>2. Len(<<>>) \in Nat
      OBVIOUS
    <3> QED
      BY <1>1, <3>1, <3>2
  <2> QED
    BY <1>1, <1>3, <2>1, <2>2, FreshGrows
<1>4. CASE c.state \in {"SYN_SENT", "SYN_RECEIVED"}
  <2> DEFINE syn == c.TRM = c.iss
             fl == (IF c.state = "SYN_SENT" THEN {} ELSE {"ACK"})
                   \cup (IF syn THEN {"SYN"} ELSE {})
             g == [seq |-> c.TRM, ack |-> c.RCV, flags |-> fl, wnd |-> MSS, data |-> <<>>]
             tr == IF syn THEN Add(c.TRM, 1) ELSE c.TRM
             t == [c EXCEPT !.sendack = FALSE, !.TRM = tr]
  <2>1. m = IF c.TRM = c.NXT /\ ~c.sendack THEN <<c, Nothing>>
            ELSE <<t, [some |-> TRUE, seg |-> g]>>
    BY <1>4 DEF make_pack, HandshakePack
  <2>2. Pos(p, c.TRM) \in Int /\ 0 <= Pos(p, c.TRM) /\ Pos(p, c.TRM) <= 1 /\ Pos(p, c.NXT) = 1
    BY <1>2, PosType DEF Opening
  <2>3. ~syn => c.TRM = c.NXT
    <3>1. ASSUME ~syn PROVE Pos(p, c.TRM) # 0
      BY <1>1, <1>2, <3>1, PosStart, PosSame
    <3>2. ASSUME ~syn PROVE Pos(p, c.TRM) = Pos(p, c.NXT)
      BY <2>2, <3>1, <3>2
    <3> QED
      BY <1>2, <3>2, PosSame
  <2>4. syn => tr \in Num /\ Pos(p, tr) = 1
    <3> DEFINE k == 1
    <3>1. k \in Int /\ - SeqSpace <= k /\ k <= SeqSpace /\ 0 <= 0 + k /\ 0 + k < SeqSpace
      BY SpaceBig, Space
    <3>2. ISS[p] \in Num /\ Pos(p, ISS[p]) = 0
      BY PosStart
    <3> HIDE DEF k
    <3>3. Add(ISS[p], k) \in Num /\ Pos(p, Add(ISS[p], k)) = 0 + k
      BY <3>1, <3>2, PosAdd
    <3> QED
      BY <1>1, <3>3 DEF k
  <2>5. tr = c.NXT /\ tr \in Num /\ Pos(p, tr) = 1
    <3>1. CASE syn
      BY <1>2, <2>2, <2>4, <3>1, PosSame
    <3>2. CASE ~syn
      BY <1>2, <2>2, <2>3, <3>2
    <3> QED
      BY <3>1, <3>2
  <2> HIDE DEF tr
  <2>6. Keeps(c, t, PackFields) /\ t.TRM = tr
    <3>1. Keeps(c, t, PackFields)
      BY <1>1 DEF Full, Keeps, PackFields
    <3>2. t.TRM = tr
      BY <1>1 DEF Full, Names
    <3> QED
      BY <3>1, <3>2
  <2> HIDE DEF t
  <2>7. /\ t.frag = c.frag /\ t.tseq = c.tseq /\ t.cwnd = c.cwnd /\ t.cthresh = c.cthresh
        /\ t.NXT = c.NXT
    BY <2>6 DEF Keeps, PackFields, Names
  <2>8. Opening(p, o, t) /\ Grows(o, c, t)
    <3>1. PackFields \cap (OpenFixed \ {"frag", "tseq", "TRM", "cwnd", "cthresh"}) = {}
      BY DEF PackFields, OpenFixed, LiveFields, MiscFields, SendFields, RecvFields, TakeFields
    <3>2. /\ FragOK(t.frag) /\ t.tseq \in Num /\ t.TRM \in Num /\ t.cwnd \in Num
          /\ t.cthresh \in Nat /\ Pos(p, t.TRM) <= 1 /\ 1 <= Pos(p, t.cwnd)
          /\ Pos(p, t.cwnd) <= 2 * MSS + RCV_WND
      BY <1>1, <2>5, <2>6, <2>7 DEF MiscOK, SendTypes, Opening
    <3> QED
      BY <2>6, <3>1, <3>2, OpeningFrame
  <2>9. Opening(p, o, c) /\ Grows(o, c, c)
    <3>1. c.sent \in Nat /\ Len(c.got) \in Nat /\ Fresh(c)
      <4>1. c.got = <<>> /\ Fresh(c)
        BY DEF Opening, Fresh
      <4>2. Len(<<>>) \in Nat
        OBVIOUS
      <4> QED
        BY <1>1, <4>1, <4>2
    <3> QED
      BY <1>1, <3>1, FreshGrows
  <2>10. g \in Said(p, o, c)
    <3>1. g \in Segment
      <4>1. fl \in SUBSET {"SYN", "ACK", "FIN", "RST", "PSH"} /\ <<>> \in Seq(Nat)
        OBVIOUS
      <4>2. MSS \in 0 .. RCV_WND
        BY Space
      <4> QED
        BY <1>2, <4>1, <4>2 DEF Segment, Num
    <3>2. Len(g.data) = 0 /\ g.data = <<>>
      OBVIOUS
    <3>3. Has(g, "SYN") => syn
      BY DEF Has
    <3>4. Has(g, "ACK") => c.state = "SYN_RECEIVED"
      BY <1>4 DEF Has
    <3>5. ~Has(g, "FIN")
      BY DEF Has
    <3>6. Spoken(p, g, c)
      <4>1. One(c.ended) = 0
        BY <1>1 DEF One
      <4>2. Pos(p, g.seq) + Len(g.data) <= c.sent + 1 + One(c.ended)
        BY <1>1, <2>2, <3>2, <4>1
      <4>3. Has(g, "SYN") => g.seq = ISS[p]
        BY <1>1, <3>3
      <4> HIDE DEF g
      <4> QED
        BY <3>2, <3>5, <4>2, <4>3 DEF Spoken
    <3>7. Has(g, "ACK") => 1 <= Pos(o, g.ack) /\ Pos(o, g.ack) <= Heard(o, c)
      <4>1. c.state = "SYN_RECEIVED" => Pos(o, c.RCV) = 1
        BY DEF Opening
      <4>2. g.ack = c.RCV /\ Heard(o, c) = 1
        BY <1>1 DEF Heard
      <4> QED
        BY <3>4, <4>1, <4>2
    <3> HIDE DEF g
    <3> QED
      BY <3>1, <3>6, <3>7 DEF Said, Truth
  <2> HIDE DEF g
  <2>11. CASE c.TRM = c.NXT /\ ~c.sendack
    <3>1. m[1] = c /\ ~m[2].some
      BY <2>1, <2>11 DEF Nothing
    <3> QED
      BY <2>9, <2>11, <3>1
  <2>12. CASE ~(c.TRM = c.NXT /\ ~c.sendack)
    <3>1. m[1] = t /\ m[2].some /\ m[2].seg = g
      BY <2>1, <2>12
    <3> QED
      BY <2>5, <2>6, <2>7, <2>8, <2>10, <3>1
  <2> QED
    BY <2>11, <2>12
<1> QED
  BY <1>1, <1>3, <1>4 DEF Handshake

(* How far the next segment of a connection reaches. *)
LEMMA PackPlaces ==
  ASSUME NEW p \in Peer, NEW c, NEW q, Sends(p, c, q), Room(p, q), NEW d, d = DataPack(c), ~d.none
  PROVE  /\ d.hi \in Num /\ Pos(p, d.hi) \in Int
         /\ Pos(p, c.TRM) <= Pos(p, d.hi) /\ Pos(p, d.hi) <= Pos(p, c.NXT)
         /\ Pos(p, d.hi) <= Pos(p, c.cwnd)
         /\ \E D \in Int : /\ Pos(p, c.TRM) <= D /\ D <= 1 + c.sent
                           /\ d.data = Run(Pos(p, c.TRM) - 1, D - 1)
                           /\ "FIN" \in d.flags => D = 1 + c.sent /\ c.finsent
         /\ d.flags \subseteq {"FIN", "PSH"}
<1> DEFINE u == Pos(p, c.UNA)
           t == Pos(p, c.TRM)
           n == Pos(p, c.NXT)
           w == Pos(p, c.cwnd)
           a == Acked(p, c)
           f == One(c.finsent)
           fin == c.finsent /\ c.TRM # c.NXT
           top == IF c.finsent THEN Add(c.NXT, -1) ELSE c.NXT
           lo == IF c.finsent /\ c.TRM = c.NXT THEN top ELSE c.TRM
           toolong == Diff(top, lo) > MSS - HDR
           hi1 == IF toolong THEN Add(lo, MSS - HDR) ELSE c.NXT
           data1 == IF toolong THEN hi1 ELSE top
           beyond == Gmod4G(hi1, c.cwnd)
           hi == IF beyond THEN c.cwnd ELSE hi1
           hidata == IF beyond THEN c.cwnd ELSE data1
           none == \/ c.UNA = c.NXT
                   \/ c.TRM = c.cwnd
                   \/ hi = c.TRM
                   \/ c.TRM # c.UNA /\ Diff(hidata, lo) + HDR < MSS
           psh == Gmod4G(c.PSH, lo) /\ LEmod4G(c.PSH, hidata)
           flags == (IF fin /\ ~toolong /\ ~beyond THEN {"FIN"} ELSE {})
                    \cup (IF psh THEN {"PSH"} ELSE {})
           data == SubSeq(c.sendq, Diff(lo, c.UNA) + 1, Diff(hidata, c.UNA))
<1>1. d.none = none /\ d.hi = hi /\ d.flags = flags /\ d.data = data
  BY DEF DataPack
<1>2. /\ u \in Int /\ t \in Int /\ n \in Int /\ w \in Int
      /\ 1 <= u /\ u <= t /\ t <= n /\ t <= w
      /\ n = 1 + c.sent + f /\ c.sent \in Nat /\ (f = 0 \/ f = 1)
      /\ Near(p, c.UNA) /\ Near(p, c.TRM) /\ Near(p, c.NXT) /\ Near(p, c.cwnd)
      /\ a = (IF c.finsent /\ u = n THEN c.sent ELSE u - 1)
  BY SendPlaces DEF One
<1>3. c.sendq = Run(a, c.sent) /\ c.finsent \in BOOLEAN /\ (c.finsent => f = 1) /\ (~c.finsent => f = 0)
  BY DEF Sends, SendTypes, One
<1>4. c.UNA \in Num /\ c.TRM \in Num /\ c.NXT \in Num /\ c.cwnd \in Num /\ 2 * n < SeqSpace /\ 2 * w < SeqSpace
  BY <1>2 DEF Near
<1>5. (c.UNA = c.NXT <=> u = n) /\ (c.TRM = c.NXT <=> t = n)
  BY <1>4, PosSame
<1> HIDE DEF none, hi, flags, data
<1>6. u # n /\ a = u - 1 /\ hi # c.TRM
  BY <1>1, <1>2, <1>5 DEF none
<1> HIDE DEF u, t, n, w, a, f
<1>7. top \in Num /\ Pos(p, top) = 1 + c.sent /\ Near(p, top)
  <2>1. CASE c.finsent
    <3> DEFINE k == -1
    <3>1. k \in Int /\ - SeqSpace <= k /\ k <= SeqSpace /\ 0 <= n + k /\ n + k < SeqSpace
          /\ n + k = 1 + c.sent
      BY <1>2, <1>3, <1>4, <2>1, Space
    <3> HIDE DEF k
    <3>2. Add(c.NXT, k) \in Num /\ Pos(p, Add(c.NXT, k)) = n + k
      BY <1>4, <3>1, PosAdd DEF n
    <3>3. top = Add(c.NXT, k)
      BY <2>1 DEF k
    <3>4. 2 * (1 + c.sent) < SeqSpace
      BY <1>2, <1>4, Space
    <3> HIDE DEF top
    <3> QED
      BY <3>1, <3>2, <3>3, <3>4 DEF Near
  <2>2. CASE ~c.finsent
    <3>1. n = 1 + c.sent
      BY <1>2, <1>3, <2>2
    <3> QED
      BY <1>2, <1>4, <2>2, <3>1 DEF n
  <2> QED
    BY <1>3, <2>1, <2>2
<1> HIDE DEF top
<1>8. ASSUME c.finsent, c.TRM = c.NXT PROVE FALSE
  <2>1. lo = top
    BY <1>8
  <2> HIDE DEF lo
  <2>2. Diff(top, top) = 0
    <3>1. Pos(p, top) >= Pos(p, top) => Diff(top, top) = Pos(p, top) - Pos(p, top)
      BY <1>7, Compare
    <3> QED
      BY <1>2, <1>7, <3>1
  <2>3. ~toolong
    <3>1. MSS \in Nat /\ HDR \in Nat /\ HDR < MSS
      BY Space
    <3> QED
      BY <2>1, <2>2, <3>1
  <2> HIDE DEF toolong
  <2>4. hi1 = c.NXT
    BY <2>3
  <2> HIDE DEF hi1
  <2>5. Gmod4G(c.NXT, c.cwnd) <=> Pos(p, c.NXT) > Pos(p, c.cwnd)
    BY <1>2, Compare
  <2>6. t = n /\ n = Pos(p, c.NXT) /\ w = Pos(p, c.cwnd)
    BY <1>5, <1>8 DEF n, w
  <2>7. ~beyond
    BY <1>2, <2>4, <2>5, <2>6
  <2> HIDE DEF beyond
  <2> QED
    BY <1>6, <1>8, <2>4, <2>7 DEF hi
<1>9. lo = c.TRM /\ t <= 1 + c.sent
  <2>1. lo = c.TRM
    BY <1>8
  <2>2. c.finsent => t # n
    BY <1>5, <1>8
  <2> QED
    BY <1>2, <1>3, <2>1, <2>2
<1> HIDE DEF lo
<1>10. Diff(top, lo) = 1 + c.sent - t
  <2>1. Pos(p, top) >= Pos(p, c.TRM) => Diff(top, c.TRM) = Pos(p, top) - Pos(p, c.TRM)
    BY <1>2, <1>7, Compare
  <2> QED
    BY <1>2, <1>7, <1>9, <2>1 DEF t
<1> DEFINE g == MSS - HDR
           h1 == IF toolong THEN t + g ELSE n
           d1 == IF toolong THEN t + g ELSE 1 + c.sent
<1>11. g \in Int /\ 1 <= g /\ (toolong <=> 1 + c.sent - t > g)
  BY <1>10, Space
<1> HIDE DEF g, toolong
<1>12. toolong => t + g < 1 + c.sent
  BY <1>2, <1>11
<1>13. /\ hi1 \in Num /\ Pos(p, hi1) = h1 /\ Near(p, hi1)
       /\ data1 \in Num /\ Pos(p, data1) = d1 /\ Near(p, data1)
  <2>1. CASE toolong
    <3>0. t + g < SeqSpace /\ 2 * (t + g) < SeqSpace
      <4>1. t + g < 1 + c.sent /\ t + g <= n
        BY <1>2, <1>11, <1>12, <2>1
      <4> QED
        BY <1>2, <1>4, <1>11, <4>1, Space
    <3>1. - SeqSpace <= g /\ g <= SeqSpace /\ 0 <= t + g
      BY <1>2, <1>11, <3>0, Space
    <3>2. Add(c.TRM, g) \in Num /\ Pos(p, Add(c.TRM, g)) = t + g
      BY <1>4, <1>11, <3>0, <3>1, PosAdd DEF t
    <3>3. hi1 = Add(c.TRM, g) /\ data1 = Add(c.TRM, g)
      BY <1>9, <2>1 DEF g
    <3> HIDE DEF hi1, data1
    <3> QED
      BY <2>1, <3>0, <3>2, <3>3 DEF Near
  <2>2. CASE ~toolong
    <3>1. hi1 = c.NXT /\ data1 = top
      BY <2>2
    <3> HIDE DEF hi1, data1
    <3> QED
      BY <1>2, <1>4, <1>7, <2>2, <3>1 DEF n
  <2> QED
    BY <2>1, <2>2
<1> HIDE DEF hi1, data1
<1>14. h1 \in Int /\ d1 \in Int /\ t <= h1 /\ h1 <= n /\ t <= d1 /\ d1 <= 1 + c.sent
       /\ d1 <= h1 /\ h1 <= d1 + 1 /\ (~toolong => d1 = 1 + c.sent)
  BY <1>2, <1>9, <1>11, <1>12
<1> HIDE DEF h1, d1
<1>15. beyond <=> h1 > w
  <2>1. Gmod4G(hi1, c.cwnd) <=> Pos(p, hi1) > Pos(p, c.cwnd)
    BY <1>2, <1>13, Compare
  <2> QED
    BY <1>13, <2>1 DEF w
<1> HIDE DEF beyond
<1> DEFINE H == IF beyond THEN w ELSE h1
           D == IF beyond THEN w ELSE d1
<1>16. hi \in Num /\ Pos(p, hi) = H /\ hidata \in Num /\ Pos(p, hidata) = D /\ Near(p, hidata)
  BY <1>2, <1>4, <1>13 DEF hi, w
<1> HIDE DEF hidata
<1>17. H \in Int /\ D \in Int /\ t <= H /\ H <= n /\ H <= w /\ t <= D /\ D <= 1 + c.sent
       /\ (~toolong /\ ~beyond => D = 1 + c.sent)
  BY <1>2, <1>14, <1>15
<1> HIDE DEF H, D
<1>18. Diff(lo, c.UNA) = t - u
  <2>1. Pos(p, c.TRM) >= Pos(p, c.UNA) => Diff(c.TRM, c.UNA) = Pos(p, c.TRM) - Pos(p, c.UNA)
    BY <1>2, Compare
  <2> QED
    BY <1>2, <1>9, <2>1 DEF t, u
<1>19. Diff(hidata, c.UNA) = D - u
  <2>1. Pos(p, hidata) >= Pos(p, c.UNA) => Diff(hidata, c.UNA) = Pos(p, hidata) - Pos(p, c.UNA)
    BY <1>2, <1>16, Compare
  <2> QED
    BY <1>2, <1>16, <1>17, <2>1 DEF u
<1>20. data = Run(t - 1, D - 1)
  <2> DEFINE i == t - u + 1
             j == D - u
  <2>1. /\ a \in Nat /\ a <= c.sent /\ i \in Nat \ {0} /\ j \in Nat /\ i <= j + 1 /\ j <= c.sent - a
        /\ a + i - 1 = t - 1 /\ a + j = D - 1
    BY <1>2, <1>6, <1>17
  <2> HIDE DEF i, j
  <2>2. SubSeq(Run(a, c.sent), i, j) = Run(a + i - 1, a + j)
    <3>1. /\ a \in Nat /\ c.sent \in Nat /\ a <= c.sent /\ i \in Nat \ {0} /\ j \in Nat /\ i <= j + 1
          /\ j <= c.sent - a
      BY <1>2, <2>1
    <3> QED
      BY <3>1, RunPart
  <2>3. data = SubSeq(c.sendq, i, j)
    BY <1>18, <1>19 DEF data, i, j
  <2> QED
    BY <1>3, <2>1, <2>2, <2>3
<1>21. "FIN" \in flags => D = 1 + c.sent /\ c.finsent
  BY <1>17 DEF flags
<1>22. flags \subseteq {"FIN", "PSH"}
  BY DEF flags
<1>23. \E E \in Int : /\ Pos(p, c.TRM) <= E /\ E <= 1 + c.sent
                      /\ d.data = Run(Pos(p, c.TRM) - 1, E - 1)
                      /\ "FIN" \in d.flags => E = 1 + c.sent /\ c.finsent
  BY <1>1, <1>17, <1>20, <1>21 DEF t
<1> QED
  BY <1>1, <1>16, <1>17, <1>22, <1>23 DEF t, n, w

(* What make_pack() makes of a connection. *)
LEMMA LivePack ==
  ASSUME NEW p \in Peer, NEW o \in Peer, NEW c, NEW q, Live(p, o, c, q), Room(p, q),
         NEW m, m = make_pack(c)
  PROVE  /\ Moves(p, o, c, m[1], q)
         /\ m[2].some => m[2].seg \in Said(p, o, c)
<1> DEFINE d == DataPack(c)
           t == Pos(p, c.TRM)
           r == Pos(o, c.RCV)
           h == Pos(o, c.HI)
           fl == {"ACK"} \cup (IF d.none THEN {} ELSE d.flags)
           da == IF d.none THEN <<>> ELSE d.data
           g == [seq |-> c.TRM, ack |-> c.RCV, wnd |-> Diff(c.HI, c.RCV), flags |-> fl, data |-> da]
           tr == IF d.none THEN c.TRM ELSE d.hi
           k == [c EXCEPT !.sendack = FALSE, !.TRM = tr]
<1>1. /\ MiscOK(p, c) /\ Full(c) /\ Sends(p, c, q) /\ SendTypes(c) /\ SendOrder(p, c, q)
      /\ Takes(o, c, q) /\ RecvTypes(c) /\ c.connected
  BY DEF Live, MiscOK, Sends, Recvs, Takes
<1> HIDE DEF d
<1>2. m = IF d.none /\ ~c.sendack THEN <<c, Nothing>> ELSE <<k, [some |-> TRUE, seg |-> g]>>
  <2>1. m = EstablishedPack(c)
    BY DEF make_pack, Live, Connected
  <2> QED
    BY <2>1 DEF EstablishedPack, Packed, d
<1>3. /\ t \in Int /\ c.sent \in Nat /\ 1 <= t /\ t <= 1 + c.sent + One(c.finsent)
      /\ c.finsent = c.ended /\ t <= Pos(p, c.NXT) /\ Pos(p, c.UNA) <= t /\ t <= Pos(p, c.cwnd)
      /\ Pos(p, c.cwnd) <= Pos(p, c.UNA) + 2 * MSS + RCV_WND
      /\ Pos(p, c.UNA) \in Int /\ Pos(p, c.NXT) \in Int /\ Pos(p, c.cwnd) \in Int
  BY <1>1, SendPlaces DEF SendOrder
<1>4. ~d.none =>
         /\ d.hi \in Num /\ Pos(p, d.hi) \in Int
         /\ t <= Pos(p, d.hi) /\ Pos(p, d.hi) <= Pos(p, c.NXT)
         /\ Pos(p, d.hi) <= Pos(p, c.cwnd)
         /\ \E D \in Int : /\ t <= D /\ D <= 1 + c.sent
                           /\ d.data = Run(t - 1, D - 1)
                           /\ "FIN" \in d.flags => D = 1 + c.sent /\ c.finsent
         /\ d.flags \subseteq {"FIN", "PSH"}
  BY <1>1, PackPlaces DEF d
<1>5. /\ r \in Int /\ h \in Int /\ 1 <= r /\ r <= h /\ h <= r + RCV_WND
      /\ Diff(c.HI, c.RCV) \in 0 .. RCV_WND
  <2>1. /\ r \in Int /\ h \in Int /\ Pos(o, c.LO) \in Int
        /\ 1 <= Pos(o, c.LO) /\ Pos(o, c.LO) <= r - One(c.finrecv) /\ r <= h
        /\ h <= Pos(o, c.LO) + RCV_WND
        /\ Near(o, c.RCV) /\ Near(o, c.HI)
    BY <1>1, TakePlaces
  <2>2. One(c.finrecv) = 0 \/ One(c.finrecv) = 1
    BY DEF One
  <2>3. 1 <= r /\ h <= r + RCV_WND /\ h - r \in 0 .. RCV_WND
    BY <2>1, <2>2, Space
  <2>4. Pos(o, c.HI) >= Pos(o, c.RCV) => Diff(c.HI, c.RCV) = Pos(o, c.HI) - Pos(o, c.RCV)
    BY <2>1, Compare
  <2> QED
    BY <2>1, <2>3, <2>4
<1>6. \E D \in Int : /\ t <= D /\ D <= 1 + c.sent + One(c.finsent) /\ (~d.none => D <= 1 + c.sent)
                     /\ da \in Seq(Nat) /\ Len(da) = D - t /\ (da = <<>> <=> D = t)
                     /\ ~d.none => da = Run(t - 1, D - 1)
                     /\ "FIN" \in fl => D = 1 + c.sent /\ c.finsent
  <2>1. CASE d.none
    <3>1. da = <<>> /\ "FIN" \notin fl
      BY <2>1
    <3>2. <<>> \in Seq(Nat) /\ Len(<<>>) = t - t
      BY <1>3
    <3> QED
      BY <1>3, <2>1, <3>1, <3>2
  <2>2. CASE ~d.none
    <3>1. PICK D \in Int : /\ t <= D /\ D <= 1 + c.sent
                           /\ d.data = Run(t - 1, D - 1)
                           /\ "FIN" \in d.flags => D = 1 + c.sent /\ c.finsent
      BY <1>4, <2>2
    <3> DEFINE x == t - 1
               y == D - 1
    <3>2. x \in Nat /\ y \in Nat /\ x <= y /\ y - x = D - t /\ (x = y <=> D = t)
      BY <1>3, <3>1
    <3> HIDE DEF x, y
    <3>3. Run(x, y) \in Seq(Nat) /\ Len(Run(x, y)) = y - x /\ (Run(x, y) = <<>> <=> x = y)
      BY <3>2, RunIs
    <3>4. da = Run(x, y) /\ ("FIN" \in fl => "FIN" \in d.flags)
      BY <2>2, <3>1 DEF x, y
    <3>5. D <= 1 + c.sent + One(c.finsent)
      BY <1>3, <3>1 DEF One
    <3> HIDE DEF fl, da
    <3>6. da \in Seq(Nat) /\ Len(da) = D - t /\ (da = <<>> <=> D = t)
      BY <3>2, <3>3, <3>4
    <3>7. da = Run(t - 1, D - 1)
      BY <3>4 DEF x, y
    <3> QED
      BY <3>1, <3>4, <3>5, <3>6, <3>7
  <2> QED
    BY <2>1, <2>2
<1>7. fl \in SUBSET {"SYN", "ACK", "FIN", "RST", "PSH"} /\ "SYN" \notin fl
  BY <1>4
<1> HIDE DEF da, fl
<1>8. d.none => da = <<>>
  BY DEF da
<1>9. g \in Said(p, o, c)
  <2>1. PICK D \in Int : /\ t <= D /\ D <= 1 + c.sent + One(c.finsent) /\ (~d.none => D <= 1 + c.sent)
                         /\ da \in Seq(Nat) /\ Len(da) = D - t /\ (da = <<>> <=> D = t)
                         /\ ~d.none => da = Run(t - 1, D - 1)
                         /\ "FIN" \in fl => D = 1 + c.sent /\ c.finsent
    BY <1>6
  <2>2. /\ g.seq = c.TRM /\ g.ack = c.RCV /\ g.data = da /\ g.flags = fl
        /\ g.wnd = Diff(c.HI, c.RCV)
    OBVIOUS
  <2>3. g \in Segment
    BY <1>1, <1>5, <1>7, <2>1 DEF Segment, Num, SendTypes, RecvTypes
  <2> HIDE DEF g
  <2>4. ~Has(g, "SYN") /\ (Has(g, "FIN") => "FIN" \in fl)
    BY <1>7, <2>2 DEF Has
  <2>5. Pos(p, g.seq) + Len(g.data) = D
    <3>1. Pos(p, g.seq) = t
      BY <2>2
    <3>2. Len(g.data) = D - t
      BY <2>1, <2>2
    <3> HIDE DEF t
    <3> QED
      BY <1>3, <2>1, <3>1, <3>2
  <2>6. Spoken(p, g, c)
    <3> DEFINE S == Pos(p, g.seq)
               e == S + Len(g.data)
    <3>1. S = t /\ e = D
      BY <2>2, <2>5
    <3>2. e <= c.sent + 1 + One(c.ended)
      <4>1. One(c.finsent) = One(c.ended) /\ One(c.ended) \in Int
        BY <1>3 DEF One
      <4> HIDE DEF e, t, S
      <4> QED
        BY <1>3, <2>1, <3>1, <4>1
    <3>3. g.data # <<>> => 1 <= S /\ e <= c.sent + 1 /\ g.data = Run(S - 1, e - 1)
      <4>1. g.data # <<>> => ~d.none
        BY <1>8, <2>2
      <4> HIDE DEF e, t, S
      <4> QED
        BY <1>3, <2>1, <2>2, <3>1, <4>1
    <3>4. Has(g, "FIN") => c.ended /\ e = c.sent + 1
      <4> HIDE DEF e, t, S
      <4> QED
        BY <1>3, <2>1, <2>4, <3>1
    <3> QED
      BY <2>4, <3>2, <3>3, <3>4 DEF Spoken
  <2>7. 1 <= Pos(o, g.ack) /\ Pos(o, g.ack) <= Heard(o, c)
    BY <1>1, <1>5, <2>2 DEF Heard
  <2> QED
    BY <2>3, <2>6, <2>7 DEF Said, Truth
<1>10. Moves(p, o, c, k, q)
  <2>1. tr \in Num /\ Pos(p, c.UNA) <= Pos(p, tr) /\ Pos(p, tr) <= Pos(p, c.NXT)
        /\ Pos(p, tr) <= Pos(p, c.cwnd)
    <3>1. CASE d.none
      BY <1>1, <1>3, <3>1 DEF SendTypes
    <3>2. CASE ~d.none
      <4>1. tr = d.hi
        BY <3>2
      <4> HIDE DEF tr
      <4> QED
        BY <1>3, <1>4, <3>2, <4>1
    <3> QED
      BY <3>1, <3>2
  <2> HIDE DEF tr
  <2>2. Keeps(c, k, PackFields) /\ k.TRM = tr
    <3>1. Keeps(c, k, PackFields)
      BY <1>1 DEF Full, Keeps, PackFields
    <3>2. k.TRM = tr
      BY <1>1 DEF Full, Names
    <3> QED
      BY <3>1, <3>2
  <2> HIDE DEF k
  <2>3. k.cwnd = c.cwnd /\ k.cthresh = c.cthresh
    BY <2>2 DEF Keeps, PackFields, Names
  <2>4. k.TRM \in Num /\ k.cwnd \in Num /\ k.cthresh \in Nat
    BY <1>1, <2>1, <2>2, <2>3 DEF SendTypes
  <2>5. PackFields \cap (LiveFields \ {"TRM", "cwnd", "cthresh"}) = {}
    BY DEF PackFields, LiveFields, MiscFields, SendFields, RecvFields, TakeFields
  <2> QED
    BY <1>3, <2>1, <2>2, <2>3, <2>4, <2>5, LiveWindow
<1> HIDE DEF k, g
<1>11. CASE d.none /\ ~c.sendack
  <2>1. m[1] = c /\ ~m[2].some
    BY <1>2, <1>11 DEF Nothing
  <2> QED
    BY <2>1, MovesSelf
<1>12. CASE ~(d.none /\ ~c.sendack)
  <2>1. m[1] = k /\ m[2].seg = g
    BY <1>2, <1>12
  <2> QED
    BY <1>9, <1>10, <2>1
<1> QED
  BY <1>11, <1>12

LEMMA SaidFrame ==
  ASSUME NEW p, NEW o, NEW c, NEW t, NEW S, Keeps(c, t, S),
         S \cap {"sent", "ended", "connected", "RCV"} = {}
  PROVE  Said(p, o, t) = Said(p, o, c)
<1>1. t.sent = c.sent /\ t.ended = c.ended /\ t.connected = c.connected /\ t.RCV = c.RCV
  BY DEF Keeps, Names
<1>2. Heard(o, t) = Heard(o, c)
  BY <1>1 DEF Heard
<1>3. ASSUME NEW s PROVE Truth(p, o, s, t) <=> Truth(p, o, s, c)
  BY <1>1, <1>2 DEF Truth, Spoken
<1> QED
  BY <1>3 DEF Said

\* A round of tcp_port_write(), the n-th.
Stage(p, o, c, q, n, acc) ==
  /\ Accs(acc) /\ Keeps(c, acc.c, PortFields) /\ ~acc.c.more /\ acc.c.frag = NoRST
  /\ acc.out \in Seq(Said(p, o, c))
  /\ \/ Live(p, o, acc.c, q)
     \/ Over(p, o, acc.c, q)
     \/ /\ Opening(p, o, acc.c)
        /\ acc.c.state = "SYN_SENT" => acc.c.TRM = acc.c.NXT \/ (n = 0 /\ ~acc.done)

LEMMA StageStart ==
  ASSUME NEW p \in Peer, NEW o \in Peer, NEW c, NEW q, Good(p, o, c, q)
  PROVE  Stage(p, o, c, q, 0, PortStart(c))
<1> DEFINE t == [c EXCEPT !.more = FALSE, !.frag = NoRST]
           out == IF c.frag = NoRST THEN <<>> ELSE <<c.frag>>
           a == PortStart(c)
<1>1. MiscOK(p, c) /\ Full(c) /\ FragOK(c.frag)
  BY DEF Good, Live, Over, Hand, Opening, MiscOK
<1>2. a.c = t /\ a.out = out /\ a.done = ~c.more /\ Accs(a)
  BY DEF PortStart, Accs
<1>3. Keeps(c, t, {"more", "frag"}) /\ ~t.more /\ t.frag = NoRST
  <2>1. Keeps(c, t, {"more", "frag"})
    BY <1>1 DEF Full, Keeps
  <2>2. ~t.more /\ t.frag = NoRST
    BY <1>1 DEF Full, Names
  <2> QED
    BY <2>1, <2>2
<1>4. out \in Seq(Said(p, o, c))
  <2>1. CASE c.frag = NoRST
    BY <2>1
  <2>2. CASE c.frag # NoRST
    <3>1. c.frag \in Segment /\ Has(c.frag, "RST")
      BY <1>1, <2>2 DEF FragOK, Has
    <3>2. c.frag \in Said(p, o, c)
      BY <3>1 DEF Said, Truth
    <3> QED
      BY <2>2, <3>2
  <2> QED
    BY <2>1, <2>2
<1> HIDE DEF a, t, out
<1>5. FragOK(t.frag) /\ MiscOK(p, t)
  <2>1. FragOK(t.frag)
    BY <1>3 DEF FragOK
  <2>2. /\ t.iss = c.iss /\ t.PSH = c.PSH /\ t.tseq = c.tseq /\ t.wcount = c.wcount
        /\ t.rcount = c.rcount /\ t.posted = c.posted /\ t.connected = c.connected
        /\ t.finsent = c.finsent /\ t.writing = c.writing
        /\ t.reading = c.reading /\ t.open = c.open /\ t.ioctl = c.ioctl
    BY <1>3 DEF Keeps, Names
  <2> QED
    BY <1>1, <1>3, <2>1, <2>2 DEF MiscOK, Keeps
<1>6. Keeps(c, t, PortFields)
  BY <1>3 DEF Keeps, PortFields
<1>7. CASE Live(p, o, c, q)
  <2>1. {"more", "frag"} \cap SendFields = {}
        /\ {"more", "frag"} \cap (RecvFields \cup {"state", "connected"}) = {}
    BY DEF SendFields, RecvFields, TakeFields
  <2>2. Sends(p, t, q) /\ t.sent = c.sent /\ t.ended = c.ended
    BY <1>3, <1>7, <2>1, SendsFrame DEF Live
  <2>3. c.sent \in Nat
    BY <1>7, LiveTypes
  <2>4. Moves(p, o, c, t, q)
    <3>1. c.sent <= t.sent
      BY <2>2, <2>3
    <3> QED
      BY <1>3, <1>5, <1>7, <2>1, <2>2, <3>1, SendStep
  <2> QED
    BY <1>2, <1>3, <1>4, <1>6, <2>4 DEF Stage, Moves, a
<1>8. CASE Over(p, o, c, q)
  <2>1. {"more", "frag"} \cap (OpenFixed \ {"frag", "tseq"}) = {}
    BY DEF OpenFixed, LiveFields, MiscFields, SendFields, RecvFields, TakeFields
  <2>2. t.tseq \in Num
    BY <1>5 DEF MiscOK
  <2>3. Over(p, o, t, q)
    BY <1>3, <1>5, <1>8, <2>1, <2>2, OverFrame
  <2> QED
    BY <1>2, <1>3, <1>4, <1>6, <2>3 DEF Stage, a
<1>9. CASE Hand(p, o, c)
  <2>1. {"more", "frag"} \cap (OpenFixed \ {"frag", "tseq", "TRM", "cwnd", "cthresh"}) = {}
    BY DEF OpenFixed, LiveFields, MiscFields, SendFields, RecvFields, TakeFields
  <2>2. t.TRM = c.TRM /\ t.cwnd = c.cwnd /\ t.cthresh = c.cthresh
    BY <1>3 DEF Keeps, Names
  <2>3. Opening(p, o, c) /\ SendTypes(c)
    BY <1>9 DEF Hand, Opening
  <2>4. /\ t.tseq \in Num /\ t.TRM \in Num /\ t.cwnd \in Num /\ t.cthresh \in Nat
        /\ Pos(p, t.TRM) <= 1 /\ 1 <= Pos(p, t.cwnd) /\ Pos(p, t.cwnd) <= 2 * MSS + RCV_WND
    BY <1>5, <2>2, <2>3 DEF SendTypes, Opening, MiscOK
  <2>5. Opening(p, o, t) /\ t.state = c.state /\ t.NXT = c.NXT
    BY <1>3, <1>5, <2>1, <2>3, <2>4, OpeningFrame
  <2>6. t.state = "SYN_SENT" => t.TRM = t.NXT \/ ~a.done
    BY <1>2, <1>9, <2>2, <2>5 DEF Hand
  <2> QED
    BY <1>2, <1>3, <1>4, <1>6, <2>5, <2>6 DEF Stage, a
<1> QED
  BY <1>7, <1>8, <1>9 DEF Good

LEMMA StageNext ==
  ASSUME NEW p \in Peer, NEW o \in Peer, NEW c, NEW q, Room(p, q), NEW n \in Nat,
         NEW a, Stage(p, o, c, q, n, a), NEW b, b = Burst(a)
  PROVE  Stage(p, o, c, q, n + 1, b)
<1> DEFINE m == make_pack(a.c)
           e == a.c
<1>1. /\ Accs(b)
      /\ b.c = (IF ~a.done /\ m[2].some THEN m[1] ELSE a.c)
      /\ b.out = (IF ~a.done /\ m[2].some THEN Append(a.out, m[2].seg) ELSE a.out)
      /\ b.done = (IF ~a.done /\ ~m[2].some THEN TRUE ELSE a.done)
  BY Round DEF Stage
<1>2. /\ Keeps(c, e, PortFields) /\ ~e.more /\ e.frag = NoRST /\ a.out \in Seq(Said(p, o, c))
      /\ Full(e)
      /\ \/ Live(p, o, e, q)
         \/ Over(p, o, e, q)
         \/ Opening(p, o, e) /\ (e.state = "SYN_SENT" => e.TRM = e.NXT \/ (n = 0 /\ ~a.done))
  BY DEF Stage, Keeps
<1>3. e.state \in States
  BY <1>2 DEF Live, Connected, Over, Opening, Handshake, States
<1> HIDE DEF e
<1>4. n + 1 # 0
  OBVIOUS
<1>5. m = make_pack(e)
  BY DEF e
<1> HIDE DEF m
<1>6. Said(p, o, e) = Said(p, o, c)
  BY <1>2, SaidFrame DEF PortFields, PackFields
<1>7. CASE ~a.done /\ m[2].some
  <2> DEFINE t == m[1]
  <2>1. b.c = t /\ b.out = Append(a.out, m[2].seg)
    BY <1>1, <1>7
  <2>2. Keeps(e, t, PackFields)
    BY <1>2, <1>3, <1>5, FramePack
  <2> HIDE DEF t
  <2>3. Keeps(c, t, PortFields) /\ ~t.more /\ t.frag = NoRST
    <3>1. Keeps(c, t, PortFields)
      BY <1>2, <2>2 DEF Keeps, PortFields
    <3>2. t.more = e.more /\ t.frag = e.frag
      BY <2>2 DEF Keeps, PackFields, Names
    <3> QED
      BY <1>2, <3>1, <3>2
  <2>4. CASE Live(p, o, e, q)
    <3>1. Live(p, o, t, q) /\ m[2].seg \in Said(p, o, c)
      BY <1>5, <1>6, <1>7, <2>4, LivePack DEF t, Moves
    <3>2. b.out \in Seq(Said(p, o, c))
      BY <1>2, <2>1, <3>1
    <3> QED
      BY <1>1, <2>1, <2>3, <3>1, <3>2 DEF Stage
  <2>5. CASE Over(p, o, e, q)
    <3>1. ~m[2].some
      BY <1>5, <2>5 DEF Over, make_pack, Nothing
    <3> QED
      BY <1>7, <3>1
  <2>6. CASE Opening(p, o, e)
    <3>1. /\ Opening(p, o, t) /\ m[2].seg \in Said(p, o, c)
          /\ e.state = "SYN_SENT" => t.TRM = t.NXT
      BY <1>5, <1>6, <1>7, <2>6, HandPack DEF t
    <3>2. b.out \in Seq(Said(p, o, c))
      BY <1>2, <2>1, <3>1
    <3>3. t.state = e.state
      BY <2>2 DEF Keeps, PackFields, Names
    <3> QED
      BY <1>1, <2>1, <2>3, <3>1, <3>2, <3>3 DEF Stage
  <2> QED
    BY <1>2, <2>4, <2>5, <2>6
<1>8. CASE ~(~a.done /\ m[2].some)
  <2>1. b.c = e /\ b.out = a.out
    BY <1>1, <1>8 DEF e
  <2>2. Opening(p, o, e) /\ e.state = "SYN_SENT" => e.TRM = e.NXT \/ Live(p, o, e, q) \/ Over(p, o, e, q)
    <3>1. CASE a.done
      BY <1>2, <3>1
    <3>2. CASE ~a.done
      <4>1. ~m[2].some
        BY <1>8, <3>2
      <4> QED
        BY <1>5, <4>1, HandPack
    <3> QED
      BY <3>1, <3>2
  <2> QED
    BY <1>1, <1>2, <2>1, <2>2 DEF Stage
<1> QED
  BY <1>7, <1>8

\* A block that is good stays good through tcp_port_write(), and what that
\* sends is true.
LEMMA PortGood ==
  ASSUME NEW p \in Peer, NEW o \in Peer, NEW c, NEW q, Good(p, o, c, q), Room(p, q),
         NEW t, t = tcp_port_write(c)
  PROVE  /\ Does(p, o, c, t.c, q) /\ t.c.state = c.state /\ t.c.error = c.error
         /\ ~t.c.more /\ t.c.frag = NoRST
         /\ t.out \in Seq(Said(p, o, t.c))
<1>1. PICK g : Chain(g, PortStart(c)) /\ t = g[MaxBurst]
  BY PortWrite
<1> DEFINE T == {n \in Nat : n <= MaxBurst => Stage(p, o, c, q, n, g[n])}
<1>2. 0 \in T
  <2>1. g[0] = PortStart(c)
    BY <1>1 DEF Chain
  <2>2. Stage(p, o, c, q, 0, g[0])
    BY <2>1, StageStart
  <2> QED
    BY <2>2
<1>3. ASSUME NEW n \in T PROVE n + 1 \in T
  <2>1. n \in Nat
    OBVIOUS
  <2>2. ASSUME n + 1 <= MaxBurst PROVE Stage(p, o, c, q, n + 1, g[n + 1])
    <3>1. Stage(p, o, c, q, n, g[n])
      BY <2>1, <2>2, MaxBurstNat
    <3>2. n + 1 \in 1 .. MaxBurst /\ n + 1 - 1 = n
      BY <2>1, <2>2, MaxBurstNat
    <3>3. g[n + 1] = Burst(g[n])
      <4>1. \A i \in 1 .. MaxBurst : g[i] = Burst(g[i - 1])
        BY <1>1 DEF Chain
      <4>2. g[n + 1] = Burst(g[n + 1 - 1])
        BY <3>2, <4>1
      <4> QED
        BY <3>2, <4>2
    <3> QED
      BY <2>1, <3>1, <3>3, StageNext
  <2> QED
    BY <2>1, <2>2
<1> HIDE DEF T
<1>4. T = Nat
  <2>1. T \in SUBSET Nat
    BY DEF T
  <2> QED
    BY <1>2, <1>3, <2>1, NatInd
<1>5. Stage(p, o, c, q, MaxBurst, t)
  BY <1>1, <1>4, MaxBurstNat DEF T
<1> DEFINE e == t.c
<1>6. /\ Keeps(c, e, PortFields) /\ ~e.more /\ e.frag = NoRST /\ t.out \in Seq(Said(p, o, c))
  BY <1>5 DEF Stage
<1>7. Good(p, o, e, q)
  <2>1. MaxBurst # 0
    BY MaxBurstNat
  <2> QED
    BY <1>5, <2>1 DEF Stage, Good, Hand
<1> HIDE DEF e
<1>8. Grows(o, c, e)
  <2>1. Sized(o, c)
    BY GoodSized
  <2>2. /\ e.sent = c.sent /\ e.ended = c.ended /\ e.connected = c.connected /\ e.RCV = c.RCV
        /\ e.HI = c.HI /\ e.got = c.got
    BY <1>6 DEF Keeps, PortFields, PackFields, Names
  <2> QED
    BY <2>1, <2>2 DEF Sized, Grows
<1>9. Said(p, o, e) = Said(p, o, c)
  BY <1>6, SaidFrame DEF PortFields, PackFields
<1>10. Sure(p, c, e, q)
  BY <1>6, StillSure DEF PortFields, PackFields
<1>11. e.state = c.state /\ e.error = c.error
  BY <1>6 DEF Keeps, PortFields, PackFields, Names
<1> QED
  BY <1>6, <1>7, <1>8, <1>9, <1>10, <1>11 DEF Does, Goes, e

(* A good block has received, and handed over, at least the SYN. *)
LEMMA JoinedRCV ==
  ASSUME NEW p \in Peer, NEW o \in Peer, NEW c, NEW q, Good(p, o, c, q), c.connected
  PROVE  1 <= Pos(o, c.RCV) /\ Pos(o, c.RCV) \in Nat
<1>1. Pos(o, c.RCV) \in Nat
  BY GoodSized DEF Sized
<1>2. CASE Live(p, o, c, q)
  <2>1. RecvTypes(c) /\ RecvOrder(o, c, q)
    BY <1>2 DEF Live, Recvs, Takes
  <2>2. Pos(o, c.LO) \in Int
    BY <2>1, PosType DEF RecvTypes
  <2>3. 1 <= Pos(o, c.LO) /\ Pos(o, c.LO) <= Pos(o, c.RCV) - One(c.finrecv)
        /\ (One(c.finrecv) = 0 \/ One(c.finrecv) = 1)
    BY <2>1 DEF RecvOrder, One
  <2> QED
    BY <1>1, <2>2, <2>3
<1>3. CASE Over(p, o, c, q)
  BY <1>1, <1>3 DEF Over, Rest
<1>4. ~Hand(p, o, c)
  BY DEF Hand, Opening
<1> QED
  BY <1>2, <1>3, <1>4 DEF Good

LEMMA HeardGrows ==
  ASSUME NEW p \in Peer, NEW o \in Peer, NEW c, NEW t, NEW q, Good(p, o, c, q),
         Goes(p, o, c, t, q)
  PROVE  /\ Heard(o, c) \in Nat /\ Heard(o, t) \in Nat /\ Heard(o, c) <= Heard(o, t)
         /\ 1 <= Heard(o, c)
<1>1. c.connected => 1 <= Pos(o, c.RCV) /\ Pos(o, c.RCV) \in Nat
  BY JoinedRCV
<1>2. t.connected => 1 <= Pos(o, t.RCV) /\ Pos(o, t.RCV) \in Nat
  BY JoinedRCV DEF Goes
<1>3. c.connected => t.connected /\ Pos(o, c.RCV) <= Pos(o, t.RCV)
  BY DEF Goes, Grows
<1> QED
  BY <1>1, <1>2, <1>3 DEF Heard

LEMMA GoodSent ==
  ASSUME NEW p \in Peer, NEW o \in Peer, NEW c, NEW q, Good(p, o, c, q)
  PROVE  c.sent \in Nat /\ c.ended \in BOOLEAN /\ SendTypes(c) /\ RecvTypes(c) /\ MiscOK(p, c)
BY DEF Good, Live, Sends, Recvs, Takes, Over, Hand, Opening, SendTypes

\* What p does to its own block leaves the block of o good.
LEMMA StaysGood ==
  ASSUME NEW p \in Peer, NEW o \in Peer, NEW c, NEW t, NEW q, Good(p, o, c, q),
         Goes(p, o, c, t, q), Good(o, p, q, c)
  PROVE  Good(o, p, q, t)
<1>1. /\ c.sent \in Nat /\ t.sent \in Nat /\ c.sent <= t.sent
      /\ c.ended => t.ended /\ t.sent = c.sent
      /\ Heard(o, c) \in Nat /\ Heard(o, t) \in Nat /\ Heard(o, c) <= Heard(o, t)
      /\ c.ended \in BOOLEAN /\ t.ended \in BOOLEAN
  BY GoodSent, HeardGrows DEF Goes, Grows
<1>2. c.sent + 1 + One(c.ended) <= t.sent + 1 + One(t.ended)
  BY <1>1 DEF One
<1>3. RecvTypes(q) /\ SendTypes(q)
  BY GoodSent
<1>4. Pos(p, q.RCV) \in Int /\ Pos(p, q.advseq) \in Int /\ Pos(o, q.UNA) \in Int
  BY <1>3, PosType DEF RecvTypes, SendTypes
<1>5. CASE Live(o, p, q, c)
  <2>1. Sends(o, q, t)
    <3>1. Sends(o, q, c) /\ SendOrder(o, q, c)
      BY <1>5 DEF Live, Sends
    <3>2. Pos(o, q.UNA) <= Heard(o, t)
      BY <1>1, <1>4, <3>1 DEF SendOrder
    <3>3. SendOrder(o, q, t)
      BY <3>1, <3>2 DEF SendOrder
    <3> QED
      BY <3>1, <3>3 DEF Sends
  <2>2. Takes(p, q, t)
    <3>1. Takes(p, q, c) /\ RecvOrder(p, q, c)
      BY <1>5 DEF Live, Recvs, Takes
    <3>2. q.finrecv => t.ended /\ Pos(p, q.RCV) = t.sent + 2
      BY <1>1, <3>1 DEF RecvOrder
    <3>3. ~q.finrecv => Pos(p, q.RCV) <= t.sent + 1
      BY <1>1, <1>4, <3>1 DEF RecvOrder
    <3>4. RecvOrder(p, q, t)
      BY <3>1, <3>2, <3>3 DEF RecvOrder
    <3> QED
      BY <3>1, <3>4 DEF Takes
  <2>3. q.adv = <<>> \/ Ahead(p, q, t)
    <3>1. ASSUME Ahead(p, q, c) PROVE Ahead(p, q, t)
      <4> DEFINE e == Pos(p, q.advseq) + Len(q.adv)
      <4>1. e <= c.sent + 1 /\ q.adv \in Seq(Nat)
        BY <3>1 DEF Ahead
      <4>2. e \in Int
        BY <1>4, <4>1
      <4> HIDE DEF e
      <4>3. e <= t.sent + 1
        BY <1>1, <4>1, <4>2
      <4> QED
        BY <3>1, <4>3 DEF Ahead, e
    <3> QED
      BY <1>5, <3>1 DEF Live, Recvs
  <2> QED
    BY <1>5, <2>1, <2>2, <2>3 DEF Live, Recvs, Good
<1>6. CASE Over(o, p, q, c)
  <2>1. ASSUME Rest(p, q, c) PROVE Rest(p, q, t)
    <3>1. /\ Len(q.got) \in Nat /\ Len(q.got) <= c.sent
          /\ Pos(p, q.RCV) <= c.sent + 1 + One(c.ended)
      BY <2>1 DEF Rest
    <3>2. Len(q.got) <= t.sent
      BY <1>1, <3>1
    <3>3. One(c.ended) \in Int /\ One(t.ended) \in Int
      BY DEF One
    <3>4. Pos(p, q.RCV) <= t.sent + 1 + One(t.ended)
      BY <1>1, <1>2, <1>4, <3>1, <3>3
    <3> QED
      BY <2>1, <3>2, <3>4 DEF Rest
  <2> QED
    BY <1>6, <2>1 DEF Over, Good
<1>7. CASE Hand(o, p, q)
  BY <1>7 DEF Good
<1> QED
  BY <1>5, <1>6, <1>7 DEF Good

\* What p has said stays true.
LEMMA SaidGrows ==
  ASSUME NEW p \in Peer, NEW o \in Peer, NEW c, NEW t, NEW q, Good(p, o, c, q),
         Goes(p, o, c, t, q)
  PROVE  Said(p, o, c) \subseteq Said(p, o, t)
<1>1. /\ c.sent \in Nat /\ t.sent \in Nat /\ c.sent <= t.sent
      /\ c.ended => t.ended /\ t.sent = c.sent
      /\ Heard(o, c) \in Nat /\ Heard(o, t) \in Nat /\ Heard(o, c) <= Heard(o, t)
      /\ c.ended \in BOOLEAN /\ t.ended \in BOOLEAN
  BY GoodSent, HeardGrows DEF Goes, Grows
<1>2. c.sent + 1 + One(c.ended) <= t.sent + 1 + One(t.ended) /\ One(c.ended) \in Int
      /\ One(t.ended) \in Int
  BY <1>1 DEF One
<1>3. ASSUME NEW s \in Segment, Truth(p, o, s, c) PROVE Truth(p, o, s, t)
  <2>1. CASE Has(s, "RST")
    BY <2>1 DEF Truth
  <2>2. CASE ~Has(s, "RST")
    <3>1. s.seq \in Num /\ s.ack \in Num /\ s.data \in Seq(Nat)
      BY DEF Segment, Num
    <3> DEFINE S == Pos(p, s.seq)
               e == S + Len(s.data)
    <3>2. S \in Int /\ e \in Int /\ Pos(o, s.ack) \in Int
      BY <3>1, PosType
    <3>3. /\ e <= c.sent + 1 + One(c.ended)
          /\ s.data # <<>> => 1 <= S /\ e <= c.sent + 1 /\ s.data = Run(S - 1, e - 1)
          /\ Has(s, "SYN") => s.seq = ISS[p] /\ s.data = <<>> /\ ~Has(s, "FIN")
          /\ Has(s, "FIN") => c.ended /\ e = c.sent + 1
          /\ Has(s, "ACK") => 1 <= Pos(o, s.ack) /\ Pos(o, s.ack) <= Heard(o, c)
      BY <1>3, <2>2 DEF Truth, Spoken
    <3> HIDE DEF e, S
    <3>4. e <= t.sent + 1 + One(t.ended) /\ (s.data # <<>> => e <= t.sent + 1)
      BY <1>1, <1>2, <3>2, <3>3, SMTT(20)
    <3>5. Has(s, "FIN") => t.ended /\ e = t.sent + 1
      BY <1>1, <3>3
    <3>6. Has(s, "ACK") => Pos(o, s.ack) <= Heard(o, t)
      BY <1>1, <3>2, <3>3
    <3> QED
      BY <3>3, <3>4, <3>5, <3>6 DEF Truth, Spoken, e, S
  <2> QED
    BY <2>1, <2>2
<1> QED
  BY <1>3 DEF Said

(* The hypothesis of the theorems: neither stream is longer than what the
   daemon can tell apart by the top bit of a difference. *)
Short(c) == 2 * (c.sent + SND_WND + RCV_WND + 2 * MSS + 4) <= SeqSpace

LEMMA RoomIs ==
  ASSUME NEW p \in Peer, NEW o \in Peer, NEW c, NEW q, Good(p, o, c, q), Good(o, p, q, c),
         Short(c), Short(q)
  PROVE  Room(p, q)
<1>1. c.sent \in Nat /\ q.sent \in Nat /\ c.ended \in BOOLEAN /\ q.ended \in BOOLEAN
      /\ RecvTypes(q)
  BY GoodSent
<1>2. q.connected => Pos(p, q.RCV) \in Nat
  BY JoinedRCV
<1>3. q.connected => Pos(p, q.RCV) <= c.sent + 2
  <2>1. CASE Live(o, p, q, c)
    <3>1. /\ q.finrecv => Pos(p, q.RCV) = c.sent + 2
          /\ ~q.finrecv => Pos(p, q.RCV) <= c.sent + 1
      BY <2>1 DEF Live, Recvs, Takes, RecvOrder
    <3>2. q.finrecv \in BOOLEAN
      BY <1>1 DEF RecvTypes
    <3> QED
      BY <1>1, <1>2, <3>1, <3>2
  <2>2. CASE Over(o, p, q, c)
    <3>1. q.connected => Pos(p, q.RCV) <= c.sent + 1 + One(c.ended)
      BY <2>2 DEF Over, Rest
    <3>2. One(c.ended) = 0 \/ One(c.ended) = 1
      BY DEF One
    <3> QED
      BY <1>1, <1>2, <3>1, <3>2
  <2>3. CASE Hand(o, p, q)
    BY <2>3 DEF Hand, Opening
  <2> QED
    BY <2>1, <2>2, <2>3 DEF Good
<1>4. Heard(p, q) \in Nat /\ Heard(p, q) <= c.sent + 2
  BY <1>1, <1>2, <1>3 DEF Heard
<1>5. 2 * (q.sent + RCV_WND + 4) <= SeqSpace
  BY <1>1, Space DEF Short
<1> DEFINE h == Heard(p, q)
<1>6. h \in Nat /\ h <= c.sent + 2
  BY <1>4
<1> HIDE DEF h
<1>7. 2 * (h + SND_WND + RCV_WND + 2 * MSS + 2) <= SeqSpace
  BY <1>1, <1>6, Space DEF Short
<1> QED
  BY <1>1, <1>5, <1>6, <1>7 DEF Room, h

(* What a program posts touches neither the counters nor the queues. *)
LEMMA LivePost ==
  ASSUME NEW p \in Peer, NEW o \in Peer, NEW c, NEW q, Live(p, o, c, q),
         NEW t, NEW S, Keeps(c, t, S),
         S \cap (SendFields \cup RecvFields \cup {"state", "connected"}) = {}, MiscOK(p, t)
  PROVE  Moves(p, o, c, t, q)
<1>1. S \cap SendFields = {} /\ S \cap (RecvFields \cup {"state", "connected"}) = {}
  OBVIOUS
<1>2. Sends(p, t, q) /\ t.sent = c.sent /\ t.ended = c.ended
  BY <1>1, SendsFrame DEF Live
<1>3. c.sent \in Nat
  BY LiveTypes
<1>4. c.sent <= t.sent
  BY <1>2, <1>3
<1> QED
  BY <1>1, <1>2, <1>4, SendStep

LEMMA OverPost ==
  ASSUME NEW p \in Peer, NEW o \in Peer, NEW c, NEW q, Over(p, o, c, q),
         NEW t, NEW S, Keeps(c, t, S),
         S \cap (SendFields \cup RecvFields \cup {"state", "connected"}) = {}, MiscOK(p, t),
         c.connected \/ Fresh(t)
  PROVE  Over(p, o, t, q) /\ Grows(o, c, t) /\ t.connected = c.connected
<1>1. SendFields \cup RecvFields \cup {"state", "connected"} \subseteq Names \ S
  BY DEF SendFields, RecvFields, TakeFields, Names
<1>2. \A f \in SendFields \cup RecvFields \cup {"state", "connected"} : t[f] = c[f]
  BY <1>1 DEF Keeps
<1>3. /\ t.UNA = c.UNA /\ t.TRM = c.TRM /\ t.NXT = c.NXT /\ t.cwnd = c.cwnd /\ t.sent = c.sent
      /\ t.cthresh = c.cthresh /\ t.finsent = c.finsent /\ t.ended = c.ended
      /\ t.sendq = c.sendq /\ t.state = c.state /\ t.connected = c.connected
  BY <1>2 DEF SendFields
<1>4. /\ t.LO = c.LO /\ t.RCV = c.RCV /\ t.HI = c.HI /\ t.advseq = c.advseq
      /\ t.finrecv = c.finrecv /\ t.got = c.got /\ t.rcvd = c.rcvd /\ t.adv = c.adv
  BY <1>2 DEF RecvFields, TakeFields
<1>5. SendTypes(t) /\ RecvTypes(t)
  BY <1>3, <1>4 DEF Over, SendTypes, RecvTypes
<1>6. c.connected => Rest(o, t, q)
  BY <1>4 DEF Over, Rest
<1>7. Over(p, o, t, q)
  BY <1>3, <1>4, <1>5, <1>6 DEF Over
<1>8. Grows(o, c, t)
  BY <1>3, <1>4, SizedAre DEF Grows, Sized
<1> QED
  BY <1>3, <1>7, <1>8

(* tcp_write(). *)
LEMMA GoodPost ==
  ASSUME NEW p \in Peer, NEW o \in Peer, NEW c, NEW q, Good(p, o, c, q), c.connected,
         NEW t, NEW S, Keeps(c, t, S),
         S \cap (SendFields \cup RecvFields \cup {"state", "connected"}) = {}, MiscOK(p, t)
  PROVE  Goes(p, o, c, t, q)
<1>1. ~Hand(p, o, c)
  BY DEF Hand, Opening
<1>2. CASE Live(p, o, c, q)
  <2>1. Moves(p, o, c, t, q)
    BY <1>2, LivePost
  <2> QED
    BY <1>2, <2>1, MovesSettle, SettlesGo
<1>3. CASE Over(p, o, c, q)
  <2>1. Over(p, o, t, q) /\ Grows(o, c, t)
    BY <1>3, OverPost
  <2> QED
    BY <1>3, <2>1 DEF Goes, Good
<1> QED
  BY <1>1, <1>2, <1>3 DEF Good

LEMMA GoodReplyWrite ==
  ASSUME NEW p \in Peer, NEW o \in Peer, NEW c, NEW q, Good(p, o, c, q), c.connected, NEW r
  PROVE  Does(p, o, c, ReplyWrite(c, r), q)
<1> DEFINE t == ReplyWrite(c, r)
<1>1. MiscOK(p, c) /\ Full(c)
  BY GoodSent DEF MiscOK
<1>2. Keeps(c, t, ReplyWriteFields) /\ t.writing = FALSE /\ t.wcount = 0
  <2>1. Keeps(c, t, ReplyWriteFields)
    BY <1>1, FrameReplies
  <2>2. t.writing = FALSE /\ t.wcount = 0
    BY <1>1 DEF ReplyWrite, Full, Names
  <2> QED
    BY <2>1, <2>2
<1> HIDE DEF t
<1>3. /\ t.iss = c.iss /\ t.PSH = c.PSH /\ t.tseq = c.tseq /\ t.rcount = c.rcount
      /\ t.posted = c.posted /\ t.connected = c.connected
      /\ t.frag = c.frag /\ t.finsent = c.finsent /\ t.reading = c.reading
      /\ t.open = c.open /\ t.ioctl = c.ioctl
  BY <1>2 DEF Keeps, ReplyWriteFields, Names
<1>4. MiscOK(p, t)
  BY <1>1, <1>2, <1>3 DEF MiscOK, Keeps
<1>5. ReplyWriteFields \cap (SendFields \cup RecvFields \cup {"state", "connected"}) = {}
  BY DEF ReplyWriteFields, SendFields, RecvFields, TakeFields
<1>6. Goes(p, o, c, t, q)
  BY <1>2, <1>4, <1>5, GoodPost
<1>7. Sure(p, c, t, q)
  BY <1>2, StillSure DEF ReplyWriteFields
<1> QED
  BY <1>6, <1>7 DEF t, Does

LEMMA GoodWrite ==
  ASSUME NEW p \in Peer, NEW o \in Peer, NEW c, NEW q, Good(p, o, c, q), Room(p, q),
         c.connected, ~c.writing, c.ioctl = "none", NEW n \in Nat,
         NEW t, t = tcp_write([c EXCEPT !.posted = @ + 1], n)
  PROVE  Does(p, o, c, t, q)
<1> DEFINE d == [c EXCEPT !.posted = c.posted + 1]
           posted == [d EXCEPT !.writing = TRUE, !.woffset = 0, !.wcount = n]
           quiet == d.UNA = d.NXT /\ d.tseq = d.UNA
           timed == IF quiet THEN tcp_set_send_timer(posted) ELSE posted
<1>1. MiscOK(p, c) /\ Full(c)
  BY GoodSent DEF MiscOK
<1>2. t = IF d.state = "CLOSED" \/ d.finsent THEN ReplyWrite(d, "error")
          ELSE tcp_conn_write(tcp_fd_write(timed))
  BY DEF tcp_write
<1>3. Keeps(c, d, {"posted"}) /\ d.posted = c.posted + 1
  <2>1. Keeps(c, d, {"posted"})
    BY <1>1 DEF Full, Keeps
  <2>2. d.posted = c.posted + 1
    BY <1>1 DEF Full, Names
  <2> QED
    BY <2>1, <2>2
<1> HIDE DEF d
<1>4. MiscOK(p, d) /\ Full(d) /\ d.ioctl = "none" /\ d.connected = c.connected /\ ~d.writing
  <2>1. /\ d.iss = c.iss /\ d.PSH = c.PSH /\ d.tseq = c.tseq /\ d.rcount = c.rcount
        /\ d.wcount = c.wcount /\ d.connected = c.connected /\ d.writing = c.writing
        /\ d.frag = c.frag /\ d.finsent = c.finsent /\ d.reading = c.reading
        /\ d.open = c.open /\ d.ioctl = c.ioctl
    BY <1>3 DEF Keeps, Names
  <2> QED
    BY <1>1, <1>3, <2>1 DEF MiscOK, Keeps
<1>9. Sure(p, c, d, q)
  BY <1>3, StillSure
<1>5. Goes(p, o, c, d, q)
  <2>1. {"posted"} \cap (SendFields \cup RecvFields \cup {"state", "connected"}) = {}
    BY DEF SendFields, RecvFields, TakeFields
  <2> QED
    BY <1>3, <1>4, <2>1, GoodPost
<1>6. Good(p, o, d, q) /\ d.connected
  BY <1>4, <1>5 DEF Goes
<1>7. CASE d.state = "CLOSED" \/ d.finsent
  <2>1. Does(p, o, d, t, q)
    BY <1>2, <1>6, <1>7, GoodReplyWrite
  <2> QED
    BY <1>5, <1>9, <2>1, DoesTrans DEF Does
<1>8. CASE ~(d.state = "CLOSED" \/ d.finsent)
  <2>1. Live(p, o, d, q)
    BY <1>6, <1>8 DEF Good, Over, Hand, Opening
  <2>2. Keeps(d, posted, {"writing", "woffset", "wcount"}) /\ posted.writing = TRUE
        /\ posted.wcount = n
    <3>1. Keeps(d, posted, {"writing", "woffset", "wcount"})
      BY <1>4 DEF Full, Keeps
    <3>2. posted.writing = TRUE /\ posted.wcount = n
      BY <1>4 DEF Full, Names
    <3> QED
      BY <3>1, <3>2
  <2> HIDE DEF posted
  <2>3. MiscOK(p, posted) /\ Full(posted)
    <3>1. /\ posted.iss = d.iss /\ posted.PSH = d.PSH /\ posted.tseq = d.tseq
          /\ posted.rcount = d.rcount /\ posted.posted = d.posted
          /\ posted.connected = d.connected
          /\ posted.frag = d.frag /\ posted.finsent = d.finsent /\ posted.reading = d.reading
          /\ posted.open = d.open /\ posted.ioctl = d.ioctl
      BY <2>2 DEF Keeps, Names
    <3> QED
      BY <1>4, <1>8, <2>2, <3>1 DEF MiscOK, Keeps
  <2>4. Moves(p, o, d, posted, q)
    <3>1. {"writing", "woffset", "wcount"} \cap
            (SendFields \cup RecvFields \cup {"state", "connected"}) = {}
      BY DEF SendFields, RecvFields, TakeFields
    <3> QED
      BY <2>1, <2>2, <2>3, <3>1, LivePost
  <2>5. Moves(p, o, d, timed, q) /\ timed.writing
    <3>1. Keeps(posted, tcp_set_send_timer(posted), {"timer", "stt"})
      BY <2>3, FrameTimer
    <3>2. {"timer", "stt"} \cap LiveFields = {}
      BY DEF LiveFields, MiscFields, SendFields, RecvFields, TakeFields
    <3>3. Moves(p, o, posted, tcp_set_send_timer(posted), q)
      BY <2>4, <3>1, <3>2, LiveFrame DEF Moves
    <3>4. Moves(p, o, d, tcp_set_send_timer(posted), q)
      BY <2>1, <2>4, <3>3, MovesTrans
    <3>5. tcp_set_send_timer(posted).writing = posted.writing
      BY <3>1 DEF Keeps, Names
    <3> QED
      BY <2>2, <2>4, <3>4, <3>5
  <2>12. Sure(p, d, timed, q)
    <3>1. Keeps(posted, tcp_set_send_timer(posted), {"timer", "stt"})
      BY <2>3, FrameTimer
    <3>2. Sure(p, posted, tcp_set_send_timer(posted), q) /\ Sure(p, d, posted, q)
      BY <2>2, <3>1, StillSure
    <3> QED
      BY <3>2, SureTrans
  <2> HIDE DEF timed
  <2> DEFINE w == tcp_fd_write(timed)
  <2>6. Moves(p, o, timed, w, q)
    BY <2>5, LiveFdWrite DEF Moves
  <2>13. Sure(p, timed, w, q)
    <3>1. Live(p, o, timed, q)
      BY <2>5 DEF Moves
    <3>2. timed.eof \in BOOLEAN => Tells(p, timed, w, q)
      BY <2>5, <3>1, WriteTells
    <3> HIDE DEF w
    <3> QED
      BY <3>1, <3>2, TellsSure
  <2>7. Moves(p, o, d, w, q)
    BY <2>1, <2>5, <2>6, MovesTrans
  <2> HIDE DEF w
  <2>8. Moves(p, o, w, tcp_conn_write(w), q)
    <3>1. Live(p, o, w, q) /\ Full(w)
      BY <2>7 DEF Moves, Live, MiscOK
    <3>2. Keeps(w, tcp_conn_write(w), {"more"})
      BY <3>1, FrameWrite
    <3> QED
      BY <3>1, <3>2, LiveFrame DEF LiveFields, MiscFields, SendFields, RecvFields, TakeFields
  <2>9. t = tcp_conn_write(w)
    BY <1>2, <1>8 DEF w
  <2>10. Moves(p, o, d, t, q)
    BY <2>1, <2>7, <2>8, <2>9, MovesTrans
  <2>11. Goes(p, o, d, t, q)
    BY <2>10, MovesSettle, SettlesGo
  <2>14. Sure(p, w, t, q)
    <3>1. Full(w)
      BY <2>7 DEF Moves, Live, MiscOK
    <3>2. Keeps(w, t, {"more"})
      BY <2>9, <3>1, FrameWrite
    <3> QED
      BY <3>2, StillSure
  <2>15. Sure(p, d, t, q)
    BY <2>12, <2>13, <2>14, SureTrans
  <2> QED
    BY <1>5, <1>9, <2>11, <2>15, DoesTrans DEF Does
<1> QED
  BY <1>7, <1>8

(* tcp_read(). *)
LEMMA GoodRead ==
  ASSUME NEW p \in Peer, NEW o \in Peer, NEW c, NEW q, Good(p, o, c, q), Room(p, q),
         c.connected, c.open, NEW n \in Nat \ {0},
         NEW t, t = tcp_fd_read([c EXCEPT !.reading = TRUE, !.rcount = n])
  PROVE  Does(p, o, c, t, q)
<1> DEFINE d == [c EXCEPT !.reading = TRUE, !.rcount = n]
<1>1. MiscOK(p, c) /\ Full(c)
  BY GoodSent DEF MiscOK
<1>2. Keeps(c, d, {"reading", "rcount"}) /\ d.reading = TRUE /\ d.rcount = n
  <2>1. Keeps(c, d, {"reading", "rcount"})
    BY <1>1 DEF Full, Keeps
  <2>2. d.reading = TRUE /\ d.rcount = n
    BY <1>1 DEF Full, Names
  <2> QED
    BY <2>1, <2>2
<1>3. t = tcp_fd_read(d)
  OBVIOUS
<1> HIDE DEF d
<1>4. MiscOK(p, d) /\ Full(d) /\ d.connected = c.connected
  <2>1. /\ d.iss = c.iss /\ d.PSH = c.PSH /\ d.tseq = c.tseq /\ d.posted = c.posted
        /\ d.wcount = c.wcount /\ d.connected = c.connected /\ d.writing = c.writing
        /\ d.frag = c.frag /\ d.finsent = c.finsent
        /\ d.open = c.open /\ d.ioctl = c.ioctl
    BY <1>2 DEF Keeps, Names
  <2> QED
    BY <1>1, <1>2, <2>1 DEF MiscOK, Keeps
<1>8. Sure(p, c, d, q)
  BY <1>2, StillSure
<1>5. Goes(p, o, c, d, q)
  <2>1. {"reading", "rcount"} \cap (SendFields \cup RecvFields \cup {"state", "connected"}) = {}
    BY DEF SendFields, RecvFields, TakeFields
  <2> QED
    BY <1>2, <1>4, <2>1, GoodPost
<1>6. CASE d.state = "CLOSED"
  <2>1. Keeps(d, t, ReplyReadFields) /\ t.reading = FALSE /\ t.rcount = 0
        /\ t.eof = (d.eof \/ d.error = "OK")
    BY <1>3, <1>4, <1>6, ReadClosed
  <2>2. MiscOK(p, t)
    <3>1. /\ t.iss = d.iss /\ t.PSH = d.PSH /\ t.tseq = d.tseq /\ t.posted = d.posted
          /\ t.wcount = d.wcount /\ t.connected = d.connected /\ t.writing = d.writing
          /\ t.frag = d.frag /\ t.finsent = d.finsent
          /\ t.open = d.open /\ t.ioctl = d.ioctl
      BY <2>1 DEF Keeps, ReplyReadFields, Names
    <3>2. Full(t) /\ t.reading = FALSE /\ t.rcount \in Nat
      BY <2>1 DEF Keeps
    <3> QED
      BY <1>4, <3>1, <3>2, ZenonT(20) DEF MiscOK
  <2>3. ReplyReadFields \cap (SendFields \cup RecvFields \cup {"state", "connected"}) = {}
    BY DEF ReplyReadFields, SendFields, RecvFields, TakeFields
  <2>4. Goes(p, o, d, t, q)
    BY <1>4, <1>5, <2>1, <2>2, <2>3, GoodPost DEF Goes
  <2>5. Sure(p, d, t, q)
    <3>1. /\ t.shut = d.shut /\ t.got = d.got /\ t.ended = d.ended /\ t.sent = d.sent
          /\ t.state = d.state /\ t.connected = d.connected /\ t.error = d.error
          /\ t.open = d.open
      BY <2>1 DEF Keeps, ReplyReadFields, Names
    <3>2. Gone(d) /\ d.open
      BY <1>2, <1>4, <1>6 DEF Gone, Keeps, Names
    <3>3. ASSUME Told(p, d, q) PROVE Told(p, t, q) /\ (d.eof => t.eof)
      <4>1. d.eof \in BOOLEAN /\ (d.eof => AllRead(d, q)) /\ (d.error = "OK" => AllRead(d, q))
        BY <3>2, <3>3 DEF Told
      <4>2. t.eof \in BOOLEAN /\ (d.eof => t.eof) /\ (t.eof => d.eof \/ d.error = "OK")
        <5>1. CASE d.eof = TRUE
          BY <2>1, <5>1
        <5>2. CASE d.eof = FALSE
          BY <2>1, <5>2
        <5> QED
          BY <4>1, <5>1, <5>2
      <4>3. t.eof => AllRead(t, q)
        BY <3>1, <4>1, <4>2 DEF AllRead
      <4> QED
        BY <3>1, <3>3, <4>2, <4>3 DEF Told, AllRead, Heeded, Gone
    <3> QED
      BY <3>1, <3>3 DEF Sure, Gone
  <2> QED
    BY <1>5, <1>8, <2>4, <2>5, DoesTrans DEF Does
<1>7. CASE d.state # "CLOSED"
  <2>1. Live(p, o, d, q)
    BY <1>4, <1>5, <1>7 DEF Goes, Good, Over, Hand, Opening
  <2>2. Moves(p, o, d, t, q)
    BY <1>2, <1>3, <2>1, LiveFdRead
  <2>3. d.eof \in BOOLEAN => Tells(p, d, t, q)
    BY <1>2, <1>3, <2>1, ParkedIs, ReadTells
  <2>4. Does(p, o, d, t, q)
    BY <2>1, <2>2, <2>3, MovesSettle, SettlesDo
  <2> QED
    BY <1>5, <1>8, <2>4, DoesTrans DEF Does
<1> QED
  BY <1>6, <1>7

(* tcp_ioctl(NWIOTCPSHUTDOWN). *)
LEMMA GoodShutdown ==
  ASSUME NEW p \in Peer, NEW o \in Peer, NEW c, NEW q, Good(p, o, c, q), Room(p, q),
         c.connected, c.open, ~c.writing,
         NEW t, t = tcp_conn_write(tcp_fd_write([c EXCEPT !.ioctl = "SHUTDOWN"]))
  PROVE  Does(p, o, c, t, q)
<1> DEFINE d == [c EXCEPT !.ioctl = "SHUTDOWN"]
           w == tcp_fd_write(d)
<1>1. MiscOK(p, c) /\ Full(c)
  BY GoodSent DEF MiscOK
<1>2. Keeps(c, d, {"ioctl"}) /\ d.ioctl = "SHUTDOWN"
  <2>1. Keeps(c, d, {"ioctl"})
    BY <1>1 DEF Full, Keeps
  <2>2. d.ioctl = "SHUTDOWN"
    BY <1>1 DEF Full, Names
  <2> QED
    BY <2>1, <2>2
<1>3. t = tcp_conn_write(w)
  OBVIOUS
<1> HIDE DEF d
<1>4. MiscOK(p, d) /\ Full(d) /\ d.connected = c.connected /\ ~d.writing
  <2>1. /\ d.iss = c.iss /\ d.PSH = c.PSH /\ d.tseq = c.tseq /\ d.posted = c.posted
        /\ d.wcount = c.wcount /\ d.connected = c.connected /\ d.writing = c.writing
        /\ d.frag = c.frag /\ d.finsent = c.finsent /\ d.reading = c.reading
        /\ d.open = c.open /\ d.rcount = c.rcount
    BY <1>2 DEF Keeps, Names
  <2> QED
    BY <1>1, <1>2, <2>1 DEF MiscOK, Keeps
<1>8. Sure(p, c, d, q)
  BY <1>2, StillSure
<1>5. Goes(p, o, c, d, q)
  <2>1. {"ioctl"} \cap (SendFields \cup RecvFields \cup {"state", "connected"}) = {}
    BY DEF SendFields, RecvFields, TakeFields
  <2> QED
    BY <1>2, <1>4, <2>1, GoodPost
<1>6. CASE d.state = "CLOSED"
  <2>1. w = ReplyIoctl(d, d.error)
    BY <1>2, <1>4, <1>6 DEF tcp_fd_write, FdIoctl, w
  <2>2. Keeps(d, w, ReplyIoctlFields) /\ w.ioctl = "none" /\ w.shut = d.error
    <3>1. Keeps(d, w, ReplyIoctlFields)
      BY <1>4, <2>1, FrameReplies
    <3>2. w.ioctl = "none" /\ w.shut = d.error
      BY <1>2, <1>4, <2>1 DEF ReplyIoctl, Full, Names
    <3> QED
      BY <3>1, <3>2
  <2> HIDE DEF w
  <2>3. Keeps(w, t, {"more"})
    BY <1>3, <2>2, FrameWrite DEF Keeps
  <2>4. Keeps(d, t, ReplyIoctlFields \cup {"more"}) /\ t.ioctl = "none" /\ t.shut = d.error
    <3>1. t.ioctl = w.ioctl /\ t.shut = w.shut
      BY <2>3 DEF Keeps, Names
    <3> QED
      BY <2>2, <2>3, <3>1, KeepsTrans
  <2>5. MiscOK(p, t)
    <3>1. /\ t.iss = d.iss /\ t.PSH = d.PSH /\ t.tseq = d.tseq /\ t.posted = d.posted
          /\ t.wcount = d.wcount /\ t.connected = d.connected /\ t.writing = d.writing
          /\ t.frag = d.frag /\ t.finsent = d.finsent /\ t.reading = d.reading
          /\ t.open = d.open /\ t.rcount = d.rcount
      BY <2>4 DEF Keeps, ReplyIoctlFields, Names
    <3> QED
      BY <1>4, <2>4, <3>1, ZenonT(20) DEF MiscOK, Keeps
  <2>6. (ReplyIoctlFields \cup {"more"}) \cap
          (SendFields \cup RecvFields \cup {"state", "connected"}) = {}
    BY DEF ReplyIoctlFields, SendFields, RecvFields, TakeFields
  <2>7. Goes(p, o, d, t, q)
    BY <1>4, <1>5, <2>4, <2>5, <2>6, GoodPost DEF Goes
  <2>8. Sure(p, d, t, q)
    <3>1. /\ t.eof = d.eof /\ t.got = d.got /\ t.ended = d.ended /\ t.sent = d.sent
          /\ t.state = d.state /\ t.connected = d.connected /\ t.error = d.error
          /\ t.open = d.open
      BY <2>4 DEF Keeps, ReplyIoctlFields, Names
    <3>2. Gone(d) /\ d.open
      BY <1>2, <1>4, <1>6 DEF Gone, Keeps, Names
    <3> QED
      BY <2>4, <3>1, <3>2 DEF Sure, Told, AllRead, Heeded, Gone
  <2> QED
    BY <1>5, <1>8, <2>7, <2>8, DoesTrans DEF Does
<1>7. CASE d.state # "CLOSED"
  <2>1. Live(p, o, d, q)
    BY <1>4, <1>5, <1>7 DEF Goes, Good, Over, Hand, Opening
  <2>2. Moves(p, o, d, w, q)
    BY <1>2, <2>1, LiveFdWrite
  <2>7. d.eof \in BOOLEAN => Tells(p, d, w, q)
    BY <1>2, <2>1, WriteTells
  <2> HIDE DEF w
  <2>8. Sure(p, d, w, q)
    BY <2>1, <2>7, TellsSure
  <2>3. Live(p, o, w, q) /\ Full(w)
    BY <2>2 DEF Moves, Live, MiscOK
  <2>4. Moves(p, o, w, t, q)
    <3>1. Keeps(w, t, {"more"})
      BY <1>3, <2>3, FrameWrite
    <3> QED
      BY <2>3, <3>1, LiveFrame DEF LiveFields, MiscFields, SendFields, RecvFields, TakeFields
  <2>5. Moves(p, o, d, t, q)
    BY <2>1, <2>2, <2>4, MovesTrans
  <2>6. Goes(p, o, d, t, q)
    BY <2>5, MovesSettle, SettlesGo
  <2>9. Sure(p, d, t, q)
    <3>1. Keeps(w, t, {"more"})
      BY <1>3, <2>3, FrameWrite
    <3>2. Sure(p, w, t, q)
      BY <3>1, StillSure
    <3> QED
      BY <2>8, <3>2, SureTrans
  <2> QED
    BY <1>5, <1>8, <2>6, <2>9, DoesTrans DEF Does
<1> QED
  BY <1>6, <1>7

\* What cancelling everything that is posted changes.
CancelFields == {"open", "reading", "rcount", "writing", "wcount", "woffset", "ioctl"}

\* The block of a descriptor with nothing posted on it any more.
Quiet(c) == [[c EXCEPT !.open = FALSE] EXCEPT
               !.reading = FALSE, !.rcount = 0, !.writing = FALSE,
               !.wcount = 0, !.woffset = 0, !.ioctl = "none"]

LEMMA QuietIs ==
  ASSUME NEW p \in Peer, NEW c, MiscOK(p, c), NEW e, e = Quiet(c)
  PROVE  /\ Keeps(c, e, CancelFields) /\ MiscOK(p, e)
         /\ ~e.reading /\ ~e.writing /\ e.ioctl = "none" /\ e.open = FALSE
<1>1. Full(c)
  BY DEF MiscOK
<1>2. Keeps(c, e, CancelFields)
  BY <1>1 DEF Quiet, Full, Keeps, CancelFields, Names
<1>3. e.reading = FALSE /\ e.writing = FALSE /\ e.rcount = 0 /\ e.wcount = 0 /\ e.ioctl = "none"
      /\ e.open = FALSE
  BY <1>1 DEF Quiet, Full, Names
<1>4. /\ e.iss = c.iss /\ e.PSH = c.PSH /\ e.tseq = c.tseq /\ e.posted = c.posted
      /\ e.connected = c.connected /\ e.frag = c.frag /\ e.finsent = c.finsent
  BY <1>2 DEF Keeps, CancelFields, Names
<1>5. MiscOK(p, e)
  BY <1>2, <1>3, <1>4 DEF MiscOK, Keeps
<1> QED
  BY <1>2, <1>3, <1>5

LEMMA ClosedFd ==
  ASSUME NEW c, Full(c), c.fd = FALSE, NEW err, NEW t, t = tcp_close_connection(c, err)
  PROVE  t.fd = FALSE
<1>1. CASE c.state = "CLOSED"
  BY <1>1 DEF tcp_close_connection, Full, Names
<1>2. CASE c.state # "CLOSED"
  <2> DEFINE d == [c EXCEPT !.error = err, !.state = "CLOSED"]
  <2>1. d.fd = FALSE /\ Full(d)
    BY DEF Full, Names
  <2>2. AnswerAll(d) = d
    BY <2>1 DEF AnswerAll
  <2> HIDE DEF d
  <2>3. t.fd = AnswerAll(d).fd
    BY <1>2, <2>1, <2>2 DEF tcp_close_connection, d, Full, Names
  <2> QED
    BY <2>1, <2>2, <2>3
<1> QED
  BY <1>1, <1>2

LEMMA LiveClosing ==
  ASSUME NEW p \in Peer, NEW o \in Peer, NEW c, NEW q, Live(p, o, c, q),
         NEW t, t = [c EXCEPT !.state = "CLOSING"]
  PROVE  Moves(p, o, c, t, q)
<1>1. MiscOK(p, c) /\ Full(c) /\ c.connected /\ Sends(p, c, q) /\ Recvs(o, c, q)
  BY DEF Live, MiscOK
<1>2. Keeps(c, t, {"state"}) /\ t.state = "CLOSING"
  <2>1. Keeps(c, t, {"state"})
    BY <1>1 DEF Full, Keeps
  <2>2. t.state = "CLOSING"
    BY <1>1 DEF Full, Names
  <2> QED
    BY <2>1, <2>2
<1>3. /\ t.iss = c.iss /\ t.PSH = c.PSH /\ t.tseq = c.tseq /\ t.posted = c.posted
      /\ t.connected = c.connected /\ t.frag = c.frag /\ t.finsent = c.finsent
      /\ t.wcount = c.wcount /\ t.rcount = c.rcount /\ t.writing = c.writing
      /\ t.reading = c.reading /\ t.open = c.open /\ t.ioctl = c.ioctl
  BY <1>2 DEF Keeps, Names
<1>4. MiscOK(p, t)
  BY <1>1, <1>2, <1>3, ZenonT(20) DEF MiscOK, Keeps
<1>5. Sends(p, t, q) /\ t.sent = c.sent /\ t.ended = c.ended
  <2>1. {"state"} \cap SendFields = {}
    BY DEF SendFields
  <2> QED
    BY <1>1, <1>2, <2>1, SendsFrame
<1>6. Recvs(o, t, q) /\ t.RCV = c.RCV /\ t.HI = c.HI /\ t.got = c.got
  <2>1. {"state"} \cap RecvFields = {}
    BY DEF RecvFields, TakeFields
  <2> QED
    BY <1>1, <1>2, <2>1, RecvsFrame
<1>7. Live(p, o, t, q)
  BY <1>1, <1>2, <1>3, <1>4, <1>5, <1>6 DEF Live, Connected
<1>8. Grows(o, c, t)
  <2>1. Sized(o, c)
    BY SizedAre
  <2> QED
    BY <1>3, <1>5, <1>6, <2>1 DEF Grows, Sized
<1> QED
  BY <1>7, <1>8 DEF Moves

(* tcp_close() of a connection that carries data. *)
LEMMA LiveClose ==
  ASSUME NEW p \in Peer, NEW o \in Peer, NEW c, NEW q, Live(p, o, c, q), Room(p, q), ~c.writing,
         c.fd, NEW t, t = tcp_close(c)
  PROVE  Settles(p, o, c, t, q) /\ Sure(p, c, t, q)
<1> DEFINE f == [c EXCEPT !.fd = FALSE]
           h == tcp_shutdown(f)
           g == IF h.state = "ESTABLISHED" THEN [h EXCEPT !.state = "CLOSING"] ELSE h
<1>1. Full(c) /\ Connected(c)
  BY DEF Live, MiscOK
<1>2. Keeps(c, f, {"fd"})
  BY <1>1 DEF Full, Keeps
<1>3. f.state = c.state /\ f.writing = c.writing
  BY <1>2 DEF Keeps, Names
<1>4. h = SendFin(f)
  BY <1>1, <1>3 DEF tcp_shutdown, Connected
<1>5. t = IF g.UNA = g.NXT THEN tcp_close_connection(g, "ENOTCONN") ELSE g
  BY DEF tcp_close
<1> HIDE DEF f
<1>6. Moves(p, o, c, f, q)
  BY <1>2, LiveFrame DEF LiveFields, MiscFields, SendFields, RecvFields, TakeFields
<1>7. Moves(p, o, f, h, q)
  BY <1>3, <1>4, <1>6, LiveSendFin DEF Moves
<1>13. Sure(p, c, h, q)
  <2>1. Live(p, o, f, q) /\ Full(f)
    BY <1>6 DEF Moves, Live, MiscOK
  <2>2. Mute(f, h)
    BY <1>4, <2>1, FrameSendFin, KeepsMute DEF FinFields
  <2>3. Sure(p, f, h, q)
    BY <1>7, <2>1, <2>2, MuteMove, TellsSure
  <2>4. Sure(p, c, f, q)
    BY <1>2, StillSure
  <2> QED
    BY <2>3, <2>4, SureTrans
<1>8. Moves(p, o, c, h, q)
  BY <1>6, <1>7, MovesTrans
<1> HIDE DEF h
<1>9. Moves(p, o, h, g, q)
  <2>1. Live(p, o, h, q)
    BY <1>8 DEF Moves
  <2>2. CASE h.state = "ESTABLISHED"
    BY <2>1, <2>2, LiveClosing
  <2>3. CASE h.state # "ESTABLISHED"
    BY <2>1, <2>3, MovesSelf
  <2> QED
    BY <2>2, <2>3
<1>10. Moves(p, o, c, g, q)
  BY <1>8, <1>9, MovesTrans
<1>14. Sure(p, c, g, q)
  <2>1. Live(p, o, h, q) /\ Full(h)
    BY <1>8 DEF Moves, Live, MiscOK
  <2>2. Mute(h, g)
    BY <2>1 DEF Mute, Full, Names
  <2> HIDE DEF g
  <2>3. Sure(p, h, g, q)
    BY <1>9, <2>1, <2>2, MuteMove, TellsSure
  <2> QED
    BY <1>13, <2>3, SureTrans
<1> HIDE DEF g
<1>11. CASE g.UNA = g.NXT
  <2>1. Settles(p, o, g, t, q)
    BY <1>5, <1>10, <1>11, LiveCloses DEF Moves
  <2>2. Sure(p, g, t, q)
    <3> DEFINE err == "ENOTCONN"
    <3>1. err # "OK" /\ t = tcp_close_connection(g, err) /\ Live(p, o, g, q)
      BY <1>5, <1>10, <1>11 DEF Moves
    <3> HIDE DEF err
    <3>2. g.eof \in BOOLEAN => Tells(p, g, t, q)
      BY <3>1, CloseTells
    <3> QED
      BY <3>1, <3>2, TellsSure
  <2> QED
    BY <1>10, <1>14, <2>1, <2>2, SettlesTrans, SureTrans
<1>12. CASE g.UNA # g.NXT
  BY <1>5, <1>10, <1>12, <1>14, MovesSettle
<1> QED
  BY <1>11, <1>12

(* sr_close(). *)
LEMMA GoodClose ==
  ASSUME NEW p \in Peer, NEW o \in Peer, NEW c, NEW q, Good(p, o, c, q), Room(p, q),
         c.state \in Handshake => c.inprog,
         NEW t, t = tcp_close(Cancel([c EXCEPT !.open = FALSE]))
  PROVE  Does(p, o, c, t, q)
<1> DEFINE e == Quiet(c)
           f == [e EXCEPT !.inprog = FALSE, !.fd = FALSE]
           g == tcp_close_connection(f, "ENOCONN")
<1>1. MiscOK(p, c) /\ Full(c)
  BY GoodSent DEF MiscOK
<1>2. /\ Keeps(c, e, CancelFields) /\ MiscOK(p, e)
      /\ ~e.reading /\ ~e.writing /\ e.ioctl = "none" /\ e.open = FALSE
  BY <1>1, QuietIs
<1>3. Cancel([c EXCEPT !.open = FALSE]) = IF c.inprog THEN g ELSE e
  BY <1>1 DEF Cancel, Quiet, Full, Names
<1> HIDE DEF e
<1>4. Full(e) /\ e.state = c.state /\ e.fd = c.fd /\ e.connected = c.connected
  BY <1>2 DEF Keeps, CancelFields, Names
<1>5. Keeps(e, f, {"inprog", "fd"}) /\ f.fd = FALSE
  <2>1. Keeps(e, f, {"inprog", "fd"})
    BY <1>4 DEF Full, Keeps
  <2>2. f.fd = FALSE
    BY <1>4 DEF Full, Names
  <2> QED
    BY <2>1, <2>2
<1> HIDE DEF f
<1>6. g.fd = FALSE
  BY <1>5, ClosedFd DEF Keeps
<1>7. c.inprog => t = g
  BY <1>3, <1>6 DEF tcp_close
<1>8. ~c.inprog => t = tcp_close(e)
  BY <1>3
<1>9. MiscOK(p, f) /\ Full(f) /\ f.state = e.state /\ f.connected = e.connected
  <2>1. {"inprog", "fd"} \cap MiscFields = {}
    BY DEF MiscFields
  <2> QED
    BY <1>2, <1>5, <2>1, MiscFrame DEF MiscOK
<1>10. /\ CancelFields \cap (SendFields \cup RecvFields \cup {"state", "connected"}) = {}
       /\ {"inprog", "fd"} \cap (SendFields \cup RecvFields \cup {"state", "connected"}) = {}
  BY DEF CancelFields, SendFields, RecvFields, TakeFields
<1> HIDE DEF g
<1>14. Sure(p, c, e, q) /\ Sure(p, e, f, q)
  <2>1. Sure(p, c, e, q)
    BY <1>2, MuteSure DEF CancelFields
  <2> QED
    BY <1>5, <2>1, StillSure
<1>11. CASE Live(p, o, c, q)
  <2>1. Moves(p, o, c, e, q)
    BY <1>2, <1>10, <1>11, LivePost
  <2>2. Live(p, o, e, q)
    BY <2>1 DEF Moves
  <2>3. CASE c.inprog
    <3>1. Moves(p, o, e, f, q)
      BY <1>5, <1>9, <1>10, <2>2, LivePost
    <3>2. Settles(p, o, f, g, q)
      BY <3>1, LiveCloses DEF Moves, g
    <3>3. Settles(p, o, e, g, q)
      BY <2>2, <3>1, <3>2, SettlesTrans
    <3>4. Sure(p, f, g, q)
      <4> DEFINE err == "ENOCONN"
      <4>1. err # "OK" /\ g = tcp_close_connection(f, err) /\ Live(p, o, f, q)
        BY <3>1 DEF Moves, g
      <4> HIDE DEF err
      <4>2. f.eof \in BOOLEAN => Tells(p, f, g, q)
        BY <4>1, CloseTells
      <4> QED
        BY <4>1, <4>2, TellsSure
    <3>5. Sure(p, c, t, q)
      BY <1>7, <1>14, <2>3, <3>4, SureTrans
    <3> QED
      BY <1>7, <1>11, <2>1, <2>3, <3>3, <3>5, SettlesTrans, SettlesGo DEF Does
  <2>4. CASE ~c.inprog
    <3>1. Settles(p, o, e, t, q) /\ Sure(p, e, t, q)
      <4>1. CASE e.fd
        BY <1>2, <1>8, <2>2, <2>4, <4>1, LiveClose
      <4>2. CASE ~e.fd
        <5>1. t = e
          BY <1>8, <2>4, <4>2 DEF tcp_close
        <5> QED
          BY <2>2, <5>1, MovesSelf, MovesSettle DEF Sure
      <4> QED
        BY <4>1, <4>2
    <3> QED
      BY <1>11, <1>14, <2>1, <3>1, SettlesTrans, SettlesGo, SureTrans DEF Does
  <2> QED
    BY <2>3, <2>4
<1>12. CASE Over(p, o, c, q)
  <2> DEFINE S == CancelFields \cup {"inprog", "fd", "error"}
  <2>1. e.state = "CLOSED" /\ f.state = "CLOSED"
    BY <1>4, <1>9, <1>12 DEF Over
  <2>2. Keeps(e, t, {"inprog", "fd", "error"})
    <3>1. CASE c.inprog
      <4>1. t = [f EXCEPT !.error = "ENOCONN"]
        BY <1>7, <2>1, <3>1 DEF g, tcp_close_connection
      <4>2. Keeps(f, t, {"error"})
        BY <1>9, <4>1 DEF Full, Keeps
      <4> QED
        BY <1>5, <4>2 DEF Keeps
    <3>2. CASE ~c.inprog
      <4>1. CASE ~e.fd
        BY <1>4, <1>8, <3>2, <4>1, KeepsSelf DEF tcp_close
      <4>2. CASE e.fd
        <5> DEFINE a == [e EXCEPT !.fd = FALSE]
                   b == [a EXCEPT !.error = "ENOTCONN"]
        <5>1. Keeps(e, a, {"fd"}) /\ a.state = "CLOSED"
          <6>1. Keeps(e, a, {"fd"})
            BY <1>4 DEF Full, Keeps
          <6> QED
            BY <2>1, <6>1 DEF Keeps, Names
        <5>2. Keeps(a, b, {"error"}) /\ b.state = "CLOSED"
          <6>1. Keeps(a, b, {"error"})
            BY <5>1 DEF Full, Keeps
          <6> QED
            BY <5>1, <6>1 DEF Keeps, Names
        <5>3. tcp_shutdown(a) = b
          BY <5>1 DEF tcp_shutdown, tcp_close_connection
        <5>4. t = IF b.UNA = b.NXT THEN tcp_close_connection(b, "ENOTCONN") ELSE b
          BY <1>8, <3>2, <4>2, <5>2, <5>3 DEF tcp_close
        <5> HIDE DEF b
        <5>5. tcp_close_connection(b, "ENOTCONN") = [b EXCEPT !.error = "ENOTCONN"]
          BY <5>2 DEF tcp_close_connection
        <5>6. Keeps(b, t, {"error"})
          <6>1. t = b \/ t = [b EXCEPT !.error = "ENOTCONN"]
            BY <5>4, <5>5
          <6>2. Full(b)
            BY <5>2 DEF Keeps
          <6> QED
            BY <6>1, <6>2 DEF Full, Keeps
        <5> QED
          BY <5>1, <5>2, <5>6 DEF Keeps
      <4> QED
        BY <4>1, <4>2
    <3> QED
      BY <3>1, <3>2
  <2>3. MiscOK(p, t)
    <3>1. {"inprog", "fd", "error"} \cap MiscFields = {}
      BY DEF MiscFields
    <3> QED
      BY <1>2, <2>2, <3>1, MiscFrame
  <2>4. Keeps(c, t, S)
    BY <1>2, <2>2 DEF Keeps
  <2>5. S \cap (SendFields \cup RecvFields \cup {"state", "connected"}) = {}
    BY DEF CancelFields, SendFields, RecvFields, TakeFields
  <2>6. c.connected \/ Fresh(t)
    <3>1. CASE ~c.connected
      <4>1. Fresh(c)
        BY <1>12, <3>1 DEF Over
      <4>2. /\ t.sent = c.sent /\ t.ended = c.ended /\ t.finsent = c.finsent
            /\ t.finrecv = c.finrecv /\ t.got = c.got /\ t.rcvd = c.rcvd /\ t.adv = c.adv
            /\ t.sendq = c.sendq /\ t.eof = c.eof /\ t.shut = c.shut
        BY <2>4 DEF Keeps, CancelFields, Names
      <4>3. t.reading = e.reading /\ t.writing = e.writing /\ t.ioctl = e.ioctl
        BY <2>2 DEF Keeps, Names
      <4> QED
        BY <1>2, <4>1, <4>2, <4>3 DEF Fresh
    <3> QED
      BY <3>1
  <2>8. Sure(p, c, t, q)
    <3>1. t.open = e.open
      BY <2>2 DEF Keeps, Names
    <3>2. S \cap {"eof", "shut", "got", "ended", "sent", "state", "connected"} = {}
      BY DEF CancelFields
    <3> HIDE DEF S
    <3> QED
      BY <1>2, <2>4, <3>1, <3>2, MuteSure
  <2> HIDE DEF S
  <2>7. Over(p, o, t, q) /\ Grows(o, c, t)
    BY <1>12, <2>3, <2>4, <2>5, <2>6, OverPost
  <2> QED
    BY <2>7, <2>8 DEF Does, Goes, Good
<1>13. CASE Hand(p, o, c)
  <2>1. /\ Opening(p, o, c) /\ SendTypes(c) /\ RecvTypes(c) /\ Fresh(c) /\ ~c.connected
        /\ c.state \in Handshake /\ c.state # "CLOSED" /\ c.inprog
    BY <1>13 DEF Hand, Opening, Handshake
  <2>2. Keeps(c, f, CancelFields \cup {"inprog", "fd"})
    BY <1>2, <1>5 DEF Keeps
  <2>3. SendTypes(f) /\ RecvTypes(f)
    <3>1. /\ f.UNA = c.UNA /\ f.TRM = c.TRM /\ f.NXT = c.NXT /\ f.cwnd = c.cwnd
          /\ f.sent = c.sent /\ f.cthresh = c.cthresh /\ f.finsent = c.finsent
          /\ f.ended = c.ended /\ f.LO = c.LO /\ f.RCV = c.RCV /\ f.HI = c.HI
          /\ f.advseq = c.advseq /\ f.finrecv = c.finrecv
      BY <2>2 DEF Keeps, CancelFields, Names
    <3> QED
      BY <2>1, <3>1 DEF SendTypes, RecvTypes
  <2>4. Fresh(f)
    <3>1. /\ f.sent = c.sent /\ f.ended = c.ended /\ f.finsent = c.finsent
          /\ f.finrecv = c.finrecv /\ f.got = c.got /\ f.rcvd = c.rcvd /\ f.adv = c.adv
          /\ f.sendq = c.sendq /\ f.eof = c.eof /\ f.shut = c.shut
      BY <2>2 DEF Keeps, CancelFields, Names
    <3>2. f.reading = e.reading /\ f.writing = e.writing /\ f.ioctl = e.ioctl
      BY <1>5 DEF Keeps, Names
    <3> QED
      BY <1>2, <2>1, <3>1, <3>2 DEF Fresh
  <2>5. f.state # "CLOSED" /\ ~f.connected
    BY <1>4, <1>9, <2>1
  <2>6. Over(p, o, g, q) /\ ~g.connected
    BY <1>9, <2>3, <2>4, <2>5, FreshCloses DEF g
  <2>7. Grows(o, c, g)
    <3>1. g.sent \in Nat /\ Len(g.got) \in Nat
      BY <2>6, SizedAre DEF Sized
    <3> QED
      BY <2>1, <3>1, FreshGrows
  <2> QED
    BY <1>7, <1>13, <2>1, <2>6, <2>7, HandWaits DEF Waits
<1> QED
  BY <1>11, <1>12, <1>13 DEF Good

(* A timer that expires and sends nothing. *)
LEMMA GoodTick ==
  ASSUME NEW p \in Peer, NEW o \in Peer, NEW c, NEW q, Good(p, o, c, q),
         NEW t, Keeps(c, t, {"tseq", "stt", "timer"}), t.tseq \in Num
  PROVE  Does(p, o, c, t, q)
<1> DEFINE S == {"tseq", "stt", "timer"}
<1>1. MiscOK(p, c) /\ Full(c)
  BY GoodSent DEF MiscOK
<1>2. /\ S \cap (OpenFixed \ {"frag", "tseq"}) = {}
      /\ S \cap (SendFields \cup RecvFields \cup {"state", "connected"}) = {}
  BY DEF OpenFixed, LiveFields, MiscFields, SendFields, RecvFields, TakeFields
<1>3. /\ t.iss = c.iss /\ t.PSH = c.PSH /\ t.posted = c.posted
      /\ t.connected = c.connected /\ t.frag = c.frag /\ t.finsent = c.finsent
      /\ t.wcount = c.wcount /\ t.rcount = c.rcount /\ t.writing = c.writing
      /\ t.reading = c.reading /\ t.open = c.open /\ t.ioctl = c.ioctl /\ t.more = c.more
  BY DEF Keeps, Names
<1>4. MiscOK(p, t)
  BY <1>1, <1>3 DEF MiscOK, Keeps
<1>5. FragOK(t.frag)
  BY <1>4 DEF MiscOK
<1> HIDE DEF S
<1>6. Keeps(c, t, S)
  BY DEF S
<1>10. Sure(p, c, t, q)
  BY <1>6, StillSure DEF S
<1> SUFFICES Goes(p, o, c, t, q)
  BY <1>10 DEF Does
<1>7. CASE Live(p, o, c, q)
  <2>1. Moves(p, o, c, t, q)
    BY <1>2, <1>4, <1>6, <1>7, LivePost
  <2> QED
    BY <2>1, MovesSettle, SettlesGo
<1>8. CASE Over(p, o, c, q)
  BY <1>2, <1>5, <1>6, <1>8, OverFrame DEF Goes, Good
<1>9. CASE Hand(p, o, c)
  BY <1>2, <1>3, <1>5, <1>6, <1>9, HandFrame DEF Goes, Good
<1> QED
  BY <1>7, <1>8, <1>9 DEF Good

(* Retransmission. *)
LEMMA RetransmitIs ==
  ASSUME NEW c, Full(c), SendTypes(c), NEW t, t = Retransmit(c)
  PROVE  /\ Keeps(c, t, {"TRM", "cwnd", "cthresh", "more"})
         /\ t.TRM = c.UNA /\ t.cwnd \in Num /\ t.cthresh \in Nat /\ t.more
         /\ c.cwnd # c.UNA => t.cwnd \in {c.cwnd, Add(c.UNA, 2 * MSS)}
<1> DEFINE probe == IF c.cwnd = c.UNA THEN Add(c.cwnd, 1) ELSE c.cwnd
           two == 2 * MSS
           past == Add(c.UNA, two)
           large == Gmod4G(probe, past)
           half == c.cthresh \div 2
           w == IF large THEN past ELSE probe
           h == IF ~large THEN c.cthresh ELSE IF half < two THEN two ELSE half
           d == [c EXCEPT !.TRM = c.UNA, !.cwnd = w, !.cthresh = h]
<1>1. t = tcp_conn_write(d)
  BY DEF Retransmit
<1>2. two \in Nat /\ half \in Nat
  BY Space DEF SendTypes
<1> HIDE DEF two, half
<1>3. probe \in Num /\ past \in Num
  <2>1. c.UNA \in Num /\ c.cwnd \in Num
    BY DEF SendTypes
  <2>2. c.UNA \in Int /\ c.cwnd \in Int
    BY <2>1 DEF Num
  <2> QED
    BY <1>2, <2>1, <2>2, AddNum
<1> HIDE DEF past
<1>4. c.cwnd # c.UNA => probe = c.cwnd
  OBVIOUS
<1> HIDE DEF probe, large
<1>5. w \in Num /\ h \in Nat /\ w \in {probe, past}
  BY <1>2, <1>3 DEF SendTypes
<1> HIDE DEF w, h
<1>6. Keeps(c, d, {"TRM", "cwnd", "cthresh"}) /\ Full(d)
  BY DEF Full, Keeps
<1>7. d.TRM = c.UNA /\ d.cwnd = w /\ d.cthresh = h
  BY DEF Full, Names
<1> HIDE DEF d
<1>8. Keeps(d, t, {"more"}) /\ t.more
  BY <1>1, <1>6, FrameWrite
<1>9. t.TRM = d.TRM /\ t.cwnd = d.cwnd /\ t.cthresh = d.cthresh
  BY <1>8 DEF Keeps, Names
<1>10. Keeps(c, t, {"TRM", "cwnd", "cthresh", "more"})
  BY <1>6, <1>8 DEF Keeps
<1>11. c.cwnd # c.UNA => w \in {c.cwnd, Add(c.UNA, 2 * MSS)}
  BY <1>4, <1>5 DEF past, two
<1> QED
  BY <1>5, <1>7, <1>8, <1>9, <1>10, <1>11

LEMMA GoodRetransmit ==
  ASSUME NEW p \in Peer, NEW o \in Peer, NEW c, NEW q, Good(p, o, c, q), Room(p, q),
         NEW t, t = Retransmit(c)
  PROVE  Does(p, o, c, t, q)
<1> DEFINE S == {"TRM", "cwnd", "cthresh", "more"}
<1>1. MiscOK(p, c) /\ Full(c) /\ SendTypes(c) /\ RecvTypes(c)
  BY GoodSent DEF MiscOK
<1>2. /\ Keeps(c, t, S) /\ t.TRM = c.UNA /\ t.cwnd \in Num /\ t.cthresh \in Nat /\ t.more
      /\ c.cwnd # c.UNA => t.cwnd \in {c.cwnd, Add(c.UNA, 2 * MSS)}
  BY <1>1, RetransmitIs
<1>6. Sure(p, c, t, q)
  BY <1>2, StillSure
<1> SUFFICES Goes(p, o, c, t, q)
  BY <1>6 DEF Does
<1>3. CASE Live(p, o, c, q)
  BY <1>3, LiveRetransmit, MovesSettle, SettlesGo
<1>4. CASE Over(p, o, c, q)
  <2>1. MiscOK(p, t) /\ t.connected = c.connected /\ t.state = c.state
    <3>1. S \cap MiscFields = {}
      BY DEF MiscFields
    <3> QED
      BY <1>1, <1>2, <3>1, MiscFrame
  <2>2. /\ t.sent = c.sent /\ t.ended = c.ended /\ t.finsent = c.finsent
        /\ t.finrecv = c.finrecv /\ t.got = c.got /\ t.rcvd = c.rcvd /\ t.adv = c.adv
        /\ t.sendq = c.sendq /\ t.eof = c.eof /\ t.shut = c.shut /\ t.UNA = c.UNA
        /\ t.NXT = c.NXT /\ t.LO = c.LO /\ t.RCV = c.RCV /\ t.HI = c.HI
        /\ t.advseq = c.advseq /\ t.reading = c.reading /\ t.writing = c.writing
        /\ t.ioctl = c.ioctl
    BY <1>2 DEF Keeps, Names
  <2>3. SendTypes(t) /\ RecvTypes(t)
    BY <1>1, <1>2, <2>2 DEF SendTypes, RecvTypes
  <2>4. (c.connected => Rest(o, t, q)) /\ (~c.connected => Fresh(t))
    BY <1>4, <2>2 DEF Over, Rest, Fresh
  <2>5. Over(p, o, t, q)
    BY <1>4, <2>1, <2>2, <2>3, <2>4 DEF Over
  <2>6. Grows(o, c, t)
    <3>1. Sized(o, c)
      BY <1>4, SizedAre
    <3> QED
      BY <2>1, <2>2, <3>1 DEF Grows, Sized
  <2> QED
    BY <2>5, <2>6 DEF Goes, Good
<1>5. CASE Hand(p, o, c)
  <2>1. /\ Opening(p, o, c) /\ c.UNA = ISS[p]
        /\ 1 <= Pos(p, c.cwnd) /\ Pos(p, c.cwnd) <= 2 * MSS + RCV_WND
    BY <1>5 DEF Hand, Opening
  <2>2. ISS[p] \in Num /\ Pos(p, ISS[p]) = 0
    BY PosStart
  <2>3. c.cwnd # c.UNA
    BY <2>1, <2>2
  <2>4. 1 <= Pos(p, t.cwnd) /\ Pos(p, t.cwnd) <= 2 * MSS + RCV_WND
    <3>1. CASE t.cwnd = c.cwnd
      BY <2>1, <3>1
    <3>2. CASE t.cwnd = Add(c.UNA, 2 * MSS)
      <4> DEFINE two == 2 * MSS
      <4>1. two \in Nat /\ 1 <= two /\ two < SeqSpace /\ two <= two + RCV_WND
        BY Space, SpaceBig, NetAssumption
      <4> HIDE DEF two
      <4>2. Pos(p, Add(ISS[p], two)) = two
        <5>1. /\ ISS[p] \in Num /\ two \in Int /\ - SeqSpace <= two /\ two <= SeqSpace
              /\ 0 <= Pos(p, ISS[p]) + two /\ Pos(p, ISS[p]) + two < SeqSpace
          BY <2>2, <4>1, Space
        <5>2. Pos(p, Add(ISS[p], two)) = Pos(p, ISS[p]) + two
          BY <5>1, PosAdd
        <5> QED
          BY <2>2, <4>1, <5>2
      <4>3. t.cwnd = Add(ISS[p], two)
        BY <2>1, <3>2 DEF two
      <4> QED
        BY <4>1, <4>2, <4>3 DEF two
    <3> QED
      BY <1>2, <2>3, <3>1, <3>2
  <2>5. t.tseq = c.tseq /\ t.frag = c.frag
    BY <1>2 DEF Keeps, Names
  <2>6. Pos(p, t.TRM) <= 1 /\ t.TRM \in Num
    BY <1>2, <2>1, <2>2
  <2>7. S \cap (OpenFixed \ {"frag", "tseq", "TRM", "cwnd", "cthresh"}) = {}
    BY DEF OpenFixed, LiveFields, MiscFields, SendFields, RecvFields, TakeFields
  <2>8. t.tseq \in Num /\ FragOK(t.frag)
    BY <1>1, <2>5 DEF MiscOK
  <2> HIDE DEF S
  <2>9. Opening(p, o, t) /\ Grows(o, c, t)
    BY <1>2, <2>1, <2>4, <2>6, <2>7, <2>8, OpeningFrame
  <2> QED
    BY <1>2, <2>9 DEF Goes, Good, Hand
<1> QED
  BY <1>3, <1>4, <1>5 DEF Good

(* tcp_close_connection() when the other side gives no sign of life. *)
LEMMA GoodGivesUp ==
  ASSUME NEW p \in Peer, NEW o \in Peer, NEW c, NEW q, Good(p, o, c, q), Room(p, q), NEW err,
         err # "OK", NEW t, t = tcp_close_connection(c, err)
  PROVE  Does(p, o, c, t, q)
<1>1. CASE Live(p, o, c, q)
  BY <1>1, LiveCloses, CloseTells, SettlesDo
<1>2. CASE Over(p, o, c, q)
  <2>1. Full(c) /\ MiscOK(p, c) /\ c.state = "CLOSED"
    BY <1>2 DEF Over, MiscOK
  <2>2. t = [c EXCEPT !.error = err]
    BY <2>1 DEF tcp_close_connection
  <2>3. Keeps(c, t, {"error"})
    BY <2>1, <2>2 DEF Full, Keeps
  <2>4. t.frag = c.frag /\ t.tseq = c.tseq
    BY <2>3 DEF Keeps, Names
  <2>5. FragOK(t.frag) /\ t.tseq \in Num
    BY <2>1, <2>4 DEF MiscOK
  <2>6. {"error"} \cap (OpenFixed \ {"frag", "tseq"}) = {}
    BY DEF OpenFixed, LiveFields, MiscFields, SendFields, RecvFields, TakeFields
  <2>7. t.error # "OK"
    BY <2>1, <2>2 DEF Full, Names
  <2>8. Sure(p, c, t, q)
    BY <2>3, <2>7, MuteSure
  <2> QED
    BY <1>2, <2>3, <2>5, <2>6, <2>8, OverFrame DEF Does, Goes, Good
<1>3. CASE Hand(p, o, c)
  BY <1>3, OpeningOver DEF Waits
<1> QED
  BY <1>1, <1>2, <1>3 DEF Good

(* tcp_ioctl(NWIOTCPLISTEN) and tcp_ioctl(NWIOTCPCONN). *)
LEMMA GoodOpen ==
  ASSUME NEW p \in Peer, NEW o \in Peer, NEW c, NEW q, Good(p, o, c, q), Steady(c),
         c.opened = "no", c.ioctl = "none", NEW how, how # "SHUTDOWN",
         NEW d, d = [c EXCEPT !.ioctl = how],
         NEW t, t = tcp_su4listen(d) \/ t = tcp_su4connect(d)
  PROVE  Does(p, o, c, t, q)
<1>1. MiscOK(p, c) /\ Full(c)
  BY GoodSent DEF MiscOK
<1>2. ~c.connected /\ c.state \notin Handshake
  BY DEF Steady, OpensOnce
<1>3. Over(p, o, c, q) /\ Fresh(c)
  BY <1>2 DEF Good, Live, Hand, Opening, Over
<1>4. Keeps(c, d, {"ioctl"}) /\ d.ioctl = how
  <2>1. Keeps(c, d, {"ioctl"})
    BY <1>1 DEF Full, Keeps
  <2>2. d.ioctl = how
    BY <1>1 DEF Full, Names
  <2> QED
    BY <2>1, <2>2
<1>5. /\ d.iss = c.iss /\ d.PSH = c.PSH /\ d.tseq = c.tseq /\ d.posted = c.posted
      /\ d.connected = c.connected /\ d.frag = c.frag /\ d.finsent = c.finsent
      /\ d.wcount = c.wcount /\ d.rcount = c.rcount /\ d.writing = c.writing
      /\ d.reading = c.reading /\ d.open = c.open
      /\ d.sent = c.sent /\ d.ended = c.ended
      /\ d.finrecv = c.finrecv /\ d.got = c.got /\ d.rcvd = c.rcvd /\ d.adv = c.adv
      /\ d.sendq = c.sendq /\ d.eof = c.eof /\ d.shut = c.shut
  BY <1>4 DEF Keeps, Names
<1>6. MiscOK(p, d)
  BY <1>1, <1>4, <1>5 DEF MiscOK, Keeps
<1>7. Fresh(d)
  BY <1>3, <1>4, <1>5 DEF Fresh
<1>8. {"ioctl"} \cap (SendFields \cup RecvFields \cup {"state", "connected"}) = {}
  BY DEF SendFields, RecvFields, TakeFields
<1>9. Over(p, o, d, q) /\ Grows(o, c, d) /\ ~d.connected
  BY <1>2, <1>3, <1>4, <1>6, <1>7, <1>8, OverPost
<1>10. Goes(p, o, d, t, q)
  BY <1>9, OverStarts DEF Goes, Good
<1>11. Goes(p, o, c, d, q)
  BY <1>9 DEF Goes, Good
<1>12. ~t.connected
  <2>1. Hand(p, o, t)
    BY <1>9, OverStarts
  <2> QED
    BY <2>1 DEF Hand, Opening
<1> QED
  BY <1>2, <1>10, <1>11, <1>12, GoesTrans, FreshDoes DEF Waits

\* What holds of p's block, and of the segments under way from p.
Held(p) ==
  /\ Good(p, Other(p), tcb[p], tcb[Other(p)])
  /\ ~tcb[p].more /\ tcb[p].frag = NoRST
  /\ net[Other(p)] \in Seq(Said(p, Other(p), tcb[p]))

\* The inductive invariant: each block good, and each segment under way true.
ConnInv ==
  /\ script \in Scripts /\ faults \in 0 .. MaxFaults
  /\ DOMAIN tcb = Peer /\ DOMAIN net = Peer
  /\ \A p \in Peer : Held(p)

\* No program writes as much as half of the sequence numbers.
ShortStreams == \A p \in Peer : Short(tcb[p])

\* A step of p leaves both sides as they should be.
Carried(p) ==
  /\ DOMAIN tcb' = Peer /\ DOMAIN net' = Peer
  /\ \A r \in Peer : Held(r)'
  /\ Works(p, Other(p), tcb[p], tcb'[p], tcb[Other(p)])
  /\ tcb'[Other(p)] = tcb[Other(p)]

LEMMA OtherIs ==
  ASSUME NEW p \in Peer
  PROVE  /\ Other(p) \in Peer /\ Other(p) # p /\ Other(Other(p)) = p
         /\ \A r \in Peer : r = p \/ r = Other(p)
<1>1. PICK x \in Peer, y \in Peer : x # y /\ Peer = {x, y}
  BY PeerAssumption
<1>2. ASSUME NEW r \in Peer
      PROVE  Other(r) \in Peer /\ Other(r) # r
  <2>1. \E z \in Peer : z # r
    BY <1>1
  <2> QED
    BY <2>1 DEF Other
<1> QED
  BY <1>1, <1>2

LEMMA RoomHere ==
  ASSUME ConnInv, ShortStreams, NEW p \in Peer
  PROVE  Room(p, tcb[Other(p)])
<1>1. Other(p) \in Peer /\ Other(Other(p)) = p
  BY OtherIs
<1>2. Held(p) /\ Held(Other(p)) /\ Short(tcb[p]) /\ Short(tcb[Other(p)])
  BY <1>1 DEF ConnInv, ShortStreams
<1>3. Good(p, Other(p), tcb[p], tcb[Other(p)]) /\ Good(Other(p), p, tcb[Other(p)], tcb[p])
  BY <1>1, <1>2 DEF Held
<1> QED
  BY <1>1, <1>2, <1>3, RoomIs

(* The end of every handler: what the port writes is true, and what the other
   side knows and sent stays so. *)
LEMMA SentCarries ==
  ASSUME ConnInv, ShortStreams, NEW p \in Peer,
         NEW d, Works(p, Other(p), tcb[p], d, tcb[Other(p)]),
         NEW kept, kept \in Seq(Said(Other(p), p, tcb[Other(p)])),
         Sent(p, kept, tcp_port_write(d))
  PROVE  Carried(p)
<1> DEFINE o == Other(p)
           c == tcb[p]
           q == tcb[o]
           t == tcp_port_write(d)
<1>1. o \in Peer /\ o # p /\ Other(o) = p /\ \A r \in Peer : r = p \/ r = o
  BY OtherIs
<1>2. Room(p, q)
  BY RoomHere
<1>3. Held(p) /\ Held(o) /\ DOMAIN tcb = Peer /\ DOMAIN net = Peer
  BY <1>1 DEF ConnInv
<1>4. Good(p, o, c, q) /\ Good(o, p, q, c) /\ ~q.more /\ q.frag = NoRST
      /\ net[o] \in Seq(Said(p, o, c))
  BY <1>1, <1>3 DEF Held
<1>5. /\ tcb' = [tcb EXCEPT ![p] = t.c]
      /\ net' = [net EXCEPT ![p] = kept, ![o] = net[o] \o t.out]
  BY <1>1, <1>3 DEF Sent
<1>6. tcb'[p] = t.c /\ tcb'[o] = q /\ DOMAIN tcb' = Peer
  BY <1>1, <1>3, <1>5
<1>7. net'[p] = kept /\ net'[o] = net[o] \o t.out /\ DOMAIN net' = Peer
  BY <1>1, <1>3, <1>5
<1>8. Works(p, o, c, d, q) /\ Goes(p, o, c, d, q) /\ kept \in Seq(Said(o, p, q))
  BY DEF Works
<1> HIDE DEF o, c, q, t
<1>9. /\ Goes(p, o, d, t.c, q) /\ Sure(p, d, t.c, q) /\ t.c.state = d.state
      /\ t.c.error = d.error /\ ~t.c.more /\ t.c.frag = NoRST /\ t.out \in Seq(Said(p, o, t.c))
  BY <1>1, <1>2, <1>8, PortGood DEF Goes, Does, t
<1>10. Goes(p, o, c, t.c, q)
  BY <1>1, <1>4, <1>8, <1>9, GoesTrans
<1>11. Good(p, o, t.c, q) /\ Good(o, p, q, t.c)
  BY <1>1, <1>4, <1>10, StaysGood DEF Goes
<1>12. Said(p, o, c) \subseteq Said(p, o, t.c)
  BY <1>1, <1>4, <1>10, SaidGrows
<1>13. net'[o] \in Seq(Said(p, o, t.c))
  <2>1. net[o] \in Seq(Said(p, o, t.c))
    BY <1>4, <1>12
  <2> QED
    BY <1>7, <1>9, <2>1
<1>14. Held(p)'
  <2>1. Good(p, o, tcb'[p], tcb'[o]) /\ ~tcb'[p].more /\ tcb'[p].frag = NoRST
        /\ net'[o] \in Seq(Said(p, o, tcb'[p]))
    BY <1>6, <1>9, <1>11, <1>13
  <2> QED
    BY <2>1 DEF Held, o
<1>15. Held(o)'
  <2>1. Good(o, p, tcb'[o], tcb'[p]) /\ ~tcb'[o].more /\ tcb'[o].frag = NoRST
        /\ net'[p] \in Seq(Said(o, p, tcb'[o]))
    BY <1>4, <1>6, <1>7, <1>8, <1>11
  <2> QED
    BY <1>1, <2>1 DEF Held
<1>16. \A r \in Peer : Held(r)'
  BY <1>1, <1>14, <1>15
<1>17. Works(p, o, c, t.c, q)
  <2>1. CutOff(c, t.c, q) <=> CutOff(c, d, q)
    BY <1>9 DEF CutOff
  <2> QED
    BY <1>8, <1>9, <1>10, <2>1, SureTrans DEF Works
<1> QED
  BY <1>6, <1>7, <1>16, <1>17 DEF Carried, o, c, q

(* The same when nothing under way to p is taken. *)
LEMMA FinishCarries ==
  ASSUME ConnInv, ShortStreams, NEW p \in Peer,
         NEW d, Works(p, Other(p), tcb[p], d, tcb[Other(p)]), Finish(p, d)
  PROVE  Carried(p)
<1>1. Other(p) \in Peer /\ Other(Other(p)) = p
  BY OtherIs
<1>2. net[p] \in Seq(Said(Other(p), p, tcb[Other(p)]))
  BY <1>1 DEF ConnInv, Held
<1>3. Sent(p, net[p], tcp_port_write(d))
  BY DEF Finish
<1> QED
  BY <1>2, <1>3, SentCarries

(* A segment under way to p says what is true of its sender. *)
LEMMA ArriveCarries ==
  ASSUME ConnInv, ShortStreams, NEW p \in Peer, NEW i, i \in 1 .. Len(net[p]),
         NEW kept, kept \in Seq(Said(Other(p), p, tcb[Other(p)])), Arrive(p, i, kept)
  PROVE  Carried(p) /\ script' = script
<1> DEFINE o == Other(p)
<1>1. o \in Peer /\ Other(o) = p
  BY OtherIs
<1>2. Held(p) /\ Held(o)
  BY <1>1 DEF ConnInv
<1>3. net[p] \in Seq(Said(o, p, tcb[o]))
  BY <1>1, <1>2 DEF Held
<1>4. net[p][i] \in Said(o, p, tcb[o])
  BY <1>3
<1>5. net[p][i] \in Segment /\ Truth(o, p, net[p][i], tcb[o])
  BY <1>4 DEF Said
<1>6. Room(p, tcb[o])
  BY RoomHere
<1>7. Good(p, o, tcb[p], tcb[o]) /\ Good(o, p, tcb[o], tcb[p]) /\ ~tcb[p].more
  BY <1>1, <1>2 DEF Held
<1>8. Works(p, o, tcb[p], tcp_frag2conn(tcb[p], net[p][i]), tcb[o])
  BY <1>1, <1>5, <1>6, <1>7, GoodSegment
<1>9. Sent(p, kept, tcp_port_write(tcp_frag2conn(tcb[p], net[p][i]))) /\ script' = script
  BY DEF Arrive
<1> QED
  BY <1>8, <1>9, SentCarries

(* What the network keeps of what is under way. *)
LEMMA KeptSeq ==
  ASSUME NEW S, NEW s \in Seq(S), s # <<>>
  PROVE  Tail(s) \in Seq(S) /\ 1 \in 1 .. Len(s)
         /\ \A i \in 1 .. Len(s) : RemoveAt(s, i) \in Seq(S)
<1>1. Tail(s) \in Seq(S) /\ 1 \in 1 .. Len(s)
  OBVIOUS
<1>2. \A i \in 1 .. Len(s) : RemoveAt(s, i) \in Seq(S)
  BY Removed
<1> QED
  BY <1>1, <1>2

LEMMA LoseCarries ==
  ASSUME ConnInv, NEW p \in Peer, Lose(p)
  PROVE  DOMAIN tcb' = Peer /\ DOMAIN net' = Peer /\ \A r \in Peer : Held(r)'
<1> DEFINE o == Other(p)
<1>1. o \in Peer /\ o # p /\ Other(o) = p /\ \A r \in Peer : r = p \/ r = o
  BY OtherIs
<1>2. tcb' = tcb
  BY DEF Lose
<1>3. PICK i \in 1 .. Len(net[p]) : net' = [net EXCEPT ![p] = RemoveAt(net[p], i)]
  BY DEF Lose
<1>4. Held(p) /\ Held(o) /\ DOMAIN net = Peer /\ DOMAIN tcb = Peer
  BY <1>1 DEF ConnInv
<1>5. net'[p] = RemoveAt(net[p], i) /\ net'[o] = net[o] /\ DOMAIN net' = Peer
  BY <1>1, <1>3, <1>4
<1>6. net[p] \in Seq(Said(o, p, tcb[o]))
  BY <1>1, <1>4 DEF Held
<1>7. net'[p] \in Seq(Said(o, p, tcb[o]))
  BY <1>5, <1>6, Removed
<1>8. Held(p)'
  BY <1>2, <1>4, <1>5 DEF Held
<1>9. Held(o)'
  BY <1>1, <1>2, <1>4, <1>7 DEF Held
<1> QED
  BY <1>1, <1>2, <1>4, <1>5, <1>8, <1>9

LEMMA FaultLeft ==
  ASSUME faults \in 0 .. MaxFaults, NEW kind, Fault(kind)
  PROVE  faults' \in 0 .. MaxFaults
<1>1. MaxFaults \in Nat
  BY NetAssumption
<1> QED
  BY <1>1 DEF Fault

LEMMA ConnInit == Init => ConnInv
<1> SUFFICES ASSUME Init PROVE ConnInv
  OBVIOUS
<1>1. /\ script \in Scripts /\ faults \in 0 .. MaxFaults /\ DOMAIN tcb = Peer /\ DOMAIN net = Peer
      /\ \A p \in Peer : tcb[p] = FreshBlock(p) /\ net[p] = <<>>
  BY NetAssumption DEF Init
<1>2. ASSUME NEW p \in Peer PROVE Held(p)
  <2> DEFINE c == FreshBlock(p)
  <2>1. Other(p) \in Peer
    BY OtherIs
  <2>2. tcb[p] = c /\ net[Other(p)] = <<>>
    BY <1>1, <2>1
  <2>3. ISS[p] \in Num /\ 0 \in Num
    BY PosStart, Space DEF Num
  <2>4. Full(c)
    BY DEF FreshBlock, Full, Names
  <2>5. /\ c.iss = ISS[p] /\ c.PSH = ISS[p] /\ c.tseq = 0 /\ c.wcount = 0 /\ c.rcount = 0
        /\ c.posted = 0 /\ c.connected = FALSE /\ c.frag = NoRST /\ c.finsent = FALSE
        /\ c.writing = FALSE /\ c.reading = FALSE /\ c.ioctl = "none" /\ c.more = FALSE
    BY DEF FreshBlock
  <2>6. /\ c.state = "CLOSED" /\ c.UNA = ISS[p] /\ c.TRM = ISS[p] /\ c.NXT = ISS[p]
        /\ c.cwnd = ISS[p] /\ c.cthresh = SND_WND /\ c.sendq = <<>> /\ c.sent = 0
        /\ c.ended = FALSE
    BY DEF FreshBlock
  <2>7. /\ c.LO = 0 /\ c.RCV = 0 /\ c.HI = 0 /\ c.rcvd = <<>> /\ c.adv = <<>> /\ c.advseq = 0
        /\ c.finrecv = FALSE /\ c.got = <<>> /\ c.eof = FALSE /\ c.shut = "no"
    BY DEF FreshBlock
  <2> HIDE DEF c
  <2>8. MiscOK(p, c)
    <3>1. c.PSH \in Num /\ c.tseq \in Num /\ {c.wcount, c.rcount, c.posted} \subseteq Nat
      BY <2>3, <2>5
    <3>2. FragOK(c.frag) /\ ~c.reading /\ ~c.finsent /\ c.ioctl # "SHUTDOWN"
          /\ c.connected \in BOOLEAN
      BY <2>5 DEF FragOK
    <3> QED
      BY <2>4, <2>5, <3>1, <3>2 DEF MiscOK
  <2>9. SendTypes(c) /\ RecvTypes(c)
    <3>1. SND_WND \in Nat /\ c.sent \in Nat
      BY <2>6, Space
    <3>2. SendTypes(c)
      BY <2>3, <2>5, <2>6, <3>1 DEF SendTypes
    <3>3. RecvTypes(c)
      BY <2>3, <2>7 DEF RecvTypes
    <3> QED
      BY <3>2, <3>3
  <2>10. Fresh(c)
    BY <2>5, <2>6, <2>7 DEF Fresh
  <2>11. Over(p, Other(p), c, tcb[Other(p)])
    BY <2>5, <2>6, <2>7, <2>8, <2>9, <2>10 DEF Over
  <2> QED
    BY <2>2, <2>5, <2>11 DEF Held, Good
<1> QED
  BY <1>1, <1>2 DEF ConnInv

\* No block takes anything back.
Grown == \A p \in Peer : Grows(Other(p), tcb[p], tcb'[p])

\* At most one of them changes, and tells what is so.
Acts ==
  tcb' = tcb \/ \E p \in Peer :
    /\ Works(p, Other(p), tcb[p], tcb'[p], tcb[Other(p)])
    /\ tcb'[Other(p)] = tcb[Other(p)]

LEMMA CarriedInv ==
  ASSUME ConnInv, NEW p \in Peer, Carried(p), script' \in Scripts, faults' \in 0 .. MaxFaults
  PROVE  ConnInv' /\ Grown /\ Acts
<1>1. Other(p) \in Peer /\ Other(Other(p)) = p /\ \A r \in Peer : r = p \/ r = Other(p)
  BY OtherIs
<1>2. ConnInv'
  BY DEF Carried, ConnInv
<1>3. Grows(Other(p), tcb[p], tcb'[p])
  BY DEF Carried, Works, Goes
<1>4. Grows(p, tcb[Other(p)], tcb'[Other(p)])
  <2>1. Good(Other(p), p, tcb[Other(p)], tcb[p])
    BY <1>1 DEF ConnInv, Held
  <2>2. Sized(p, tcb[Other(p)])
    BY <1>1, <2>1, GoodSized
  <2>3. tcb'[Other(p)] = tcb[Other(p)]
    BY DEF Carried
  <2> QED
    BY <2>2, <2>3 DEF Grows, Sized
<1>5. ASSUME NEW r \in Peer PROVE Grows(Other(r), tcb[r], tcb'[r])
  BY <1>1, <1>3, <1>4
<1>6. Acts
  BY DEF Carried, Acts
<1> QED
  BY <1>2, <1>5, <1>6 DEF Grown

LEMMA StillInv ==
  ASSUME ConnInv, tcb' = tcb, DOMAIN net' = Peer, \A r \in Peer : Held(r)',
         script' \in Scripts, faults' \in 0 .. MaxFaults
  PROVE  ConnInv' /\ Grown /\ Acts
<1>1. ConnInv'
  BY DEF ConnInv
<1>2. ASSUME NEW p \in Peer PROVE Grows(Other(p), tcb[p], tcb'[p])
  <2>1. Other(p) \in Peer /\ Good(p, Other(p), tcb[p], tcb[Other(p)])
    BY OtherIs DEF ConnInv, Held
  <2>2. Sized(Other(p), tcb[p])
    BY <2>1, GoodSized
  <2> QED
    BY <2>2 DEF Grows, Sized
<1> QED
  BY <1>1, <1>2 DEF Grown, Acts

(* What a script asks for is something. *)
LEMMA ScriptIs ==
  ASSUME script \in Scripts, NEW p \in Peer
  PROVE  /\ script[p].writes \in Seq(Nat \ {0}) /\ script[p].read \in Nat
<1>1. script \in [Peer -> [open : {"connect", "listen"},
                         writes : Seq(Nat \ {0}), read : Nat,
                         shutdown : BOOLEAN,
                         close : {"never", "eof", "early"}]]
  BY ScriptAssumption
<1> QED
  BY <1>1

(* What the programs do. *)
LEMMA ProgramCarries ==
  ASSUME ConnInv, SteadyInv, ShortStreams, NEW p \in Peer,
         Listen(p) \/ Connect(p) \/ Write(p) \/ Read(p) \/ Shutdown(p) \/ Close(p)
  PROVE  Carried(p) /\ script' = script /\ faults' = faults
<1> DEFINE o == Other(p)
           c == tcb[p]
           q == tcb[o]
<1>1. o \in Peer /\ Room(p, q) /\ Good(p, o, c, q) /\ Steady(c)
  BY OtherIs, RoomHere DEF ConnInv, Held, SteadyInv
<1>2. MiscOK(p, c) /\ c.posted \in Nat /\ Full(c)
  BY <1>1, GoodSent DEF MiscOK
<1>3. script' = script /\ faults' = faults
  BY DEF Listen, Connect, Write, Read, Shutdown, Close
<1>4. ASSUME NEW d, Does(p, o, c, d, q), Finish(p, d) PROVE Carried(p)
  BY <1>4, FinishCarries DEF Does, Works
<1>5. ASSUME NEW how, how # "SHUTDOWN", c.opened = "no", c.ioctl = "none",
             NEW d, d = tcp_su4listen([c EXCEPT !.ioctl = how])
                    \/ d = tcp_su4connect([c EXCEPT !.ioctl = how])
      PROVE  Does(p, o, c, d, q)
  <2> DEFINE b == [c EXCEPT !.ioctl = how]
  <2>1. d = tcp_su4listen(b) \/ d = tcp_su4connect(b)
    BY <1>5
  <2>2. b = [c EXCEPT !.ioctl = how]
    OBVIOUS
  <2> HIDE DEF b, c, q, o
  <2> QED
    BY <1>1, <1>5, <2>1, <2>2, GoodOpen
<1>6. CASE Listen(p)
  <2>1. c.opened = "no" /\ c.ioctl = "none"
        /\ Finish(p, tcp_su4listen([c EXCEPT !.ioctl = "LISTEN"]))
    BY <1>6 DEF Listen, MayOpen
  <2>2. Does(p, o, c, tcp_su4listen([c EXCEPT !.ioctl = "LISTEN"]), q)
    BY <1>5, <2>1
  <2> QED
    BY <1>3, <1>4, <2>1, <2>2
<1>7. CASE Connect(p)
  <2>1. c.opened = "no" /\ c.ioctl = "none"
        /\ Finish(p, tcp_su4connect([c EXCEPT !.ioctl = "CONN"]))
    BY <1>7 DEF Connect, MayOpen
  <2>2. Does(p, o, c, tcp_su4connect([c EXCEPT !.ioctl = "CONN"]), q)
    BY <1>5, <2>1
  <2> QED
    BY <1>3, <1>4, <2>1, <2>2
<1>8. CASE Write(p)
  <2> DEFINE n == script[p].writes[c.posted + 1]
             d == tcp_write([c EXCEPT !.posted = @ + 1], n)
  <2>1. c.connected /\ Idle(c) /\ c.posted < Len(script[p].writes) /\ Finish(p, d)
    BY <1>8 DEF Write, MayWrite
  <2>2. n \in Nat
    <3>1. script \in Scripts
      BY DEF ConnInv
    <3>2. script[p].writes \in Seq(Nat \ {0})
      BY <3>1, ScriptIs
    <3>3. c.posted + 1 \in 1 .. Len(script[p].writes)
      BY <1>2, <2>1, <3>2
    <3> QED
      BY <3>2, <3>3
  <2>3. ~c.writing /\ c.ioctl = "none"
    BY <2>1 DEF Idle
  <2> HIDE DEF n, c, q, o
  <2>4. Does(p, o, c, d, q)
    BY <1>1, <2>1, <2>2, <2>3, GoodWrite
  <2> QED
    BY <1>3, <1>4, <2>1, <2>4
<1>9. CASE Read(p)
  <2> DEFINE n == script[p].read
             d == tcp_fd_read([c EXCEPT !.reading = TRUE, !.rcount = n])
  <2>1. c.open /\ c.connected /\ n > 0 /\ Finish(p, d)
    BY <1>9 DEF Read, MayRead
  <2>2. n \in Nat \ {0}
    <3>1. n \in Nat
      BY ScriptIs DEF ConnInv
    <3> QED
      BY <2>1, <3>1
  <2> HIDE DEF n, c, q, o
  <2>3. Does(p, o, c, d, q)
    BY <1>1, <2>1, <2>2, GoodRead
  <2> QED
    BY <1>3, <1>4, <2>1, <2>3
<1>10. CASE Shutdown(p)
  <2> DEFINE d == tcp_conn_write(tcp_fd_write([c EXCEPT !.ioctl = "SHUTDOWN"]))
  <2>1. c.connected /\ c.open /\ ~c.writing /\ Finish(p, d)
    BY <1>10 DEF Shutdown, MayShutdown, Written, Idle
  <2> HIDE DEF c, q, o
  <2>2. Does(p, o, c, d, q)
    BY <1>1, <2>1, GoodShutdown
  <2> QED
    BY <1>3, <1>4, <2>1, <2>2
<1>11. CASE Close(p)
  <2> DEFINE d == tcp_close(Cancel([c EXCEPT !.open = FALSE]))
  <2>1. Finish(p, d)
    BY <1>11 DEF Close
  <2>2. c.state \in Handshake => c.inprog
    BY <1>1 DEF Steady
  <2> HIDE DEF c, q, o
  <2>3. Does(p, o, c, d, q)
    BY <1>1, <2>2, GoodClose
  <2> QED
    BY <1>3, <1>4, <2>1, <2>3
<1> QED
  BY <1>6, <1>7, <1>8, <1>9, <1>10, <1>11

(* What the timer does. *)
LEMMA TimerCarries ==
  ASSUME ConnInv, ShortStreams, NEW p \in Peer,
         TimerExpires(p) \/ TimerRetransmits(p) \/ TimerEarly(p) \/ TimerGivesUp(p)
  PROVE  Carried(p) /\ script' = script /\ faults' \in 0 .. MaxFaults
<1> DEFINE o == Other(p)
           c == tcb[p]
           q == tcb[o]
<1>1. o \in Peer /\ Room(p, q) /\ Good(p, o, c, q) /\ faults \in 0 .. MaxFaults
  BY OtherIs, RoomHere DEF ConnInv, Held
<1>2. MiscOK(p, c) /\ Full(c) /\ c.UNA \in Num /\ c.tseq \in Num
  BY <1>1, GoodSent DEF MiscOK, SendTypes
<1>3. script' = script /\ faults' \in 0 .. MaxFaults
  BY <1>1, FaultLeft DEF TimerExpires, TimerRetransmits, TimerEarly, TimerGivesUp
<1>4. ASSUME NEW d, Does(p, o, c, d, q), Finish(p, d) PROVE Carried(p)
  BY <1>4, FinishCarries DEF Does, Works
<1>5. CASE TimerExpires(p)
  <2>1. PICK d : d \in {TimerIdle(c), TimerProgress(c), [c EXCEPT !.stt = TRUE]} /\ Finish(p, d)
    BY <1>5 DEF TimerExpires
  <2>2. Keeps(c, d, {"tseq", "stt", "timer"})
    BY <1>2, <2>1 DEF TimerIdle, TimerProgress, Full, Keeps
  <2>3. d.tseq \in {c.UNA, c.tseq}
    BY <1>2, <2>1, ZenonT(20) DEF TimerIdle, TimerProgress, Full, Names
  <2>4. d.tseq \in Num
    BY <1>2, <2>3
  <2> HIDE DEF c, q, o
  <2>5. Does(p, o, c, d, q)
    BY <1>1, <2>2, <2>4, GoodTick
  <2> QED
    BY <1>3, <1>4, <2>1, <2>5
<1>6. CASE TimerRetransmits(p) \/ TimerEarly(p)
  <2>1. Finish(p, Retransmit(c))
    BY <1>6 DEF TimerRetransmits, TimerEarly
  <2> HIDE DEF c, q, o
  <2>2. Does(p, o, c, Retransmit(c), q)
    BY <1>1, GoodRetransmit
  <2> QED
    BY <1>3, <1>4, <2>1, <2>2
<1>7. CASE TimerGivesUp(p)
  <2>1. Finish(p, tcp_close_connection(c, "ETIMEDOUT"))
    BY <1>7 DEF TimerGivesUp
  <2> HIDE DEF c, q, o
  <2>2. Does(p, o, c, tcp_close_connection(c, "ETIMEDOUT"), q)
    BY <1>1, GoodGivesUp
  <2> QED
    BY <1>3, <1>4, <2>1, <2>2
<1> QED
  BY <1>5, <1>6, <1>7

(* What the network does. *)
LEMMA NetCarries ==
  ASSUME ConnInv, ShortStreams, NEW p \in Peer,
         DeliverFirst(p) \/ Overtake(p) \/ Duplicate(p)
  PROVE  Carried(p) /\ script' = script /\ faults' \in 0 .. MaxFaults
<1>1. faults' \in 0 .. MaxFaults
  BY FaultLeft DEF DeliverFirst, Overtake, Duplicate, ConnInv
<1> DEFINE S == Said(Other(p), p, tcb[Other(p)])
<1>2. net[p] \in Seq(S)
  BY OtherIs DEF ConnInv, Held
<1> HIDE DEF S
<1>3. net[p] # <<>> => /\ Tail(net[p]) \in Seq(S) /\ 1 \in 1 .. Len(net[p])
                       /\ \A i \in 1 .. Len(net[p]) : RemoveAt(net[p], i) \in Seq(S)
  BY <1>2, KeptSeq
<1>4. CASE DeliverFirst(p)
  <2>1. Arrive(p, 1, Tail(net[p])) /\ Tail(net[p]) \in Seq(S) /\ 1 \in 1 .. Len(net[p])
    BY <1>3, <1>4 DEF DeliverFirst
  <2> QED
    BY <1>1, <2>1, ArriveCarries DEF S
<1>5. CASE Overtake(p)
  <2>1. Arrive(p, 2, RemoveAt(net[p], 2)) /\ Len(net[p]) > 1
    BY <1>5 DEF Overtake
  <2>2. 2 \in 1 .. Len(net[p]) /\ net[p] # <<>>
    BY <1>2, <2>1
  <2>3. RemoveAt(net[p], 2) \in Seq(S)
    BY <1>3, <2>2
  <2> QED
    BY <1>1, <2>1, <2>2, <2>3, ArriveCarries DEF S
<1>6. CASE Duplicate(p)
  <2>1. Arrive(p, 1, net[p]) /\ 1 \in 1 .. Len(net[p])
    BY <1>3, <1>6 DEF Duplicate
  <2> QED
    BY <1>1, <1>2, <2>1, ArriveCarries DEF S
<1> QED
  BY <1>4, <1>5, <1>6

LEMMA ConnNext ==
  ASSUME ConnInv, SteadyInv, ShortStreams, [Next]_vars
  PROVE  ConnInv' /\ Grown /\ Acts
<1>1. script \in Scripts /\ faults \in 0 .. MaxFaults /\ DOMAIN net = Peer
  BY DEF ConnInv
<1>2. CASE UNCHANGED vars
  <2>1. tcb' = tcb /\ net' = net /\ script' = script /\ faults' = faults
    BY <1>2 DEF vars
  <2>2. ASSUME NEW r \in Peer PROVE Held(r)'
    BY <2>1 DEF Held, ConnInv
  <2> QED
    BY <1>1, <2>1, <2>2, StillInv
<1>3. CASE Next
  <2>1. PICK p \in Peer :
          \/ Listen(p) \/ Connect(p) \/ Write(p) \/ Read(p) \/ Shutdown(p)
          \/ Close(p) \/ TimerExpires(p) \/ TimerRetransmits(p) \/ TimerEarly(p)
          \/ TimerGivesUp(p) \/ DeliverFirst(p) \/ Overtake(p) \/ Duplicate(p)
          \/ Lose(p)
    BY <1>3 DEF Next
  <2>2. CASE Listen(p) \/ Connect(p) \/ Write(p) \/ Read(p) \/ Shutdown(p) \/ Close(p)
    BY <1>1, <2>2, ProgramCarries, CarriedInv
  <2>3. CASE TimerExpires(p) \/ TimerRetransmits(p) \/ TimerEarly(p) \/ TimerGivesUp(p)
    BY <1>1, <2>3, TimerCarries, CarriedInv
  <2>4. CASE DeliverFirst(p) \/ Overtake(p) \/ Duplicate(p)
    BY <1>1, <2>4, NetCarries, CarriedInv
  <2>5. CASE Lose(p)
    <3>1. DOMAIN net' = Peer /\ \A r \in Peer : Held(r)'
      BY <2>5, LoseCarries
    <3>2. tcb' = tcb /\ script' = script
      BY <2>5 DEF Lose
    <3>3. faults' \in 0 .. MaxFaults
      BY <1>1, <2>5, FaultLeft DEF Lose
    <3> QED
      BY <1>1, <3>1, <3>2, <3>3, StillInv
  <2> QED
    BY <2>1, <2>2, <2>3, <2>4, <2>5
<1> QED
  BY <1>2, <1>3

(* What the properties say, from the invariant. *)
LEMMA ConnectedIs ==
  ASSUME ConnInv, ShortStreams, NEW p \in Peer, Connected(tcb[p])
  PROVE  /\ Live(p, Other(p), tcb[p], tcb[Other(p)]) /\ Room(p, tcb[Other(p)])
         /\ Other(p) \in Peer /\ Other(Other(p)) = p
<1>1. Good(p, Other(p), tcb[p], tcb[Other(p)])
  BY DEF ConnInv, Held
<1>2. Live(p, Other(p), tcb[p], tcb[Other(p)])
  BY <1>1 DEF Good, Over, Hand, Opening, Handshake, Connected
<1> QED
  BY <1>2, OtherIs, RoomHere

LEMMA AckedIsHeld ==
  ASSUME ConnInv, ShortStreams
  PROVE  NothingAckedLost
<1> SUFFICES ASSUME NEW p \in Peer, Connected(tcb[p]), Connected(tcb[Other(p)])
             PROVE  tcb[p].sent - Len(tcb[p].sendq)
                      <= Len(tcb[Other(p)].got) + Len(tcb[Other(p)].rcvd)
  BY DEF NothingAckedLost
<1> DEFINE o == Other(p)
           c == tcb[p]
           q == tcb[o]
<1>1. o \in Peer /\ Other(o) = p /\ Live(p, o, c, q) /\ Room(p, q)
  BY ConnectedIs
<1>2. Live(o, p, q, c) /\ Room(o, c)
  BY <1>1, ConnectedIs
<1> HIDE DEF o, c, q
<1>3. Sends(p, c, q) /\ Takes(p, q, c) /\ q.connected
  BY <1>1, <1>2 DEF Live, Recvs
<1> DEFINE u == Pos(p, c.UNA)
           n == Pos(p, c.NXT)
           k == Acked(p, c)
           l == Pos(p, q.LO)
           r == Pos(p, q.RCV)
           f == One(q.finrecv)
<1>4. /\ u \in Int /\ n = 1 + c.sent + One(c.finsent) /\ u <= Heard(p, q)
      /\ k = (IF c.finsent /\ u = n THEN c.sent ELSE u - 1)
      /\ k \in Nat /\ c.sent \in Nat /\ Len(c.sendq) = c.sent - k
  BY <1>1, <1>3, SendPlaces
<1>5. /\ l \in Int /\ r \in Int /\ (q.finrecv => r = c.sent + 2) /\ (~q.finrecv => r <= c.sent + 1)
      /\ Len(q.got) = l - 1 /\ Len(q.rcvd) = r - f - l
  BY <1>1, <1>2, <1>3, TakePlaces
<1>6. Heard(p, q) = r
  BY <1>3 DEF Heard
<1>7. (q.finrecv => f = 1) /\ (~q.finrecv => f = 0)
  BY DEF One
<1>8. c.finsent => One(c.finsent) = 1
  BY DEF One
<1> HIDE DEF u, n, k, l, r, f
<1>9. Len(q.got) + Len(q.rcvd) = r - f - 1
  BY <1>5, <1>7
<1>10. c.sent - Len(c.sendq) = k
  BY <1>4
<1>11. k <= r - f - 1
  <2>1. CASE q.finrecv
    <3>1. r - f - 1 = c.sent
      BY <1>4, <1>5, <1>7, <2>1
    <3>2. k <= c.sent
      BY <1>4, <1>8, <1>5, <1>6, <2>1
    <3> QED
      BY <3>1, <3>2
  <2>2. CASE ~q.finrecv
    <3>1. f = 0 /\ r <= c.sent + 1
      BY <1>5, <1>7, <2>2
    <3>2. ~(c.finsent /\ u = n)
      BY <1>4, <1>5, <1>6, <1>8, <3>1
    <3> QED
      BY <1>4, <1>5, <1>6, <3>1, <3>2
  <2> QED
    BY <2>1, <2>2
<1> QED
  BY <1>9, <1>10, <1>11 DEF o, c, q

LEMMA BlockTypes ==
  ASSUME ConnInv, ShortStreams, NEW p \in Peer, NEW c, c = tcb[p]
  PROVE  /\ c.state \in {"CLOSED", "LISTEN", "SYN_SENT", "SYN_RECEIVED", "ESTABLISHED", "CLOSING"}
         /\ {c.UNA, c.TRM, c.NXT, c.PSH, c.cwnd, c.LO, c.RCV, c.HI, c.advseq, c.tseq}
               \subseteq 0 .. SeqSpace - 1
         /\ {c.rcvd, c.adv, c.sendq, c.got} \subseteq Seq(Nat)
         /\ ~c.more /\ c.frag = NoRST
<1> DEFINE o == Other(p)
           q == tcb[o]
<1>1. o \in Peer /\ Good(p, o, c, q) /\ ~c.more /\ c.frag = NoRST /\ Room(p, q)
  BY OtherIs, RoomHere DEF ConnInv, Held
<1> HIDE DEF o, q
<1>2. MiscOK(p, c) /\ SendTypes(c) /\ RecvTypes(c)
  BY <1>1, GoodSent
<1>3. {c.UNA, c.TRM, c.NXT, c.PSH, c.cwnd, c.LO, c.RCV, c.HI, c.advseq, c.tseq} \subseteq Num
  BY <1>2 DEF MiscOK, SendTypes, RecvTypes
<1>4. /\ c.state \in {"CLOSED", "LISTEN", "SYN_SENT", "SYN_RECEIVED", "ESTABLISHED", "CLOSING"}
      /\ {c.rcvd, c.adv, c.sendq, c.got} \subseteq Seq(Nat)
  <2>1. CASE Live(p, o, c, q)
    <3>1. Sends(p, c, q) /\ Recvs(o, c, q) /\ Takes(o, c, q) /\ Connected(c)
      BY <2>1 DEF Live, Recvs
    <3>2. c.sendq \in Seq(Nat)
      BY <1>1, <3>1, SendPlaces
    <3>3. c.got \in Seq(Nat) /\ c.rcvd \in Seq(Nat)
      BY <1>1, <3>1, TakePlaces
    <3>4. c.adv \in Seq(Nat)
      <4>1. c.adv = <<>> \/ Ahead(o, c, q)
        BY <3>1 DEF Recvs
      <4>2. CASE c.adv = <<>>
        BY <4>2
      <4>3. CASE Ahead(o, c, q)
        BY <4>3 DEF Ahead
      <4> QED
        BY <4>1, <4>2, <4>3
    <3> QED
      BY <3>1, <3>2, <3>3, <3>4 DEF Connected
  <2>2. CASE Over(p, o, c, q)
    <3>1. c.state = "CLOSED" /\ c.rcvd = <<>> /\ c.adv = <<>> /\ c.sendq = <<>>
      BY <2>2 DEF Over
    <3>2. c.got \in Seq(Nat)
      <4>1. CASE c.connected
        <5> DEFINE L == Len(c.got)
        <5>1. c.got = Run(0, L) /\ L \in Nat
          BY <2>2, <4>1 DEF Over, Rest
        <5> HIDE DEF L
        <5>2. 0 \in Nat /\ 0 <= L
          BY <5>1
        <5>3. Run(0, L) \in Seq(Nat)
          BY <5>1, <5>2, RunIs
        <5> QED
          BY <5>1, <5>3
      <4>2. CASE ~c.connected
        <5>1. c.got = <<>>
          BY <2>2, <4>2 DEF Over, Fresh
        <5> QED
          BY <5>1
      <4> QED
        BY <4>1, <4>2
    <3> QED
      BY <3>1, <3>2
  <2>3. CASE Hand(p, o, c)
    BY <2>3 DEF Hand, Opening, Fresh, Handshake
  <2> QED
    BY <1>1, <2>1, <2>2, <2>3 DEF Good
<1> QED
  BY <1>1, <1>3, <1>4 DEF Num

LEMMA TypesHold ==
  ASSUME ConnInv, ShortStreams
  PROVE  TypeOK
<1>1. ASSUME NEW p \in Peer, NEW i \in 1 .. Len(net[p]) PROVE net[p][i] \in Segment
  <2>1. Other(p) \in Peer /\ Other(Other(p)) = p
    BY OtherIs
  <2>2. net[p] \in Seq(Said(Other(p), p, tcb[Other(p)]))
    BY <2>1 DEF ConnInv, Held
  <2>3. net[p][i] \in Said(Other(p), p, tcb[Other(p)])
    BY <2>2
  <2> QED
    BY <2>3 DEF Said
<1> QED
  BY <1>1, BlockTypes DEF TypeOK, ConnInv

LEMMA CountersHold ==
  ASSUME ConnInv, ShortStreams, NEW p \in Peer, NEW c, c = tcb[p], Connected(c)
  PROVE  /\ LEmod4G(c.UNA, c.TRM) /\ LEmod4G(c.TRM, c.NXT)
         /\ LEmod4G(c.TRM, c.cwnd) \/ c.TRM = c.NXT
         /\ LEmod4G(c.RCV, c.HI)
         /\ DataSize(c) = Len(c.rcvd)
         /\ Diff(c.NXT, c.UNA) =
              Len(c.sendq) + (IF c.finsent /\ c.UNA # c.NXT THEN 1 ELSE 0)
<1> DEFINE o == Other(p)
           q == tcb[o]
<1>1. o \in Peer /\ Live(p, o, c, q) /\ Room(p, q)
  BY ConnectedIs
<1> HIDE DEF o, q
<1>2. Sends(p, c, q) /\ Takes(o, c, q)
  BY <1>1 DEF Live, Recvs
<1> DEFINE u == Pos(p, c.UNA)
           t == Pos(p, c.TRM)
           n == Pos(p, c.NXT)
           w == Pos(p, c.cwnd)
           k == Acked(p, c)
<1>3. /\ u \in Int /\ t \in Int /\ n \in Int /\ w \in Int
      /\ u <= t /\ t <= n /\ t <= w
      /\ Near(p, c.UNA) /\ Near(p, c.TRM) /\ Near(p, c.NXT) /\ Near(p, c.cwnd)
  BY <1>1, <1>2, SendPlaces
<1>11. /\ n = 1 + c.sent + One(c.finsent)
       /\ k = (IF c.finsent /\ u = n THEN c.sent ELSE u - 1)
       /\ k \in Nat /\ c.sent \in Nat /\ Len(c.sendq) = c.sent - k
  BY <1>1, <1>2, SendPlaces, SMTT(20)
<1>4. LEmod4G(c.UNA, c.TRM) /\ LEmod4G(c.TRM, c.NXT) /\ LEmod4G(c.TRM, c.cwnd)
  BY <1>3, Compare
<1>5. /\ Pos(o, c.RCV) <= Pos(o, c.HI) /\ Near(o, c.RCV) /\ Near(o, c.HI)
      /\ DataSize(c) = Pos(o, c.RCV) - One(c.finrecv) - Pos(o, c.LO)
      /\ Len(c.rcvd) = Pos(o, c.RCV) - One(c.finrecv) - Pos(o, c.LO)
  BY <1>1, <1>2, TakePlaces
<1>6. LEmod4G(c.RCV, c.HI)
  BY <1>1, <1>5, Compare
<1>7. u <= n
  BY <1>3
<1>8. Diff(c.NXT, c.UNA) = n - u /\ (c.UNA = c.NXT <=> u = n)
  BY <1>3, <1>7, Compare
<1>9. (c.finsent => One(c.finsent) = 1) /\ (~c.finsent => One(c.finsent) = 0)
  BY DEF One
<1> HIDE DEF u, t, n, w, k
<1>10. n - u = Len(c.sendq) + (IF c.finsent /\ u # n THEN 1 ELSE 0)
  <2>1. u \in Int /\ n \in Int
    BY <1>3
  <2>2. CASE c.finsent /\ u = n
    <3>2. k = c.sent
      BY <1>11, <2>2, Zenon
    <3>3. Len(c.sendq) = c.sent - c.sent /\ c.sent \in Int
      BY <1>11, <3>2
    <3>4. u = n
      BY <2>2
    <3>5. n - u = 0
      BY <2>1, <3>4
    <3>1. Len(c.sendq) = 0 /\ n - u = 0
      BY <3>3, <3>5
    <3> QED
      BY <2>2, <3>1
  <2>3. CASE c.finsent /\ u # n
    <3>3. k = u - 1
      BY <1>11, <2>3, Zenon
    <3>4. One(c.finsent) = 1
      BY <1>9, <2>3
    <3>5. n = 1 + c.sent + 1 /\ Len(c.sendq) = c.sent - (u - 1) /\ c.sent \in Nat
      BY <1>11, <3>3, <3>4
    <3>1. n = 2 + c.sent /\ Len(c.sendq) = c.sent - (u - 1) /\ c.sent \in Nat
      BY <3>5
    <3>2. n - u = Len(c.sendq) + 1
      BY <2>1, <3>1, SMTT(20)
    <3> QED
      BY <2>3, <3>2
  <2>4. CASE ~c.finsent
    <3>1. n = 1 + c.sent /\ Len(c.sendq) = c.sent - (u - 1) /\ c.sent \in Nat
      BY <1>9, <1>11, <2>1, <2>4
    <3>2. n - u = Len(c.sendq) + 0
      BY <2>1, <3>1
    <3> QED
      BY <2>4, <3>2
  <2> QED
    BY <2>2, <2>3, <2>4
<1> QED
  BY <1>4, <1>5, <1>6, <1>8, <1>10

LEMMA BlocksChecked ==
  ASSUME ConnInv, ShortStreams
  PROVE  CheckConn
<1>1. TypeOK
  BY TypesHold
<1>2. ASSUME NEW p \in Peer, Connected(tcb[p])
      PROVE  LET c == tcb[p]
             IN /\ LEmod4G(c.UNA, c.TRM) /\ LEmod4G(c.TRM, c.NXT)
                /\ LEmod4G(c.TRM, c.cwnd) \/ c.TRM = c.NXT
                /\ LEmod4G(c.RCV, c.HI)
                /\ DataSize(c) = Len(c.rcvd)
                /\ Diff(c.NXT, c.UNA) =
                     Len(c.sendq) + (IF c.finsent /\ c.UNA # c.NXT THEN 1 ELSE 0)
  BY <1>2, CountersHold
<1> QED
  BY <1>1, <1>2 DEF CheckConn

LEMMA EdgeStays ==
  ASSUME ConnInv, ShortStreams, ConnInv', ShortStreams', Grown, NEW p \in Peer,
         Connected(tcb[p]), Connected(tcb'[p])
  PROVE  LEmod4G(tcb[p].HI, tcb'[p].HI)
<1> DEFINE o == Other(p)
           c == tcb[p]
           d == tcb'[p]
<1>1. o \in Peer /\ Live(p, o, c, tcb[o]) /\ Room(p, tcb[o])
  BY ConnectedIs
<1>2. Live(p, o, d, tcb'[o]) /\ Room(p, tcb'[o])
  <2>1. Good(p, o, d, tcb'[o])
    BY DEF ConnInv, Held
  <2>2. Live(p, o, d, tcb'[o])
    BY <2>1 DEF Good, Over, Hand, Opening, Handshake, Connected
  <2>3. Good(o, p, tcb'[o], d)
    <3>1. Held(o)'
      BY <1>1 DEF ConnInv
    <3>2. Other(o) = p
      BY OtherIs
    <3> QED
      BY <3>1, <3>2 DEF Held
  <2>4. Short(d) /\ Short(tcb'[o])
    BY <1>1 DEF ShortStreams
  <2> HIDE DEF o, d
  <2> QED
    BY <1>1, <2>1, <2>2, <2>3, <2>4, RoomIs
<1>3. Grows(o, c, d)
  BY DEF Grown
<1> HIDE DEF o, c, d
<1>4. Near(o, c.HI) /\ Takes(o, c, tcb[o]) /\ c.connected
  <2>1. Takes(o, c, tcb[o]) /\ c.connected
    BY <1>1 DEF Live, Recvs
  <2> QED
    BY <1>1, <2>1, TakePlaces
<1>5. Near(o, d.HI)
  <2>1. Takes(o, d, tcb'[o])
    BY <1>2 DEF Live, Recvs
  <2> QED
    BY <1>1, <1>2, <2>1, TakePlaces
<1>6. Pos(o, c.HI) <= Pos(o, d.HI)
  BY <1>3, <1>4 DEF Grows
<1>7. LEmod4G(c.HI, d.HI)
  BY <1>1, <1>4, <1>5, <1>6, Compare
<1> QED
  BY <1>7 DEF c, d

(***************************************************************************)
(* NothingAckedLost: what a side has dropped from its queue because it was *)
(* acknowledged, the other side has received, in its own queue or with its *)
(* program (tcp_release_retrans(), process_data()), for every size of      *)
(* window and segment and every network that loses, repeats and delays, as *)
(* long as neither stream is longer than half of the sequence numbers.     *)
(***************************************************************************)
THEOREM NothingFreedEarly == Spec /\ []ShortStreams => []NothingAckedLost
<1>1. Init => SteadyInv /\ ConnInv
  BY SteadyInit, ConnInit
<1>2. SteadyInv /\ ConnInv /\ ShortStreams /\ [Next]_vars => SteadyInv' /\ ConnInv'
  BY SteadyNext, ConnNext
<1>3. ConnInv /\ ShortStreams => NothingAckedLost
  BY AckedIsHeld
<1> QED
  BY <1>1, <1>2, <1>3, PTL DEF Spec

(***************************************************************************)
(* CheckConn: the assertions of tcp_check_conn(), that the counters of a   *)
(* connection are in order by the comparisons of tcp_int.h and count what  *)
(* the queues hold, with the types of everything, for every size of window *)
(* and segment and every network that loses, repeats and delays, as long   *)
(* as neither stream is longer than half of the sequence numbers.          *)
(***************************************************************************)
THEOREM AssertionsHold == Spec /\ []ShortStreams => []CheckConn
<1>1. Init => SteadyInv /\ ConnInv
  BY SteadyInit, ConnInit
<1>2. SteadyInv /\ ConnInv /\ ShortStreams /\ [Next]_vars => SteadyInv' /\ ConnInv'
  BY SteadyNext, ConnNext
<1>3. ConnInv /\ ShortStreams => CheckConn
  BY BlocksChecked
<1> QED
  BY <1>1, <1>2, <1>3, PTL DEF Spec

(***************************************************************************)
(* WindowNeverShrinks: no step of a connection takes back a part of the    *)
(* window that it has offered (tcp_fd_read(), process_data()), for every   *)
(* size of window and segment and every network that loses, repeats and    *)
(* delays, as long as neither stream is longer than half of the sequence   *)
(* numbers.                                                                *)
(***************************************************************************)
THEOREM WindowKept == Spec /\ []ShortStreams => WindowNeverShrinks
<1> DEFINE Edge == \A p \in Peer :
                     Connected(tcb[p]) /\ Connected(tcb'[p]) => LEmod4G(tcb[p].HI, tcb'[p].HI)
<1>1. Init => SteadyInv /\ ConnInv
  BY SteadyInit, ConnInit
<1>2. SteadyInv /\ ConnInv /\ ShortStreams /\ [Next]_vars => SteadyInv' /\ ConnInv'
  BY SteadyNext, ConnNext
<1>3. SteadyInv /\ ConnInv /\ ShortStreams /\ ShortStreams' /\ [Next]_vars => [Edge]_vars
  BY ConnNext, EdgeStays
<1> QED
  BY <1>1, <1>2, <1>3, PTL DEF Spec, WindowNeverShrinks

-----------------------------------------------------------------------------
(* What the programs are told is so, in every step that is not a clean reset
   which cuts something off. *)

\* A clean reset that cuts something off.
CutsOff == \E p \in Peer : CutOff(tcb[p], tcb'[p], tcb[Other(p)])

\* What both programs were told is so.
ToldInv == \A p \in Peer : Told(p, tcb[p], tcb[Other(p)])

\* What o was told stays so when p takes a step.
LEMMA OtherTold ==
  ASSUME NEW p \in Peer, NEW o \in Peer, NEW c, NEW q, NEW t, Good(p, o, c, q),
         Goes(p, o, c, t, q), Good(o, p, q, c), Told(o, q, c), Gone(c) => Gone(t)
  PROVE  Told(o, q, t)
<1>1. /\ c.sent <= t.sent /\ (c.ended => t.ended /\ t.sent = c.sent)
      /\ Len(c.got) <= Len(t.got)
  BY DEF Goes, Grows
<1>2. /\ Heard(o, c) \in Nat /\ Heard(o, t) \in Nat /\ Heard(o, c) <= Heard(o, t)
      /\ q.sent \in Nat
  BY HeardGrows, GoodSent
<1>3. AllRead(q, c) => AllRead(q, t)
  BY <1>1 DEF AllRead
<1>4. Heeded(o, q, c) => Heeded(o, q, t)
  BY <1>2 DEF Heeded
<1> QED
  BY <1>3, <1>4 DEF Told

LEMMA ToldInit == Init => ToldInv
<1> SUFFICES ASSUME Init, NEW p \in Peer PROVE Told(p, tcb[p], tcb[Other(p)])
  BY DEF ToldInv
<1>1. tcb[p] = FreshBlock(p)
  BY DEF Init
<1>2. /\ FreshBlock(p).eof = FALSE /\ FreshBlock(p).shut = "no"
      /\ FreshBlock(p).connected = FALSE
  BY DEF FreshBlock
<1> QED
  BY <1>1, <1>2 DEF Told, Gone

\* A step that changes nothing cuts nothing off either.
LEMMA CutsNot ==
  ASSUME [~CutsOff]_vars, NEW p \in Peer
  PROVE  ~CutOff(tcb[p], tcb'[p], tcb[Other(p)])
<1>1. CASE UNCHANGED vars
  BY <1>1 DEF vars, CutOff
<1>2. CASE ~CutsOff
  BY <1>2 DEF CutsOff
<1> QED
  BY <1>1, <1>2

LEMMA ToldNext ==
  ASSUME ConnInv, SteadyInv, ShortStreams, ToldInv, [Next]_vars, [~CutsOff]_vars
  PROVE  ToldInv'
<1>1. Acts
  BY ConnNext
<1>2. CASE tcb' = tcb
  BY <1>2 DEF ToldInv
<1>3. ASSUME NEW p \in Peer, Works(p, Other(p), tcb[p], tcb'[p], tcb[Other(p)]),
             tcb'[Other(p)] = tcb[Other(p)]
      PROVE  ToldInv'
  <2> DEFINE o == Other(p)
             c == tcb[p]
             q == tcb[o]
             t == tcb'[p]
  <2>1. o \in Peer /\ Other(o) = p /\ \A r \in Peer : r = p \/ r = o
    BY OtherIs
  <2>2. ~CutOff(c, t, q)
    BY CutsNot
  <2>3. Sure(p, c, t, q) /\ Goes(p, o, c, t, q) /\ tcb'[o] = q
    BY <1>3, <2>2 DEF Works
  <2>4. Told(p, c, q) /\ Told(o, q, c)
    BY <2>1 DEF ToldInv
  <2>5. Good(p, o, c, q) /\ Good(o, p, q, c)
    BY <2>1 DEF ConnInv, Held
  <2> HIDE DEF o, c, q, t
  <2>6. Told(p, t, q) /\ Told(o, q, t)
    BY <2>1, <2>3, <2>4, <2>5, OtherTold DEF Sure
  <2> USE DEF o, c, q, t
  <2>7. \A r \in Peer : Told(r, tcb'[r], tcb'[Other(r)])
    BY <2>1, <2>3, <2>6
  <2> QED
    BY <2>7 DEF ToldInv
<1> QED
  BY <1>1, <1>2, <1>3 DEF Acts

(* What a shutdown answered with success means. *)
LEMMA HeededIsHeld ==
  ASSUME ConnInv, ShortStreams, ToldInv
  PROVE  ShutdownMeansReceived
<1> SUFFICES ASSUME NEW p \in Peer, tcb[p].shut = "OK", Connected(tcb[Other(p)])
             PROVE  /\ Len(tcb[Other(p)].got) + Len(tcb[Other(p)].rcvd) = tcb[p].sent
                    /\ tcb[Other(p)].finrecv
  BY DEF ShutdownMeansReceived
<1> DEFINE o == Other(p)
           c == tcb[p]
           q == tcb[o]
<1>1. o \in Peer /\ Other(o) = p
  BY OtherIs
<1>2. Live(o, p, q, c) /\ Room(o, c)
  BY <1>1, ConnectedIs
<1>3. Heeded(p, c, q)
  BY DEF ToldInv, Told
<1>4. q.state # "CLOSED" /\ q.connected /\ Takes(p, q, c)
  BY <1>2 DEF Connected, Live, Recvs
<1> DEFINE l == Pos(p, q.LO)
           r == Pos(p, q.RCV)
           g == Len(q.got)
           w == Len(q.rcvd)
<1> HIDE DEF o, c, q
<1>5. r >= c.sent + 2
  BY <1>3, <1>4 DEF Heeded, Gone, Heard
<1>6. /\ l \in Int /\ r \in Int /\ c.sent \in Nat /\ g = l - 1
      /\ q.finrecv => r = c.sent + 2
      /\ ~q.finrecv => r <= c.sent + 1
  BY <1>1, <1>2, <1>4, TakePlaces
<1>7. w = r - One(q.finrecv) - l
  BY <1>1, <1>2, <1>4, TakePlaces
<1>8. q.finrecv
  BY <1>5, <1>6
<1>9. One(q.finrecv) = 1
  BY <1>8 DEF One
<1>10. w = r - 1 - l /\ r = c.sent + 2
  BY <1>6, <1>7, <1>8, <1>9
<1> HIDE DEF l, r, g, w
<1>11. g + w = c.sent
  BY <1>6, <1>10
<1> QED
  BY <1>8, <1>11 DEF o, c, q, g, w

(***************************************************************************)
(* ShutdownMeansReceived: a shutdown that was answered with success has    *)
(* reached the other side, the FIN included (tcp_release_retrans(),        *)
(* tcp_conn_write()), for every size of window and segment and every       *)
(* network that loses, repeats and delays, as long as neither stream is    *)
(* longer than half of the sequence numbers and no clean reset             *)
(* (tcp_recv.c:530-538) meets bytes or a FIN that are still under way.     *)
(***************************************************************************)
THEOREM ShutdownHonest ==
  Spec /\ []ShortStreams /\ [][~CutsOff]_vars => []ShutdownMeansReceived
<1>1. Init => SteadyInv /\ ConnInv /\ ToldInv
  BY SteadyInit, ConnInit, ToldInit
<1>2. SteadyInv /\ ConnInv /\ ToldInv /\ ShortStreams /\ [Next]_vars /\ [~CutsOff]_vars
        => SteadyInv' /\ ConnInv' /\ ToldInv'
  BY SteadyNext, ConnNext, ToldNext
<1>3. ConnInv /\ ShortStreams /\ ToldInv => ShutdownMeansReceived
  BY HeededIsHeld
<1> QED
  BY <1>1, <1>2, <1>3, PTL DEF Spec

-----------------------------------------------------------------------------
(* The refinement of ByteStream. *)

\* A program writes its stream in order.
LEMMA WroteIs ==
  ASSUME NEW n \in Nat
  PROVE  [i \in 1..n |-> i] = Run(0, n)
<1>1. n - 0 = n /\ \A i \in 1 .. n : 0 + i = i
  OBVIOUS
<1> QED
  BY <1>1 DEF Run

\* The beginning of a stream.
LEMMA RunFirst ==
  ASSUME NEW a \in Nat
  PROVE  Run(0, a) \in Seq(Nat) /\ Len(Run(0, a)) = a /\ \A i \in 1 .. a : Run(0, a)[i] = i
<1> DEFINE z == 0
<1>1. z \in Nat /\ z <= a /\ a - z = a /\ \A i \in 1 .. a : z + i = i
  OBVIOUS
<1> HIDE DEF z
<1>2. /\ Run(z, a) \in Seq(Nat) /\ Len(Run(z, a)) = a - z
      /\ \A i \in 1 .. a - z : Run(z, a)[i] = z + i
  BY <1>1, RunIs
<1>3. /\ Run(z, a) \in Seq(Nat) /\ Len(Run(z, a)) = a
      /\ \A i \in 1 .. a : Run(z, a)[i] = i
  BY <1>1, <1>2
<1> QED
  BY <1>3 DEF z

\* A shorter stream is a beginning of a longer one.
LEMMA RunExtends ==
  ASSUME NEW a \in Nat, NEW b \in Nat, a <= b
  PROVE  Stream!Extends(Run(0, b), Run(0, a))
<1> DEFINE x == Run(0, a)
           y == Run(0, b)
<1>1. /\ Len(x) = a /\ \A i \in 1 .. a : x[i] = i
      /\ Len(y) = b /\ \A i \in 1 .. b : y[i] = i
  BY RunFirst
<1> HIDE DEF x, y
<1>2. Stream!Extends(y, x)
  BY <1>1 DEF Stream!Extends
<1> QED
  BY <1>2 DEF x, y

\* What a program has read is the beginning of what the other wrote.
LEMMA GotIs ==
  ASSUME NEW p \in Peer, NEW o \in Peer, NEW c, NEW q, Good(p, o, c, q), Room(p, q)
  PROVE  Len(c.got) \in Nat /\ c.got = Run(0, Len(c.got)) /\ Len(c.got) <= q.sent
<1> DEFINE g == Len(c.got)
<1>1. q.sent \in Nat
  BY DEF Room
<1>2. CASE Live(p, o, c, q)
  <2> DEFINE l == Pos(o, c.LO)
             r == Pos(o, c.RCV)
  <2>1. Takes(o, c, q)
    BY <1>2 DEF Live, Recvs
  <2>2. /\ l \in Int /\ r \in Int /\ 1 <= l /\ l <= r - One(c.finrecv)
        /\ c.finrecv => r = q.sent + 2
        /\ ~c.finrecv => r <= q.sent + 1
        /\ g = l - 1
    BY <2>1, TakePlaces
  <2>3. c.got = Run(0, l - 1)
    BY <2>1 DEF Takes
  <2>4. (c.finrecv => One(c.finrecv) = 1) /\ (~c.finrecv => One(c.finrecv) = 0)
    BY DEF One
  <2> HIDE DEF l, r, g
  <2>5. g \in Nat /\ g <= q.sent
    BY <1>1, <2>2, <2>4
  <2> QED
    BY <2>2, <2>3, <2>5 DEF g
<1>3. CASE c.got = <<>>
  <2>1. Len(<<>>) = 0
    OBVIOUS
  <2>2. Run(0, 0) = <<>>
    BY RunEmpty
  <2> QED
    BY <1>1, <1>3, <2>1, <2>2
<1>4. CASE Over(p, o, c, q)
  BY <1>3, <1>4 DEF Over, Rest, Fresh
<1>5. CASE Hand(p, o, c)
  BY <1>3, <1>5 DEF Hand, Opening, Fresh
<1> QED
  BY <1>2, <1>4, <1>5 DEF Good

\* What a program reads in a step, and what it is told of the end.
LEMMA ReadsOn ==
  ASSUME NEW p \in Peer, NEW o \in Peer, NEW c, NEW q, NEW t, Good(p, o, c, q),
         Goes(p, o, c, t, q), Room(p, q), Told(p, c, q), Sure(p, c, t, q)
  PROVE  /\ Stream!Extends(t.got, c.got)
         /\ Stream!Extends([i \in 1..q.sent |-> i], t.got)
         /\ c.eof => t.eof /\ t.got = c.got
         /\ t.eof => q.ended /\ t.got = [i \in 1..q.sent |-> i]
<1> DEFINE m == Len(c.got)
           n == Len(t.got)
<1>1. m \in Nat /\ c.got = Run(0, m) /\ m <= q.sent
  BY GotIs
<1>2. n \in Nat /\ t.got = Run(0, n) /\ n <= q.sent
  BY GotIs DEF Goes
<1>3. m <= n
  BY DEF Goes, Grows
<1>4. q.sent \in Nat /\ [i \in 1..q.sent |-> i] = Run(0, q.sent)
  BY WroteIs DEF Room
<1>5. (c.eof => t.eof) /\ Told(p, t, q)
  BY DEF Sure
<1>6. c.eof => q.sent <= m
  BY DEF Told, AllRead
<1>7. t.eof => q.ended /\ q.sent <= n
  BY <1>5 DEF Told, AllRead
<1> HIDE DEF m, n
<1>8. c.eof => m = n
  BY <1>1, <1>2, <1>3, <1>4, <1>6
<1>9. t.eof => n = q.sent
  BY <1>2, <1>4, <1>7
<1>10. Stream!Extends(Run(0, n), Run(0, m)) /\ Stream!Extends(Run(0, q.sent), Run(0, n))
  BY <1>1, <1>2, <1>3, <1>4, RunExtends
<1> QED
  BY <1>1, <1>2, <1>4, <1>5, <1>7, <1>8, <1>9, <1>10

\* What a program writes in a step.
LEMMA WritesOn ==
  ASSUME NEW c, NEW t, c.sent \in Nat, t.sent \in Nat, c.sent <= t.sent,
         c.ended => t.ended /\ t.sent = c.sent
  PROVE  /\ Stream!Extends([i \in 1..t.sent |-> i], [i \in 1..c.sent |-> i])
         /\ c.ended => t.ended /\ [i \in 1..t.sent |-> i] = [i \in 1..c.sent |-> i]
BY WroteIs, RunExtends

\* The streams before the first step.
LEMMA StreamInit == Init => Stream!Init
<1> SUFFICES ASSUME Init PROVE Stream!Init
  OBVIOUS
<1>1. ASSUME NEW p \in Peer
      PROVE  /\ [i \in 1..tcb[p].sent |-> i] = <<>> /\ tcb[p].got = <<>>
             /\ tcb[p].ended = FALSE /\ tcb[p].eof = FALSE
  <2>1. /\ tcb[p].sent = 0 /\ tcb[p].got = <<>>
        /\ tcb[p].ended = FALSE /\ tcb[p].eof = FALSE
    BY DEF Init, FreshBlock
  <2>2. [i \in 1..0 |-> i] = <<>>
    BY WroteIs, RunEmpty
  <2> QED
    BY <2>1, <2>2
<1> QED
  BY <1>1 DEF Stream!Init

\* A block holds two streams of bytes.
LEMMA BlockStreams ==
  ASSUME NEW p \in Peer, NEW o \in Peer, NEW c, NEW q, Good(p, o, c, q), Room(p, q),
         Told(p, c, q)
  PROVE  /\ [i \in 1..c.sent |-> i] \in Seq(Nat) /\ c.got \in Seq(Nat)
         /\ c.ended \in BOOLEAN /\ c.eof \in BOOLEAN
<1>1. c.sent \in Nat /\ c.ended \in BOOLEAN
  BY GoodSent
<1>2. Len(c.got) \in Nat /\ c.got = Run(0, Len(c.got))
  BY GotIs
<1>3. c.eof \in BOOLEAN
  BY DEF Told
<1> QED
  BY <1>1, <1>2, <1>3, WroteIs, RunFirst

\* The streams after a step are streams of bytes.
LEMMA StreamState ==
  ASSUME ConnInv', ShortStreams', ToldInv'
  PROVE  Stream!State'
<1>1. ASSUME NEW p \in Peer
      PROVE  /\ [i \in 1..tcb'[p].sent |-> i] \in Seq(Nat) /\ tcb'[p].got \in Seq(Nat)
             /\ tcb'[p].ended \in BOOLEAN /\ tcb'[p].eof \in BOOLEAN
  <2> DEFINE o == Other(p)
             c == tcb'[p]
             q == tcb'[o]
  <2>1. o \in Peer /\ Other(o) = p
    BY OtherIs
  <2>2. Held(p)' /\ Held(o)'
    BY <2>1 DEF ConnInv
  <2>3. Good(p, o, c, q) /\ Good(o, p, q, c)
    BY <2>1, <2>2 DEF Held
  <2>4. Short(c) /\ Short(q)
    BY <2>1 DEF ShortStreams
  <2>5. Told(p, c, q)
    BY DEF ToldInv
  <2> HIDE DEF o, c, q
  <2>6. Room(p, q)
    BY <2>1, <2>3, <2>4, RoomIs
  <2>7. /\ [i \in 1..c.sent |-> i] \in Seq(Nat) /\ c.got \in Seq(Nat)
        /\ c.ended \in BOOLEAN /\ c.eof \in BOOLEAN
    BY <2>1, <2>3, <2>5, <2>6, BlockStreams
  <2> QED
    BY <2>7 DEF c
<1> QED
  BY <1>1 DEF Stream!State

\* A step of the connection is one of the streams, or none.
LEMMA StreamNext ==
  ASSUME ConnInv, SteadyInv, ShortStreams, ToldInv, ShortStreams', [Next]_vars, [~CutsOff]_vars
  PROVE  [Stream!Next]_(Stream!vars)
<1>1. Acts /\ ConnInv' /\ ToldInv'
  BY ConnNext, ToldNext
<1>2. CASE tcb' = tcb
  BY <1>2 DEF Stream!vars
<1>3. ASSUME NEW p \in Peer, Works(p, Other(p), tcb[p], tcb'[p], tcb[Other(p)]),
             tcb'[Other(p)] = tcb[Other(p)]
      PROVE  Stream!Next
  <2> DEFINE o == Other(p)
             c == tcb[p]
             q == tcb[o]
             t == tcb'[p]
  <2>1. o \in Peer /\ Other(o) = p /\ \A r \in Peer : r = p \/ r = o
    BY OtherIs
  <2>2. ~CutOff(c, t, q)
    BY CutsNot
  <2>3. Sure(p, c, t, q) /\ Goes(p, o, c, t, q)
    BY <1>3, <2>2 DEF Works
  <2>4. Told(p, c, q) /\ Good(p, o, c, q) /\ Room(p, q)
    BY <2>1, RoomHere DEF ToldInv, ConnInv, Held
  <2>5. c.sent \in Nat /\ t.sent \in Nat /\ c.sent <= t.sent
        /\ (c.ended => t.ended /\ t.sent = c.sent)
    BY <2>1, <2>3, <2>4, GoodSent DEF Goes, Grows
  <2>6. Stream!State'
    BY <1>1, StreamState
  <2>7. Stream!Writes(p)
    BY <2>5, WritesOn DEF Stream!Writes
  <2>8. Stream!Other(p) = o
    BY DEF Stream!Other, Other
  <2>9. Stream!Reads(p)
    <3>1. /\ Stream!Extends(t.got, c.got)
          /\ Stream!Extends([i \in 1..q.sent |-> i], t.got)
          /\ c.eof => t.eof /\ t.got = c.got
          /\ t.eof => q.ended /\ t.got = [i \in 1..q.sent |-> i]
      <4> HIDE DEF o, c, q, t
      <4> QED
        BY <2>1, <2>3, <2>4, ReadsOn
    <3> QED
      BY <2>1, <2>8, <3>1 DEF Stream!Reads
  <2>10. \A r \in Peer \ {p} : tcb'[r] = tcb[r]
    BY <1>3, <2>1
  <2>11. Stream!Step(p)
    BY <2>6, <2>7, <2>9, <2>10 DEF Stream!Step
  <2> QED
    BY <2>11 DEF Stream!Next
<1> QED
  BY <1>1, <1>2, <1>3 DEF Acts

(***************************************************************************)
(* A connection implements the two streams of ByteStream: a program reads  *)
(* what the other wrote, in order, and is told of the end only when it has *)
(* read everything (tcp_fd_read(), tcp_fd_write(), process_data()), for    *)
(* every size of window and segment and every network that loses, repeats  *)
(* and delays, as long as neither stream is longer than half of the        *)
(* sequence numbers and no clean reset (tcp_recv.c:530-538) cuts anything  *)
(* off.                                                                    *)
(***************************************************************************)
THEOREM Implements == Spec /\ []ShortStreams /\ [][~CutsOff]_vars => StreamSpec
<1>1. Init => SteadyInv /\ ConnInv /\ ToldInv
  BY SteadyInit, ConnInit, ToldInit
<1>2. SteadyInv /\ ConnInv /\ ToldInv /\ ShortStreams /\ [Next]_vars /\ [~CutsOff]_vars
        => SteadyInv' /\ ConnInv' /\ ToldInv'
  BY SteadyNext, ConnNext, ToldNext
<1>3. SteadyInv /\ ConnInv /\ ToldInv /\ ShortStreams /\ ShortStreams' /\ [Next]_vars
        /\ [~CutsOff]_vars => [Stream!Next]_(Stream!vars)
  BY StreamNext
<1> QED
  BY <1>1, <1>2, <1>3, StreamInit, PTL DEF Spec, StreamSpec, Stream!Spec

-----------------------------------------------------------------------------
(* What the refinement is for: every behaviour of the streams keeps the    *)
(* promise of ByteStream, and so the connection does.                      *)

\* Each end of the streams is the other one of the other one.
LEMMA EndsAre ==
  ASSUME NEW p \in Peer
  PROVE  /\ Stream!Other(p) \in Peer /\ Stream!Other(p) # p
         /\ \A q \in Peer : q # p => q = Stream!Other(p) /\ Stream!Other(q) = p
<1>1. \A q \in Peer : Stream!Other(q) = Other(q)
  BY DEF Stream!Other, Other
<1> QED
  BY <1>1, OtherIs

\* Adding to a stream twice is adding to it.
LEMMA ExtendsTransitive ==
  ASSUME NEW s \in Seq(Nat), NEW t \in Seq(Nat), NEW u \in Seq(Nat),
         Stream!Extends(t, s), Stream!Extends(u, t)
  PROVE  Stream!Extends(u, s)
BY DEF Stream!Extends

\* Nothing has been written or read at first.
LEMMA WholeInit ==
  ASSUME Stream!Init
  PROVE  Stream!State /\ Stream!Whole
<1>1. ASSUME NEW p \in Peer
      PROVE  /\ [i \in 1..tcb[p].sent |-> i] = <<>> /\ tcb[p].got = <<>>
             /\ tcb[p].ended = FALSE /\ tcb[p].eof = FALSE
  <2> DEFINE at(f) == f[p]
  <2>1. /\ at([q \in Peer |-> [i \in 1..tcb[q].sent |-> i]]) = at([q \in Peer |-> <<>>])
        /\ at([q \in Peer |-> tcb[q].got]) = at([q \in Peer |-> <<>>])
        /\ at([q \in Peer |-> tcb[q].ended]) = at([q \in Peer |-> FALSE])
        /\ at([q \in Peer |-> tcb[q].eof]) = at([q \in Peer |-> FALSE])
    <3> HIDE DEF at
    <3> QED
      BY DEF Stream!Init
  <2> QED
    BY <2>1
<1>2. Stream!State
  <2>1. <<>> \in Seq(Nat)
    OBVIOUS
  <2>2. ASSUME NEW p \in Peer
        PROVE  /\ [i \in 1..tcb[p].sent |-> i] \in Seq(Nat) /\ tcb[p].got \in Seq(Nat)
               /\ tcb[p].ended \in BOOLEAN /\ tcb[p].eof \in BOOLEAN
    BY <1>1, <2>1
  <2> QED
    BY <2>2 DEF Stream!State
<1>3. \A p \in Peer : Stream!Extends([i \in 1..tcb[Stream!Other(p)].sent |-> i], tcb[p].got)
  <2>1. Stream!Extends(<<>>, <<>>)
    BY DEF Stream!Extends
  <2> QED
    BY <1>1, <2>1, EndsAre
<1> QED
  BY <1>1, <1>2, <1>3, EndsAre DEF Stream!Whole

\* What one side has read and been told, and what the other has written.
Kept(got, eof, wrote, ended) ==
  /\ Stream!Extends(wrote, got)
  /\ eof => ended /\ got = wrote

\* A step of either program keeps both promises, of the stream it reads and
\* of the stream it writes.
LEMMA WholeStep ==
  ASSUME Stream!State, Stream!Whole, NEW p \in Peer, Stream!Step(p)
  PROVE  Stream!State' /\ Stream!Whole'
<1> DEFINE W(q) == [i \in 1..tcb[q].sent |-> i]
<1>1. Stream!State'
  BY DEF Stream!Step
<1>2. ASSUME NEW q \in Peer
      PROVE  /\ W(q) \in Seq(Nat) /\ W(q)' \in Seq(Nat) /\ tcb[q].got \in Seq(Nat)
             /\ Kept(tcb[q].got, tcb[q].eof, W(Stream!Other(q)), tcb[Stream!Other(q)].ended)
  BY <1>1, EndsAre DEF Stream!State, Stream!Whole, Kept
<1>3. ASSUME NEW q \in Peer, q # p
      PROVE  /\ W(q)' = W(q) /\ tcb'[q].got = tcb[q].got
             /\ tcb'[q].ended = tcb[q].ended /\ tcb'[q].eof = tcb[q].eof
  BY <1>3 DEF Stream!Step
<1>4. /\ Stream!Extends(W(p)', W(p))
      /\ tcb[p].ended => tcb'[p].ended /\ W(p)' = W(p)
  BY DEF Stream!Step, Stream!Writes
<1>5. Kept(tcb'[p].got, tcb'[p].eof, W(Stream!Other(p)), tcb[Stream!Other(p)].ended)
  BY EndsAre DEF Stream!Step, Stream!Reads, Kept
<1>6. ASSUME NEW r \in Peer
      PROVE  Kept(tcb'[r].got, tcb'[r].eof, W(Stream!Other(r))', tcb'[Stream!Other(r)].ended)
  <2>1. CASE r = p
    <3>1. Stream!Other(p) \in Peer /\ Stream!Other(p) # p
      BY EndsAre
    <3>2. /\ W(Stream!Other(p))' = W(Stream!Other(p))
          /\ tcb'[Stream!Other(p)].ended = tcb[Stream!Other(p)].ended
      BY <1>3, <3>1
    <3> HIDE DEF W
    <3> QED
      BY <2>1, <1>5, <3>2
  <2>2. CASE r # p
    <3>1. Stream!Other(r) = p
      BY <2>2, EndsAre
    <3>2. Stream!Extends(W(p), tcb[r].got)
      BY <1>2, <3>1 DEF Kept
    <3>3. Stream!Extends(W(p)', tcb[r].got)
      BY <1>2, <1>4, <3>2, ExtendsTransitive
    <3>4. tcb[r].eof => tcb'[p].ended /\ tcb[r].got = W(p)'
      BY <1>2, <1>4, <3>1 DEF Kept
    <3>5. tcb'[r].got = tcb[r].got /\ tcb'[r].eof = tcb[r].eof
      BY <1>3, <2>2
    <3> HIDE DEF W
    <3> QED
      BY <3>1, <3>3, <3>4, <3>5 DEF Kept
  <2> QED
    BY <2>1, <2>2
<1>7. Stream!Whole'
  BY <1>6, EndsAre DEF Stream!Whole, Kept
<1> QED
  BY <1>1, <1>7

\* Nothing that behaves as ByteStream says hands a program anything but the
\* beginning of what the other wrote, nor an end of file before all of it.
THEOREM StreamsWhole == Stream!Spec => []Stream!Whole
<1>1. Stream!State /\ Stream!Whole /\ [Stream!Next]_(Stream!vars)
        => Stream!State' /\ Stream!Whole'
  <2> SUFFICES ASSUME Stream!State, Stream!Whole, [Stream!Next]_(Stream!vars)
               PROVE  Stream!State' /\ Stream!Whole'
    OBVIOUS
  <2>1. CASE Stream!Next
    BY <2>1, WholeStep DEF Stream!Next
  <2>2. CASE UNCHANGED Stream!vars
    <3> DEFINE W == [q \in Peer |-> [i \in 1..tcb[q].sent |-> i]]
               R == [q \in Peer |-> tcb[q].got]
               D == [q \in Peer |-> tcb[q].ended]
               F == [q \in Peer |-> tcb[q].eof]
               State(w, r, d, f) == /\ w \in [Peer -> Seq(Nat)] /\ r \in [Peer -> Seq(Nat)]
                                    /\ d \in [Peer -> BOOLEAN] /\ f \in [Peer -> BOOLEAN]
               Whole(w, r, d, f) ==
                 \A q \in Peer : /\ Stream!Extends(w[Stream!Other(q)], r[q])
                                 /\ f[q] => d[Stream!Other(q)] /\ r[q] = w[Stream!Other(q)]
    <3>1. W' = W /\ R' = R /\ D' = D /\ F' = F
      BY <2>2 DEF Stream!vars
    <3>2. State(W, R, D, F) /\ Whole(W, R, D, F)
      BY DEF Stream!State, Stream!Whole
    <3>3. State(W', R', D', F') /\ Whole(W', R', D', F')
      <4> HIDE DEF W, R, D, F
      <4> QED
        BY <3>1, <3>2
    <3> QED
      BY <3>3 DEF Stream!State, Stream!Whole
  <2> QED
    BY <2>1, <2>2
<1> QED
  BY WholeInit, <1>1, PTL DEF Stream!Spec

(***************************************************************************)
(* The promise, for the two programs of a connection: what a read returns  *)
(* (tcp_fd_read()) is the next of what the other side wrote, and it says   *)
(* that the stream has ended after the last byte, not before.  The         *)
(* hypotheses are those of Implements.                                     *)
(***************************************************************************)
THEOREM PromiseKept == Spec /\ []ShortStreams /\ [][~CutsOff]_vars => []Stream!Whole
BY Implements, StreamsWhole, PTL DEF StreamSpec
==============================================================================
