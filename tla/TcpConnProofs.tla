---------------------------- MODULE TcpConnProofs ----------------------------
(***************************************************************************)
(* Proofs about one connection block of TcpConn, for every size of         *)
(* segments, windows and sequence numbers, all scripts and any number of   *)
(* faults: the timer, and what each C function makes of the block.         *)
(*                                                                         *)
(* A sequence number is given its place in the stream it counts, and a     *)
(* queue is a run of places: what the counters of one side say of its      *)
(* queues and of the other side then is arithmetic.  Each C function has a *)
(* lemma that says what it makes of a block for which that holds;          *)
(* TcpStreamProofs puts two blocks and the segments between them together. *)
(***************************************************************************)
EXTENDS TcpConn, NatLemmas

-----------------------------------------------------------------------------
(* Sequence numbers.  Modulo SeqSpace a number has a place in a stream, counted
   from where that stream begins. *)
Num == 0 .. SeqSpace - 1

LEMMA Space ==
  /\ SeqSpace \in Nat \ {0} /\ SeqSpace \div 2 \in Nat /\ 2 * (SeqSpace \div 2) = SeqSpace
  /\ MSS \in Nat /\ HDR \in Nat /\ SND_WND \in Nat \ {0} /\ RCV_WND \in Nat /\ MIN_RCV \in Nat
  /\ 0 < HDR /\ HDR < MSS /\ MSS <= RCV_WND
<1>1. SeqSpace \in Nat /\ SeqSpace % 2 = 0
  BY NetAssumption
<1>2. /\ MSS \in Nat /\ HDR \in Nat /\ SND_WND \in Nat \ {0} /\ RCV_WND \in Nat /\ MIN_RCV \in Nat
      /\ 0 < HDR /\ HDR < MSS /\ MSS <= RCV_WND
  BY NetAssumption
<1>3. SeqSpace # 0
  <2>1. SeqSpace > 4 * (SND_WND + RCV_WND + MSS)
    BY NetAssumption
  <2> QED
    BY <1>1, <1>2, <2>1
<1> QED
  BY <1>1, <1>2, <1>3

(* The remainder, near the range it is the identity on. *)
LEMMA Wrapped ==
  ASSUME NEW z \in Int, - SeqSpace <= z, z < 2 * SeqSpace
  PROVE  z % SeqSpace = IF z < 0 THEN z + SeqSpace
                        ELSE IF z < SeqSpace THEN z ELSE z - SeqSpace
<1>1. SeqSpace \in Nat \ {0}
  BY Space
<1>2. CASE z < 0
  BY <1>1, <1>2
<1>3. CASE z >= 0 /\ z < SeqSpace
  BY <1>1, <1>3
<1>4. CASE z >= SeqSpace
  BY <1>1, <1>4
<1> QED
  BY <1>1, <1>2, <1>3, <1>4

LEMMA DiffIs ==
  ASSUME NEW a \in Num, NEW b \in Num
  PROVE  /\ Diff(a, b) = IF a < b THEN a - b + SeqSpace ELSE a - b
         /\ Diff(a, b) \in Num
<1>1. SeqSpace \in Nat /\ a - b \in Int /\ - SeqSpace <= a - b /\ a - b < SeqSpace
  BY Space DEF Num
<1>2. (a - b) % SeqSpace = IF a - b < 0 THEN a - b + SeqSpace ELSE a - b
  BY <1>1, Wrapped
<1> QED
  BY <1>1, <1>2 DEF Diff, Num

LEMMA AddIs ==
  ASSUME NEW a \in Num, NEW k \in Int, - SeqSpace <= k, k <= SeqSpace
  PROVE  /\ Add(a, k) = IF a + k < 0 THEN a + k + SeqSpace
                        ELSE IF a + k < SeqSpace THEN a + k ELSE a + k - SeqSpace
         /\ Add(a, k) \in Num
<1> DEFINE z == a + k
<1>1. SeqSpace \in Nat /\ z \in Int /\ - SeqSpace <= z /\ z < 2 * SeqSpace
  BY Space DEF Num
<1> HIDE DEF z
<1>2. z % SeqSpace = IF z < 0 THEN z + SeqSpace ELSE IF z < SeqSpace THEN z ELSE z - SeqSpace
  BY <1>1, Wrapped
<1>3. z % SeqSpace \in Num
  BY <1>1, <1>2 DEF Num
<1>4. z = a + k /\ Add(a, k) = z % SeqSpace
  BY DEF z, Add
<1>5. Add(a, k) = IF z < 0 THEN z + SeqSpace ELSE IF z < SeqSpace THEN z ELSE z - SeqSpace
  BY <1>2, <1>4
<1>6. Add(a, k) \in Num
  BY <1>3, <1>4
<1> QED
  BY <1>5, <1>6, Space DEF z, Num

(* The place of a sequence number in the stream of p: its SYN is at 0, its n-th
   byte at n. *)
Pos(p, n) == Diff(n, ISS[p])

LEMMA PosType ==
  ASSUME NEW p \in Peer, NEW n \in Num
  PROVE  Pos(p, n) \in Num /\ Pos(p, n) \in Int /\ Pos(p, n) >= 0 /\ Pos(p, n) < SeqSpace
<1>1. ISS[p] \in Num
  BY NetAssumption DEF Num
<1>2. /\ Diff(n, ISS[p]) = IF n < ISS[p] THEN n - ISS[p] + SeqSpace ELSE n - ISS[p]
      /\ Diff(n, ISS[p]) \in Num
  BY <1>1, DiffIs
<1> QED
  BY <1>1, <1>2, Space DEF Pos, Num

LEMMA PosStart ==
  ASSUME NEW p \in Peer
  PROVE  ISS[p] \in Num /\ Pos(p, ISS[p]) = 0
<1>1. ISS[p] \in Num
  BY NetAssumption DEF Num
<1>2. /\ Diff(ISS[p], ISS[p]) = IF ISS[p] < ISS[p] THEN ISS[p] - ISS[p] + SeqSpace ELSE ISS[p] - ISS[p]
      /\ Diff(ISS[p], ISS[p]) \in Num
  BY <1>1, DiffIs
<1> QED
  BY <1>1, <1>2, Space DEF Pos, Num

(* Sequence numbers are one if their places are. *)
LEMMA PosSame ==
  ASSUME NEW p \in Peer, NEW a \in Num, NEW b \in Num, Pos(p, a) = Pos(p, b)
  PROVE  a = b
<1> DEFINE s == ISS[p]
<1>1. s \in Num
  BY NetAssumption DEF Num
<1> HIDE DEF s
<1>2. Diff(a, s) = IF a < s THEN a - s + SeqSpace ELSE a - s
  BY <1>1, DiffIs
<1>3. Diff(b, s) = IF b < s THEN b - s + SeqSpace ELSE b - s
  BY <1>1, DiffIs
<1>4. Diff(a, s) = Diff(b, s)
  BY DEF Pos, s
<1>5. SeqSpace \in Nat
  BY Space
<1> QED
  BY <1>1, <1>2, <1>3, <1>4, <1>5 DEF Num

(* What is added to a number is added to its place, while that does not wrap. *)
LEMMA PosAdd ==
  ASSUME NEW p \in Peer, NEW a \in Num, NEW k \in Int,
         - SeqSpace <= k, k <= SeqSpace,
         0 <= Pos(p, a) + k, Pos(p, a) + k < SeqSpace
  PROVE  Add(a, k) \in Num /\ Pos(p, Add(a, k)) = Pos(p, a) + k
<1>1. ISS[p] \in Num
  BY NetAssumption DEF Num
<1> DEFINE b == Add(a, k)
<1>2. b \in Num /\ b = IF a + k < 0 THEN a + k + SeqSpace
                       ELSE IF a + k < SeqSpace THEN a + k ELSE a + k - SeqSpace
  BY AddIs
<1> HIDE DEF b
<1>3. Diff(a, ISS[p]) = IF a < ISS[p] THEN a - ISS[p] + SeqSpace ELSE a - ISS[p]
  BY <1>1, DiffIs
<1>4. Diff(b, ISS[p]) = IF b < ISS[p] THEN b - ISS[p] + SeqSpace ELSE b - ISS[p]
  BY <1>1, <1>2, DiffIs
<1>5. Pos(p, b) = Pos(p, a) + k
  BY <1>1, <1>2, <1>3, <1>4, Space DEF Pos, Num
<1> QED
  BY <1>2, <1>5 DEF b

(* The difference of two numbers is that of their places. *)
LEMMA PosDiff ==
  ASSUME NEW p \in Peer, NEW a \in Num, NEW b \in Num
  PROVE  Diff(a, b) = IF Pos(p, a) < Pos(p, b) THEN Pos(p, a) - Pos(p, b) + SeqSpace
                      ELSE Pos(p, a) - Pos(p, b)
<1>1. ISS[p] \in Num
  BY NetAssumption DEF Num
<1>2. Diff(a, ISS[p]) = IF a < ISS[p] THEN a - ISS[p] + SeqSpace ELSE a - ISS[p]
  BY <1>1, DiffIs
<1>3. Diff(b, ISS[p]) = IF b < ISS[p] THEN b - ISS[p] + SeqSpace ELSE b - ISS[p]
  BY <1>1, DiffIs
<1>4. Diff(a, b) = IF a < b THEN a - b + SeqSpace ELSE a - b
  BY DiffIs
<1> QED
  BY <1>1, <1>2, <1>3, <1>4, Space DEF Pos, Num

(* Places in the first half of the numbers compare as the daemon compares
   numbers, by the top bit of the difference. *)
Near(p, a) == a \in Num /\ 2 * Pos(p, a) < SeqSpace

LEMMA Compare ==
  ASSUME NEW p \in Peer, NEW a, NEW b, Near(p, a), Near(p, b)
  PROVE  /\ Lmod4G(a, b) <=> Pos(p, a) < Pos(p, b)
         /\ GEmod4G(a, b) <=> Pos(p, a) >= Pos(p, b)
         /\ Gmod4G(a, b) <=> Pos(p, a) > Pos(p, b)
         /\ LEmod4G(a, b) <=> Pos(p, a) <= Pos(p, b)
         /\ Pos(p, a) >= Pos(p, b) => Diff(a, b) = Pos(p, a) - Pos(p, b)
         /\ a = b <=> Pos(p, a) = Pos(p, b)
<1> DEFINE x == Pos(p, a)
           y == Pos(p, b)
           h == SeqSpace \div 2
<1>1. a \in Num /\ b \in Num /\ x \in Int /\ y \in Int /\ x >= 0 /\ y >= 0 /\ x < h /\ y < h
      /\ h \in Nat /\ 2 * h = SeqSpace
  BY PosType, Space DEF Near
<1>2. Diff(a, b) = IF x < y THEN x - y + SeqSpace ELSE x - y
  BY <1>1, PosDiff
<1>3. Diff(b, a) = IF y < x THEN y - x + SeqSpace ELSE y - x
  BY <1>1, PosDiff
<1>4. x = y => a = b
  BY <1>1, PosSame
<1> HIDE DEF x, y
<1>5. /\ Diff(a, b) >= h <=> x < y
      /\ Diff(b, a) >= h <=> y < x
      /\ x >= y => Diff(a, b) = x - y
  BY <1>1, <1>2, <1>3
<1>6. /\ Lmod4G(a, b) <=> x < y
      /\ Lmod4G(b, a) <=> y < x
  BY <1>5 DEF Lmod4G
<1> HIDE DEF h
<1>7. a = b <=> x = y
  BY <1>4 DEF x, y
<1> QED
  BY <1>1, <1>5, <1>6, <1>7 DEF GEmod4G, Gmod4G, LEmod4G, x, y

-----------------------------------------------------------------------------
(* Blocks.  A block has the fields of FreshBlock, and every step of a handler
   keeps all but a few of them. *)
Names ==
  {"iss", "state", "error", "fd", "inprog", "orglisten", "UNA", "TRM", "NXT", "PSH",
   "cwnd", "cthresh", "sendq", "LO", "RCV", "HI", "rcvd", "adv", "advseq", "finsent",
   "finrecv", "sendack", "push", "more", "frag", "stt", "timer", "tseq", "open",
   "connected", "ioctl", "writing", "wcount", "woffset", "reading", "rcount", "posted",
   "sent", "ended", "got", "eof", "failed", "opened", "shut"}

Full(c) == DOMAIN c = Names

\* A step from c to t that changes no field but those of S.
Keeps(c, t, S) == Full(t) /\ \A f \in Names \ S : t[f] = c[f]

\* The fields that the functions of the write, read, open and close paths change.
FinFields == {"finsent", "NXT", "ended", "timer", "stt", "more"}
ReplyReadFields == {"reading", "rcount", "eof", "failed"}
ReplyWriteFields == {"writing", "wcount", "woffset", "failed"}
ReplyIoctlFields == {"ioctl", "opened", "shut"}
CopyInFields == {"sendq", "sent", "NXT", "woffset", "wcount", "PSH"}
WriteFields == FinFields \cup ReplyWriteFields \cup ReplyIoctlFields \cup CopyInFields
ReadFields == ReplyReadFields \cup {"got", "rcvd", "LO", "HI", "sendack", "more", "push"}
OpenFields == ReplyIoctlFields \cup {"fd", "inprog", "connected"}
EndFields == ReadFields \cup WriteFields \cup OpenFields
             \cup {"error", "state", "adv", "TRM", "frag", "tseq", "finrecv"}
SetupFields == {"error", "UNA", "TRM", "NXT", "PSH", "LO", "RCV", "HI", "cwnd", "cthresh",
                "finsent", "finrecv", "sendack", "push", "more", "stt", "timer", "tseq"}
StartFields == SetupFields \cup {"fd", "inprog", "orglisten", "state"}

LEMMA KeepsSelf ==
  ASSUME NEW c, Full(c), NEW S
  PROVE  Keeps(c, c, S)
BY DEF Keeps

LEMMA KeepsTrans ==
  ASSUME NEW c, NEW t, NEW u, NEW S, NEW R, Keeps(c, t, S), Keeps(t, u, R)
  PROVE  Keeps(c, u, S \cup R)
BY DEF Keeps

LEMMA KeepsBoth ==
  ASSUME NEW c, NEW t, NEW u, NEW S, Keeps(c, t, S), Keeps(t, u, S)
  PROVE  Keeps(c, u, S)
BY DEF Keeps

LEMMA FrameWrite ==
  ASSUME NEW c, Full(c)
  PROVE  Keeps(c, tcp_conn_write(c), {"more"}) /\ tcp_conn_write(c).more
BY DEF tcp_conn_write, Full, Keeps, Names

LEMMA FrameTimer ==
  ASSUME NEW c, Full(c)
  PROVE  Keeps(c, tcp_set_send_timer(c), {"timer", "stt"}) /\ tcp_set_send_timer(c).timer
BY DEF tcp_set_send_timer, Full, Keeps, Names

LEMMA FrameAckBack ==
  ASSUME NEW c, Full(c)
  PROVE  Keeps(c, AckBack(c), {"more", "sendack"})
BY DEF AckBack, tcp_conn_write, Full, Keeps

LEMMA FrameSendFin ==
  ASSUME NEW c, Full(c)
  PROVE  Keeps(c, SendFin(c), FinFields)
BY DEF SendFin, tcp_conn_write, tcp_set_send_timer, Full, Keeps, FinFields

LEMMA FrameReplies ==
  ASSUME NEW c, Full(c), NEW r
  PROVE  /\ Keeps(c, ReplyRead(c, r), ReplyReadFields)
         /\ Keeps(c, ReplyWrite(c, r), ReplyWriteFields)
         /\ Keeps(c, ReplyIoctl(c, r), ReplyIoctlFields)
BY DEF ReplyRead, ReplyWrite, ReplyIoctl, Full, Keeps, ReplyReadFields, ReplyWriteFields,
       ReplyIoctlFields

LEMMA FrameFdIoctl ==
  ASSUME NEW c, Full(c)
  PROVE  Keeps(c, FdIoctl(c), FinFields \cup ReplyIoctlFields)
<1>1. /\ Keeps(c, c, FinFields \cup ReplyIoctlFields)
      /\ Keeps(c, SendFin(c), FinFields)
      /\ Keeps(c, ReplyIoctl(c, c.error), ReplyIoctlFields)
      /\ Keeps(c, ReplyIoctl(c, "OK"), ReplyIoctlFields)
  BY KeepsSelf, FrameSendFin, FrameReplies
<1>2. /\ Keeps(c, SendFin(c), FinFields \cup ReplyIoctlFields)
      /\ Keeps(c, ReplyIoctl(c, c.error), FinFields \cup ReplyIoctlFields)
      /\ Keeps(c, ReplyIoctl(c, "OK"), FinFields \cup ReplyIoctlFields)
  BY <1>1 DEF Keeps
<1> QED
  BY <1>1, <1>2 DEF FdIoctl

LEMMA FrameCopyIn ==
  ASSUME NEW c, Full(c), NEW n
  PROVE  Keeps(c, CopyIn(c, n), CopyInFields)
BY DEF CopyIn, Full, Keeps, CopyInFields

LEMMA FrameFdWrite ==
  ASSUME NEW c, Full(c)
  PROVE  Keeps(c, tcp_fd_write(c), WriteFields)
<1>1. Keeps(c, FdIoctl(c), WriteFields)
  BY FrameFdIoctl DEF Keeps, WriteFields
<1>2. /\ Keeps(c, ReplyWrite(c, "short"), WriteFields)
      /\ Keeps(c, ReplyWrite(c, "error"), WriteFields)
  BY FrameReplies DEF Keeps, WriteFields
<1>3. Keeps(c, FdCopyIn(c), WriteFields)
  <2> DEFINE room == SND_WND - Diff(c.NXT, c.UNA)
             t == CopyIn(c, c.wcount)
  <2>1. Keeps(c, t, CopyInFields) /\ Keeps(c, CopyIn(c, room), CopyInFields)
    BY FrameCopyIn
  <2>2. Keeps(t, ReplyWrite(t, "ok"), ReplyWriteFields)
    <3> HIDE DEF t
    <3> QED
      BY <2>1, FrameReplies DEF Keeps
  <2>3. FdCopyIn(c) = IF c.wcount <= room THEN ReplyWrite(t, "ok") ELSE CopyIn(c, room)
    BY DEF FdCopyIn
  <2> HIDE DEF t, room
  <2>4. Keeps(c, ReplyWrite(t, "ok"), WriteFields)
    BY <2>1, <2>2 DEF Keeps, WriteFields
  <2>5. Keeps(c, CopyIn(c, room), WriteFields)
    BY <2>1 DEF Keeps, WriteFields
  <2> QED
    BY <2>3, <2>4, <2>5
<1> QED
  BY <1>1, <1>2, <1>3 DEF tcp_fd_write

LEMMA FrameCopyOut ==
  ASSUME NEW c, Full(c), NEW n
  PROVE  Keeps(c, CopyOut(c, n), {"got", "rcvd", "LO", "rcount"})
BY DEF CopyOut, Full, Keeps

LEMMA FrameSlide ==
  ASSUME NEW c, Full(c)
  PROVE  Keeps(c, SlideWindow(c), {"HI", "sendack", "more"})
BY DEF SlideWindow, tcp_conn_write, Full, Keeps

LEMMA FrameDrain ==
  ASSUME NEW c, Full(c)
  PROVE  Keeps(c, Drain(c), {"push"})
BY DEF Drain, Full, Keeps

LEMMA FrameHandOver ==
  ASSUME NEW c, Full(c), NEW n
  PROVE  Keeps(c, HandOver(c, n), ReadFields)
<1> DEFINE t1 == CopyOut(c, n)
           t2 == SlideWindow(t1)
           t3 == Drain(t2)
<1>1. Keeps(c, t1, ReadFields)
  BY FrameCopyOut DEF Keeps, ReadFields, ReplyReadFields
<1> HIDE DEF t1
<1>2. Keeps(t1, t2, {"HI", "sendack", "more"})
  BY <1>1, FrameSlide DEF Keeps
<1>3. Keeps(c, t2, ReadFields)
  BY <1>1, <1>2 DEF Keeps, ReadFields, ReplyReadFields
<1> HIDE DEF t2
<1>4. Keeps(t2, t3, {"push"})
  BY <1>3, FrameDrain DEF Keeps
<1>5. Keeps(c, t3, ReadFields)
  BY <1>3, <1>4 DEF Keeps, ReadFields, ReplyReadFields
<1> HIDE DEF t3
<1>6. /\ Keeps(t3, ReplyRead(t3, "data"), ReplyReadFields)
      /\ Keeps(t3, ReplyRead(t3, "eof"), ReplyReadFields)
  BY <1>5, FrameReplies DEF Keeps
<1>7. /\ Keeps(c, ReplyRead(t3, "data"), ReadFields)
      /\ Keeps(c, ReplyRead(t3, "eof"), ReadFields)
  BY <1>5, <1>6 DEF Keeps, ReadFields, ReplyReadFields
<1>8. \/ HandOver(c, n) = ReplyRead(t3, "data")
      \/ HandOver(c, n) = ReplyRead(t3, "eof")
      \/ HandOver(c, n) = t3
  BY DEF HandOver, t1, t2, t3
<1> QED
  BY <1>5, <1>7, <1>8

LEMMA FrameFdRead ==
  ASSUME NEW c, Full(c)
  PROVE  Keeps(c, tcp_fd_read(c), ReadFields)
<1>1. /\ Keeps(c, ReplyRead(c, ErrorAsRead(c)), ReadFields)
      /\ Keeps(c, c, ReadFields)
  BY FrameReplies DEF Keeps, ReadFields
<1>2. /\ Keeps(c, HandOver(c, c.rcount), ReadFields)
      /\ Keeps(c, HandOver(c, DataSize(c)), ReadFields)
  BY FrameHandOver
<1> QED
  BY <1>1, <1>2 DEF tcp_fd_read

LEMMA FrameReadIfPosted ==
  ASSUME NEW c, Full(c)
  PROVE  Keeps(c, ReadIfPosted(c), ReadFields)
BY FrameFdRead, KeepsSelf DEF ReadIfPosted

LEMMA FrameRestart ==
  ASSUME NEW c, Full(c)
  PROVE  Keeps(c, tcp_restart_connect(c), OpenFields)
<1> DEFINE t == [c EXCEPT !.fd = FALSE, !.inprog = FALSE]
           u == [c EXCEPT !.connected = TRUE, !.inprog = FALSE]
<1>1. Keeps(c, t, OpenFields) /\ Keeps(c, u, OpenFields)
  BY DEF Full, Keeps, OpenFields
<1>2. tcp_restart_connect(c) = IF c.state = "CLOSED" THEN ReplyIoctl(t, c.error)
                               ELSE ReplyIoctl(u, "OK")
  BY DEF tcp_restart_connect
<1> HIDE DEF t, u
<1>3. /\ Keeps(t, ReplyIoctl(t, c.error), ReplyIoctlFields)
      /\ Keeps(u, ReplyIoctl(u, "OK"), ReplyIoctlFields)
  BY <1>1, FrameReplies DEF Keeps
<1>4. /\ Keeps(c, ReplyIoctl(t, c.error), OpenFields)
      /\ Keeps(c, ReplyIoctl(u, "OK"), OpenFields)
  BY <1>1, <1>3 DEF Keeps, OpenFields
<1> QED
  BY <1>2, <1>4

(* The answers of a connection that ends. *)
LEMMA FrameAnswers ==
  ASSUME NEW c, Full(c)
  PROVE  Keeps(c, AnswerAll(c), ReadFields \cup WriteFields \cup OpenFields)
<1> DEFINE S == ReadFields \cup WriteFields \cup OpenFields
           t1 == AnswerRead(c)
           t2 == AnswerWrite(t1)
           t3 == AnswerIoctl(t2)
           t4 == AnswerOpen(t3)
<1> HIDE DEF S
<1>1. Keeps(c, t1, S)
  BY FrameFdRead, KeepsSelf DEF AnswerRead, S, Keeps
<1> HIDE DEF t1
<1>2. ASSUME NEW d, Full(d) PROVE Keeps(d, tcp_conn_write(tcp_fd_write(d)), S)
  <2> DEFINE w == tcp_fd_write(d)
  <2>1. Keeps(d, w, WriteFields)
    BY <1>2, FrameFdWrite
  <2> HIDE DEF w
  <2>2. Keeps(w, tcp_conn_write(w), {"more"})
    BY <2>1, FrameWrite DEF Keeps
  <2> QED
    BY <2>1, <2>2 DEF Keeps, S, WriteFields, FinFields, w
<1>3. Keeps(t1, t2, S)
  BY <1>1, <1>2, KeepsSelf DEF AnswerWrite, Keeps
<1> HIDE DEF t2
<1>4. Keeps(t2, t3, S)
  BY <1>3, <1>2, KeepsSelf DEF AnswerIoctl, Keeps
<1> HIDE DEF t3
<1>5. Keeps(t3, t4, S)
  BY <1>4, FrameRestart, KeepsSelf DEF AnswerOpen, Keeps, S
<1> HIDE DEF t4
<1>6. Keeps(c, t4, S)
  BY <1>1, <1>3, <1>4, <1>5, KeepsBoth
<1>7. AnswerAll(c) = IF c.fd THEN t4 ELSE c
  BY DEF AnswerAll, t1, t2, t3, t4
<1>8. Keeps(c, c, S)
  BY KeepsSelf
<1> QED
  BY <1>6, <1>7, <1>8 DEF S

LEMMA FrameClose ==
  ASSUME NEW c, Full(c), NEW err
  PROVE  /\ Keeps(c, tcp_close_connection(c, err), EndFields)
         /\ tcp_close_connection(c, err).state = "CLOSED"
<1> DEFINE d == [c EXCEPT !.error = err, !.state = "CLOSED"]
           a == AnswerAll(d)
<1>1. CASE c.state = "CLOSED"
  BY <1>1 DEF tcp_close_connection, Full, Keeps, EndFields, Names
<1>2. CASE c.state # "CLOSED"
  <2>1. Keeps(c, d, {"error", "state"}) /\ d.state = "CLOSED"
    BY DEF Full, Keeps, Names
  <2> HIDE DEF d
  <2>2. Keeps(d, a, ReadFields \cup WriteFields \cup OpenFields)
    BY <2>1, FrameAnswers DEF Keeps
  <2>3. tcp_close_connection(c, err) =
          [a EXCEPT !.rcvd = <<>>, !.LO = c.RCV, !.adv = <<>>,
                    !.sendq = <<>>, !.TRM = c.UNA, !.NXT = c.UNA, !.frag = NoRST,
                    !.timer = FALSE, !.tseq = 0, !.finsent = FALSE,
                    !.finrecv = FALSE, !.sendack = FALSE, !.push = FALSE,
                    !.more = FALSE]
    BY <1>2 DEF tcp_close_connection, d
  <2> HIDE DEF a
  <2>4. Keeps(c, a, EndFields) /\ a.state = "CLOSED"
    BY <2>1, <2>2 DEF Keeps, EndFields, ReadFields, WriteFields, OpenFields, FinFields,
          ReplyReadFields, ReplyWriteFields, ReplyIoctlFields, CopyInFields, Names
  <2>5. Keeps(a, tcp_close_connection(c, err), EndFields \ {"state"})
    BY <2>3, <2>4 DEF Full, Keeps, EndFields, ReadFields, WriteFields, OpenFields, FinFields,
          ReplyReadFields, CopyInFields, Names
  <2> QED
    BY <2>4, <2>5 DEF Keeps, EndFields, Names
<1> QED
  BY <1>1, <1>2

(* What tcp_port_write() makes of a block: a finite run of make_pack(). *)
Accs(acc) == DOMAIN acc = {"c", "out", "done"}

\* g[i] is what i rounds of make_pack() make of a.
Chain(g, a) ==
  /\ g = [i \in 0 .. MaxBurst |-> g[i]] /\ g[0] = a
  /\ \A i \in 1 .. MaxBurst : g[i] = Burst(g[i - 1])

LEMMA MaxBurstNat == MaxBurst \in Nat /\ MaxBurst >= 3
BY Space DEF MaxBurst

LEMMA ChainExists ==
  ASSUME NEW a
  PROVE  \E g : Chain(g, a)
<1> DEFINE Upto(g, n) == /\ g = [i \in 0 .. n |-> g[i]] /\ g[0] = a
                         /\ \A i \in 1 .. n : g[i] = Burst(g[i - 1])
           T == {n \in Nat : \E g : Upto(g, n)}
<1>1. 0 \in T
  <2> DEFINE g == [k \in 0 .. 0 |-> a]
  <2>1. g = [i \in 0 .. 0 |-> g[i]] /\ g[0] = a /\ 1 .. 0 = {}
    OBVIOUS
  <2> HIDE DEF g
  <2>2. Upto(g, 0)
    BY <2>1
  <2> QED
    BY <2>2
<1>2. ASSUME NEW n \in T PROVE n + 1 \in T
  <2>1. PICK g : Upto(g, n)
    OBVIOUS
  <2> DEFINE h == [k \in 0 .. n + 1 |-> IF k = n + 1 THEN Burst(g[n]) ELSE g[k]]
  <2>2. n \in Nat /\ h = [i \in 0 .. n + 1 |-> h[i]] /\ h[0] = a
    BY <2>1
  <2>3. ASSUME NEW i \in 1 .. n + 1 PROVE h[i] = Burst(h[i - 1])
    <3>1. CASE i = n + 1
      BY <2>2, <3>1
    <3>2. CASE i # n + 1
      <4>1. i \in 1 .. n /\ i \in 0 .. n + 1 /\ i - 1 \in 0 .. n + 1 /\ i - 1 # n + 1
        BY <2>2, <3>2
      <4>2. h[i] = g[i] /\ h[i - 1] = g[i - 1]
        BY <3>2, <4>1
      <4> QED
        BY <2>1, <4>1, <4>2
    <3> QED
      BY <3>1, <3>2
  <2> HIDE DEF h
  <2>4. Upto(h, n + 1)
    BY <2>2, <2>3
  <2>5. n + 1 \in Nat
    BY <2>2
  <2> QED
    BY <2>4, <2>5
<1> HIDE DEF T
<1>3. T = Nat
  <2>1. T \in SUBSET Nat
    BY DEF T
  <2> QED
    BY <1>1, <1>2, <2>1, NatInd
<1>4. MaxBurst \in T
  BY <1>3, MaxBurstNat
<1> QED
  BY <1>4 DEF T, Chain

\* What the first round starts from: the reset, if one is due, goes first.
PortStart(c) ==
  [c |-> [c EXCEPT !.more = FALSE, !.frag = NoRST],
   out |-> IF c.frag = NoRST THEN <<>> ELSE <<c.frag>>,
   done |-> ~c.more]

LEMMA PortWrite ==
  ASSUME NEW c
  PROVE  \E g : Chain(g, PortStart(c)) /\ tcp_port_write(c) = g[MaxBurst]
<1> DEFINE a == PortStart(c)
           Is(f) == f = [i \in 0 .. MaxBurst |->
                           IF i = 0 THEN a ELSE Burst(f[i - 1])]
           burst == CHOOSE f : Is(f)
<1>1. tcp_port_write(c) = burst[MaxBurst]
  BY DEF tcp_port_write, PortStart
<1>2. Is(burst)
  <2>1. PICK g : Chain(g, a)
    BY ChainExists
  <2>2. g = [i \in 0 .. MaxBurst |-> g[i]]
    BY <2>1 DEF Chain
  <2>3. \A i \in 0 .. MaxBurst : g[i] = IF i = 0 THEN a ELSE Burst(g[i - 1])
    BY <2>1, MaxBurstNat, SMTT(20) DEF Chain
  <2>4. Is(g)
    BY <2>2, <2>3
  <2> HIDE DEF a
  <2> QED
    BY <2>4
<1> HIDE DEF a, burst
<1>3. Chain(burst, a)
  BY <1>2, MaxBurstNat DEF Chain
<1> QED
  BY <1>1, <1>3 DEF a

\* The states of a block, and what sending changes of it.
States == {"CLOSED", "LISTEN", "SYN_SENT", "SYN_RECEIVED", "ESTABLISHED", "CLOSING"}
PackFields == {"sendack", "TRM"}
PortFields == PackFields \cup {"more", "frag"}

LEMMA FramePack ==
  ASSUME NEW c, Full(c), c.state \in States
  PROVE  Keeps(c, make_pack(c)[1], PackFields)
<1>1. Keeps(c, c, PackFields)
  BY KeepsSelf
<1>2. Keeps(c, HandshakePack(c)[1], PackFields)
  <2> DEFINE syn == c.TRM = c.iss
             t == [c EXCEPT !.sendack = FALSE, !.TRM = IF syn THEN Add(@, 1) ELSE @]
  <2>1. HandshakePack(c)[1] = c \/ HandshakePack(c)[1] = t
    BY DEF HandshakePack
  <2>2. Keeps(c, t, PackFields)
    BY DEF Keeps, Full, PackFields
  <2> QED
    BY <1>1, <2>1, <2>2
<1>3. Keeps(c, EstablishedPack(c)[1], PackFields)
  <2> DEFINE d == DataPack(c)
  <2> HIDE DEF d
  <2> DEFINE t == [c EXCEPT !.sendack = FALSE, !.TRM = IF d.none THEN @ ELSE d.hi]
  <2>1. EstablishedPack(c)[1] = c \/ EstablishedPack(c)[1] = t
    BY DEF EstablishedPack, Packed, d
  <2>2. Keeps(c, t, PackFields)
    BY DEF Keeps, Full, PackFields
  <2> QED
    BY <1>1, <2>1, <2>2
<1>4. make_pack(c)[1] \in {c, HandshakePack(c)[1], EstablishedPack(c)[1]}
  <2>1. CASE c.state \in {"CLOSED", "LISTEN"}
    BY <2>1 DEF make_pack
  <2>2. CASE c.state \in {"SYN_SENT", "SYN_RECEIVED"}
    BY <2>2 DEF make_pack
  <2>3. CASE c.state \in {"ESTABLISHED", "CLOSING"}
    BY <2>3 DEF make_pack
  <2> QED
    BY <2>1, <2>2, <2>3 DEF States
<1> QED
  BY <1>1, <1>2, <1>3, <1>4

(* One round of tcp_port_write(). *)
LEMMA Round ==
  ASSUME NEW acc, Accs(acc)
  PROVE  LET t == Burst(acc)  m == make_pack(acc.c)
         IN /\ Accs(t)
            /\ t.c = (IF ~acc.done /\ m[2].some THEN m[1] ELSE acc.c)
            /\ t.out = (IF ~acc.done /\ m[2].some THEN Append(acc.out, m[2].seg) ELSE acc.out)
            /\ t.done = (IF ~acc.done /\ ~m[2].some THEN TRUE ELSE acc.done)
BY DEF Burst, Accs

LEMMA FramePort ==
  ASSUME NEW c, Full(c), c.state \in States
  PROVE  Keeps(c, tcp_port_write(c).c, PortFields)
<1>1. PICK g : Chain(g, PortStart(c)) /\ tcp_port_write(c) = g[MaxBurst]
  BY PortWrite
<1> DEFINE Fine(acc) == Accs(acc) /\ Keeps(c, acc.c, PortFields)
           T == {n \in Nat : n <= MaxBurst => Fine(g[n])}
<1>2. 0 \in T
  <2>1. g[0] = PortStart(c)
    BY <1>1 DEF Chain
  <2>2. Fine(PortStart(c))
    BY DEF PortStart, Accs, Keeps, Full, PortFields
  <2> QED
    BY <2>1, <2>2
<1>3. ASSUME NEW n \in T PROVE n + 1 \in T
  <2>1. n \in Nat
    OBVIOUS
  <2>2. ASSUME n + 1 <= MaxBurst PROVE Fine(g[n + 1])
    <3> DEFINE a == g[n]
    <3>1. Fine(a)
      BY <2>1, <2>2, MaxBurstNat
    <3>2. n + 1 \in 1 .. MaxBurst /\ n + 1 - 1 = n
      BY <2>1, <2>2, MaxBurstNat
    <3>3. g[n + 1] = Burst(a)
      BY <1>1, <3>2 DEF Chain
    <3> HIDE DEF a
    <3>4. Full(a.c) /\ a.c.state \in States
      BY <3>1 DEF Keeps, PortFields, PackFields, Names
    <3>5. Keeps(a.c, make_pack(a.c)[1], PackFields)
      BY <3>4, FramePack
    <3>6. Accs(Burst(a)) /\ (Burst(a).c = make_pack(a.c)[1] \/ Burst(a).c = a.c)
      BY <3>1, Round
    <3>7. Keeps(c, make_pack(a.c)[1], PortFields)
      BY <3>1, <3>5 DEF Keeps, PortFields
    <3> QED
      BY <3>1, <3>3, <3>6, <3>7
  <2> QED
    BY <2>1, <2>2
<1> HIDE DEF T
<1>4. T = Nat
  <2>1. T \in SUBSET Nat
    BY DEF T
  <2> QED
    BY <1>2, <1>3, <2>1, NatInd
<1>5. Fine(g[MaxBurst])
  BY <1>4, MaxBurstNat DEF T
<1> QED
  BY <1>1, <1>5

-----------------------------------------------------------------------------
(* The end of a connection, field by field. *)

LEMMA ReadClosed ==
  ASSUME NEW c, Full(c), c.state = "CLOSED", NEW t, t = tcp_fd_read(c)
  PROVE  /\ Keeps(c, t, ReplyReadFields)
         /\ t.reading = FALSE /\ t.rcount = 0
         /\ t.eof = (c.eof \/ c.error = "OK")
BY DEF tcp_fd_read, ReplyRead, ErrorAsRead, Full, Keeps, ReplyReadFields, Names

LEMMA IoctlClosed ==
  ASSUME NEW c, Full(c), c.state = "CLOSED", NEW t, t = FdIoctl(c)
  PROVE  /\ Keeps(c, t, ReplyIoctlFields) /\ t.opened = c.opened
         /\ t.ioctl = (IF c.ioctl = "SHUTDOWN" THEN "none" ELSE c.ioctl)
         /\ t.shut = (IF c.ioctl = "SHUTDOWN" THEN c.error ELSE c.shut)
<1>1. t = IF c.ioctl = "SHUTDOWN" THEN ReplyIoctl(c, c.error) ELSE c
  <2>1. CASE c.ioctl = "SHUTDOWN"
    BY <2>1 DEF FdIoctl
  <2>2. CASE c.ioctl # "SHUTDOWN"
    BY <2>2 DEF FdIoctl
  <2> QED
    BY <2>1, <2>2
<1> QED
  BY <1>1 DEF ReplyIoctl, Full, Keeps, ReplyIoctlFields, Names

\* What the end of a write or of a shutdown changes.
CutFields == ReplyWriteFields \cup ReplyIoctlFields \cup {"more"}

\* Either of the writes or the ioctl has been answered, or neither.
Cut(c, t) ==
  /\ Keeps(c, t, CutFields) /\ t.opened = c.opened
  /\ t.writing \in {c.writing, FALSE} /\ t.wcount \in {c.wcount, 0}
  /\ t.ioctl \in {c.ioctl, "none"}
  /\ t.ioctl = c.ioctl \/ c.ioctl = "SHUTDOWN"
  /\ t.shut = c.shut \/ (c.ioctl = "SHUTDOWN" /\ t.shut = c.error)

LEMMA WriteClosed ==
  ASSUME NEW c, Full(c), c.state = "CLOSED", NEW t, t = tcp_conn_write(tcp_fd_write(c))
  PROVE  Cut(c, t)
<1> DEFINE w == tcp_fd_write(c)
<1>1. CASE c.ioctl # "none" /\ ~c.writing
  <2>1. w = FdIoctl(c)
    BY <1>1 DEF tcp_fd_write
  <2> HIDE DEF w
  <2>2. /\ Keeps(c, w, ReplyIoctlFields) /\ w.opened = c.opened
        /\ w.ioctl = (IF c.ioctl = "SHUTDOWN" THEN "none" ELSE c.ioctl)
        /\ w.shut = (IF c.ioctl = "SHUTDOWN" THEN c.error ELSE c.shut)
    BY <2>1, IoctlClosed
  <2>3. Keeps(w, t, {"more"})
    BY <2>2, FrameWrite DEF Keeps, w
  <2> QED
    BY <1>1, <2>2, <2>3 DEF Cut, Keeps, CutFields, ReplyIoctlFields, ReplyWriteFields, Names
<1>2. CASE ~(c.ioctl # "none" /\ ~c.writing)
  <2>1. \E r : w = ReplyWrite(c, r)
    BY <1>2 DEF tcp_fd_write
  <2> HIDE DEF w
  <2>2. /\ Keeps(c, w, ReplyWriteFields) /\ w.writing = FALSE /\ w.wcount = 0 /\ w.woffset = 0
    BY <2>1 DEF ReplyWrite, Full, Keeps, ReplyWriteFields, Names
  <2>3. Keeps(w, t, {"more"})
    BY <2>2, FrameWrite DEF Keeps, w
  <2> QED
    BY <1>2, <2>2, <2>3 DEF Cut, Keeps, CutFields, ReplyIoctlFields, ReplyWriteFields, Names
<1> QED
  BY <1>1, <1>2

LEMMA RestartClosed ==
  ASSUME NEW c, Full(c), c.state = "CLOSED", NEW t, t = tcp_restart_connect(c)
  PROVE  /\ Keeps(c, t, OpenFields \ {"connected"})
         /\ t.fd = FALSE /\ t.inprog = FALSE /\ t.ioctl = "none"
         /\ t.opened = (IF c.ioctl \in {"CONN", "LISTEN"} THEN c.error ELSE c.opened)
         /\ t.shut = (IF c.ioctl = "SHUTDOWN" THEN c.error ELSE c.shut)
BY DEF tcp_restart_connect, ReplyIoctl, Full, Keeps, OpenFields, ReplyIoctlFields, Names

\* What answering everything that is posted changes.
AnswerFields == ReplyReadFields \cup CutFields \cup {"fd", "inprog"}

LEMMA Answered4 ==
  ASSUME NEW c, Full(c), c.state = "CLOSED", NEW t, t = AnswerAll(c), c.fd
  PROVE  /\ Keeps(c, t, AnswerFields)
         /\ t.reading \in {c.reading, FALSE} /\ t.writing \in {c.writing, FALSE}
         /\ t.rcount \in {c.rcount, 0} /\ t.wcount \in {c.wcount, 0}
         /\ t.eof = c.eof \/ (c.reading /\ t.eof = (c.eof \/ c.error = "OK"))
         /\ c.reading => ~t.reading
         /\ t.ioctl \in {c.ioctl, "none"}
         /\ t.opened = c.opened \/ (c.inprog /\ c.ioctl \in {"CONN", "LISTEN"} /\ t.opened = c.error)
         /\ t.shut = c.shut \/ (c.ioctl = "SHUTDOWN" /\ t.shut = c.error)
         /\ t.fd = (IF c.inprog THEN FALSE ELSE c.fd)
         /\ t.inprog = (IF c.inprog THEN FALSE ELSE c.inprog)
         /\ c.inprog => t.ioctl = "none"
<1> DEFINE t1 == AnswerRead(c)
           t2 == AnswerWrite(t1)
           t3 == AnswerIoctl(t2)
<1>1. /\ Keeps(c, t1, ReplyReadFields)
      /\ t1.reading \in {c.reading, FALSE} /\ t1.rcount \in {c.rcount, 0}
      /\ t1.eof = c.eof \/ (c.reading /\ t1.eof = (c.eof \/ c.error = "OK"))
      /\ c.reading => ~t1.reading
  BY ReadClosed, KeepsSelf DEF AnswerRead
<1> HIDE DEF t1
<1>2. ASSUME NEW d, Full(d), d.state = "CLOSED", NEW u,
             u = d \/ u = tcp_conn_write(tcp_fd_write(d))
      PROVE  Cut(d, u)
  <2>1. CASE u = d
    BY <2>1, <1>2, KeepsSelf DEF Cut
  <2> QED
    BY <1>2, <2>1, WriteClosed
<1>3. Full(t1) /\ t1.state = "CLOSED"
  BY <1>1 DEF Keeps, ReplyReadFields, Names
<1>4. t2 = t1 \/ t2 = tcp_conn_write(tcp_fd_write(t1))
  BY DEF AnswerWrite
<1> HIDE DEF t2
<1>5. Cut(t1, t2)
  BY <1>2, <1>3, <1>4
<1>6. Full(t2) /\ t2.state = "CLOSED"
  BY <1>3, <1>5 DEF Cut, Keeps, CutFields, ReplyWriteFields, ReplyIoctlFields, Names
<1>7. t3 = t2 \/ t3 = tcp_conn_write(tcp_fd_write(t2))
  BY DEF AnswerIoctl
<1> HIDE DEF t3
<1>8. Cut(t2, t3)
  BY <1>2, <1>6, <1>7
<1>9. Full(t3) /\ t3.state = "CLOSED"
  BY <1>6, <1>8 DEF Cut, Keeps, CutFields, ReplyWriteFields, ReplyIoctlFields, Names
<1>10. /\ Keeps(c, t3, ReplyReadFields \cup CutFields) /\ t3.opened = c.opened
       /\ t3.reading = t1.reading /\ t3.rcount = t1.rcount /\ t3.eof = t1.eof
       /\ t3.writing \in {c.writing, FALSE} /\ t3.wcount \in {c.wcount, 0}
       /\ t3.ioctl \in {c.ioctl, "none"}
       /\ t3.ioctl = c.ioctl \/ c.ioctl = "SHUTDOWN"
       /\ t3.shut = c.shut \/ (c.ioctl = "SHUTDOWN" /\ t3.shut = c.error)
  <2>1. /\ t1.opened = c.opened /\ t1.writing = c.writing /\ t1.wcount = c.wcount
        /\ t1.ioctl = c.ioctl /\ t1.shut = c.shut /\ t1.error = c.error
    BY <1>1 DEF Keeps, ReplyReadFields, Names
  <2>2. t2.reading = t1.reading /\ t2.rcount = t1.rcount /\ t2.eof = t1.eof /\ t2.error = t1.error
    BY <1>5 DEF Cut, Keeps, CutFields, ReplyWriteFields, ReplyIoctlFields, Names
  <2>3. t3.reading = t2.reading /\ t3.rcount = t2.rcount /\ t3.eof = t2.eof
    BY <1>8 DEF Cut, Keeps, CutFields, ReplyWriteFields, ReplyIoctlFields, Names
  <2>4. Keeps(c, t3, ReplyReadFields \cup CutFields)
    BY <1>1, <1>5, <1>8 DEF Cut, Keeps
  <2> QED
    BY <1>1, <1>5, <1>8, <2>1, <2>2, <2>3, <2>4 DEF Cut
<1>11. t = IF t3.inprog THEN tcp_restart_connect(t3) ELSE t3
  BY DEF AnswerAll, AnswerOpen, t1, t2, t3
<1>12. t3.inprog = c.inprog /\ t3.fd = c.fd /\ t3.error = c.error
  BY <1>10, ZenonT(20) DEF Keeps, CutFields, ReplyReadFields, ReplyWriteFields, ReplyIoctlFields, Names
<1>13. CASE ~c.inprog
  <2>1. t = t3
    BY <1>11, <1>12, <1>13
  <2>2. Keeps(c, t, AnswerFields)
    BY <1>10, <2>1 DEF Keeps, AnswerFields
  <2> QED
    BY <1>1, <1>10, <1>12, <1>13, <2>1, <2>2
<1>14. CASE c.inprog
  <2>1. t = tcp_restart_connect(t3)
    BY <1>11, <1>12, <1>14
  <2>2. /\ Keeps(t3, t, OpenFields \ {"connected"})
        /\ t.fd = FALSE /\ t.inprog = FALSE /\ t.ioctl = "none"
        /\ t.opened = (IF t3.ioctl \in {"CONN", "LISTEN"} THEN t3.error ELSE t3.opened)
        /\ t.shut = (IF t3.ioctl = "SHUTDOWN" THEN t3.error ELSE t3.shut)
    BY <1>9, <2>1, RestartClosed
  <2>3. Keeps(c, t, AnswerFields)
    BY <1>10, <2>2 DEF Keeps, AnswerFields, OpenFields, CutFields
  <2>4. /\ t.reading = t3.reading /\ t.rcount = t3.rcount /\ t.eof = t3.eof
        /\ t.writing = t3.writing /\ t.wcount = t3.wcount
    BY <2>2 DEF Keeps, OpenFields, ReplyIoctlFields, Names
  <2> QED
    BY <1>1, <1>10, <1>12, <1>14, <2>2, <2>3, <2>4
<1> QED
  BY <1>13, <1>14

(* What is left of a connection that ends: its counters stop where they are. *)
RestFields == {"error", "state", "rcvd", "LO", "adv", "sendq", "TRM", "NXT", "frag", "timer",
               "tseq", "finsent", "finrecv", "sendack", "push"} \cup AnswerFields

\* A block that tcp_close_connection() has been over.
Ended(c, t, err) ==
  /\ Keeps(c, t, RestFields)
  /\ t.state = "CLOSED" /\ t.error = err
  /\ t.rcvd = <<>> /\ t.adv = <<>> /\ t.sendq = <<>>
  /\ t.LO = c.RCV /\ t.TRM = c.UNA /\ t.NXT = c.UNA
  /\ t.frag = NoRST /\ t.tseq = 0
  /\ t.timer = FALSE /\ t.finsent = FALSE /\ t.finrecv = FALSE
  /\ t.sendack = FALSE /\ t.push = FALSE /\ t.more = FALSE

\* What was posted on it has been answered with err, and nothing else has.
Replied(c, t, err) ==
  /\ t.reading \in {c.reading, FALSE} /\ t.writing \in {c.writing, FALSE}
  /\ t.rcount \in {c.rcount, 0} /\ t.wcount \in {c.wcount, 0}
  /\ t.eof = c.eof \/ (c.fd /\ c.reading /\ t.eof = (c.eof \/ err = "OK"))
  /\ c.fd /\ c.reading => ~t.reading
  /\ t.ioctl \in {c.ioctl, "none"}
  /\ t.opened = c.opened \/ (c.inprog /\ c.ioctl \in {"CONN", "LISTEN"} /\ t.opened = err)
  /\ t.shut = c.shut \/ (c.fd /\ c.ioctl = "SHUTDOWN" /\ t.shut = err)
  /\ t.fd \in {c.fd, FALSE} /\ t.inprog \in {c.inprog, FALSE}
  /\ c.fd /\ c.inprog => t.ioctl = "none" /\ ~t.fd /\ ~t.inprog
  /\ ~c.inprog => t.inprog = c.inprog /\ t.fd = c.fd
  /\ ~c.fd => t.ioctl = c.ioctl /\ t.inprog = c.inprog /\ t.rcount = c.rcount

LEMMA CloseEnds ==
  ASSUME NEW c, Full(c), c.state # "CLOSED", NEW err, NEW t, t = tcp_close_connection(c, err)
  PROVE  Ended(c, t, err) /\ Replied(c, t, err)
<1> DEFINE d == [c EXCEPT !.error = err, !.state = "CLOSED"]
           a == AnswerAll(d)
<1>1. /\ Keeps(c, d, {"error", "state"}) /\ d.state = "CLOSED" /\ d.error = err
  BY DEF Full, Keeps, Names
<1>2. /\ d.fd = c.fd /\ d.inprog = c.inprog /\ d.ioctl = c.ioctl /\ d.opened = c.opened
      /\ d.shut = c.shut /\ d.reading = c.reading /\ d.writing = c.writing
      /\ d.rcount = c.rcount /\ d.wcount = c.wcount /\ d.eof = c.eof
  BY DEF Full, Names
<1>3. t = [a EXCEPT !.rcvd = <<>>, !.LO = c.RCV, !.adv = <<>>,
                    !.sendq = <<>>, !.TRM = c.UNA, !.NXT = c.UNA, !.frag = NoRST,
                    !.timer = FALSE, !.tseq = 0, !.finsent = FALSE,
                    !.finrecv = FALSE, !.sendack = FALSE, !.push = FALSE,
                    !.more = FALSE]
  BY DEF tcp_close_connection
<1> HIDE DEF d, a
<1>4. /\ Keeps(d, a, AnswerFields)
      /\ Replied(c, a, err)
  <2>1. CASE ~c.fd
    <3>1. a = d
      BY <1>2, <2>1 DEF AnswerAll, a
    <3>2. Keeps(d, a, AnswerFields)
      BY <1>1, <3>1, KeepsSelf DEF Keeps
    <3> QED
      BY <1>2, <2>1, <3>1, <3>2 DEF Replied
  <2>2. CASE c.fd
    <3>1. /\ Keeps(d, a, AnswerFields)
          /\ a.reading \in {d.reading, FALSE} /\ a.writing \in {d.writing, FALSE}
          /\ a.rcount \in {d.rcount, 0} /\ a.wcount \in {d.wcount, 0}
          /\ a.eof = d.eof \/ (d.reading /\ a.eof = (d.eof \/ d.error = "OK"))
          /\ d.reading => ~a.reading
          /\ a.ioctl \in {d.ioctl, "none"}
          /\ a.opened = d.opened \/ (d.inprog /\ d.ioctl \in {"CONN", "LISTEN"} /\ a.opened = d.error)
          /\ a.shut = d.shut \/ (d.ioctl = "SHUTDOWN" /\ a.shut = d.error)
          /\ a.fd = (IF d.inprog THEN FALSE ELSE d.fd)
          /\ a.inprog = (IF d.inprog THEN FALSE ELSE d.inprog)
          /\ d.inprog => a.ioctl = "none"
      <4>1. Full(d) /\ d.state = "CLOSED" /\ d.fd
        BY <1>1, <1>2, <2>2 DEF Keeps
      <4> QED
        BY <4>1, Answered4 DEF a
    <3> QED
      BY <1>1, <1>2, <2>2, <3>1 DEF Replied
  <2> QED
    BY <2>1, <2>2
<1>5. Full(a) /\ Keeps(c, a, {"error", "state"} \cup AnswerFields)
      /\ a.error = err /\ a.state = "CLOSED"
  <2>1. a.error = d.error /\ a.state = d.state
    BY <1>4 DEF Keeps, AnswerFields, CutFields, ReplyReadFields, ReplyWriteFields,
                ReplyIoctlFields, Names
  <2> QED
    BY <1>1, <1>4, <2>1 DEF Keeps
<1>6. /\ Keeps(a, t, {"rcvd", "LO", "adv", "sendq", "TRM", "NXT", "frag", "timer", "tseq",
                      "finsent", "finrecv", "sendack", "push", "more"})
      /\ t.rcvd = <<>> /\ t.adv = <<>> /\ t.sendq = <<>>
      /\ t.LO = c.RCV /\ t.TRM = c.UNA /\ t.NXT = c.UNA
      /\ t.frag = NoRST /\ t.tseq = 0
      /\ t.timer = FALSE /\ t.finsent = FALSE /\ t.finrecv = FALSE
      /\ t.sendack = FALSE /\ t.push = FALSE /\ t.more = FALSE
  <2>1. Keeps(a, t, {"rcvd", "LO", "adv", "sendq", "TRM", "NXT", "frag", "timer", "tseq",
                      "finsent", "finrecv", "sendack", "push", "more"})
    BY <1>3, <1>5 DEF Full, Keeps
  <2>2. /\ t.rcvd = <<>> /\ t.adv = <<>> /\ t.sendq = <<>>
        /\ t.LO = c.RCV /\ t.TRM = c.UNA /\ t.NXT = c.UNA
        /\ t.frag = NoRST /\ t.tseq = 0
        /\ t.timer = FALSE /\ t.finsent = FALSE /\ t.finrecv = FALSE
        /\ t.sendack = FALSE /\ t.push = FALSE /\ t.more = FALSE
    BY <1>3, <1>5 DEF Full, Names
  <2> QED
    BY <2>1, <2>2
<1>7. /\ t.reading = a.reading /\ t.writing = a.writing /\ t.rcount = a.rcount
      /\ t.wcount = a.wcount /\ t.eof = a.eof /\ t.ioctl = a.ioctl
      /\ t.opened = a.opened /\ t.shut = a.shut /\ t.fd = a.fd /\ t.inprog = a.inprog
      /\ t.error = err /\ t.state = "CLOSED"
  BY <1>5, <1>6 DEF Keeps, Names
<1>8. Keeps(c, t, RestFields)
  BY <1>5, <1>6 DEF Keeps, RestFields, AnswerFields, CutFields
<1> QED
  BY <1>4, <1>6, <1>7, <1>8 DEF Ended, Replied

-----------------------------------------------------------------------------
(* What holds of every block, however long the streams: a connection is opened
   once, by the ioctl in progress, and data that is unacknowledged has the timer
   running.  When nothing is, and the timer is stopped, tseq says so: the next
   write sees it and starts the timer. *)

\* The states in which there is no connection yet.
Handshake == {"LISTEN", "SYN_SENT", "SYN_RECEIVED"}

\* A block is opened once, by the ioctl that is in progress.
OpensOnce(c) ==
  /\ c.error # "no"
  /\ c.connected => c.opened # "no"
  /\ c.inprog => c.ioctl \in {"CONN", "LISTEN"}

\* The part of the invariant that says nothing of the streams, TimerCovers with it.
Steady(c) ==
  /\ Full(c) /\ c.state \in States /\ c.iss \in Num
  /\ OpensOnce(c)
  /\ c.connected => c.state \notin Handshake
  /\ ~c.connected => c.state \in Handshake \cup {"CLOSED"}
  /\ c.state \in Handshake => c.fd /\ c.inprog
  /\ c.state \notin {"CLOSED", "LISTEN"} => c.timer \/ (c.UNA = c.NXT /\ c.tseq = c.UNA)
  /\ c.state = "SYN_SENT" => c.timer /\ c.UNA # c.NXT

\* The fields Steady reads.
SteadyFields == {"iss", "state", "error", "connected", "opened", "inprog", "ioctl", "fd",
                 "timer", "UNA", "NXT", "tseq"}

LEMMA SteadyFrame ==
  ASSUME NEW c, NEW t, NEW S, Steady(c), Keeps(c, t, S), S \cap SteadyFields = {}
  PROVE  Steady(t)
<1>1. /\ t.iss = c.iss /\ t.state = c.state /\ t.error = c.error /\ t.connected = c.connected
      /\ t.opened = c.opened /\ t.inprog = c.inprog /\ t.ioctl = c.ioctl /\ t.fd = c.fd
      /\ t.timer = c.timer /\ t.UNA = c.UNA /\ t.NXT = c.NXT /\ t.tseq = c.tseq
  <2>1. SteadyFields \subseteq Names \ S
    BY DEF SteadyFields, Names
  <2>2. \A f \in SteadyFields : t[f] = c[f]
    BY <2>1 DEF Keeps
  <2> QED
    BY <2>2 DEF SteadyFields
<1> QED
  BY <1>1 DEF Steady, Keeps, OpensOnce

(* A descriptor's write or ioctl changes neither how it was opened nor a timer
   that runs. *)
LEMMA WriteKeepsOpen ==
  ASSUME NEW c, Full(c), NEW t, t = tcp_fd_write(c)
  PROVE  /\ t.opened = c.opened
         /\ t.ioctl = c.ioctl \/ c.ioctl = "SHUTDOWN"
         /\ t.timer = c.timer \/ t.timer = TRUE
<1>1. CASE c.ioctl # "none" /\ ~c.writing
  <2>1. t = FdIoctl(c)
    BY <1>1 DEF tcp_fd_write
  <2>2. \/ t = c
        \/ t = SendFin(c) /\ c.ioctl = "SHUTDOWN"
        \/ c.ioctl = "SHUTDOWN" /\ \E r : t = ReplyIoctl(c, r)
    <3>1. CASE c.ioctl # "SHUTDOWN"
      BY <2>1, <3>1 DEF FdIoctl
    <3>2. CASE c.ioctl = "SHUTDOWN" /\ c.state = "CLOSED"
      BY <2>1, <3>2 DEF FdIoctl
    <3>3. CASE c.ioctl = "SHUTDOWN" /\ c.state # "CLOSED" /\ ~c.finsent
      BY <2>1, <3>3 DEF FdIoctl
    <3>4. CASE c.ioctl = "SHUTDOWN" /\ c.state # "CLOSED" /\ c.finsent
      BY <2>1, <3>4 DEF FdIoctl
    <3> QED
      BY <3>1, <3>2, <3>3, <3>4
  <2>3. CASE t = SendFin(c) /\ c.ioctl = "SHUTDOWN"
    BY <2>3 DEF SendFin, tcp_conn_write, tcp_set_send_timer, Full, Names
  <2>4. CASE c.ioctl = "SHUTDOWN" /\ \E r : t = ReplyIoctl(c, r)
    BY <2>4 DEF ReplyIoctl, Full, Names
  <2> QED
    BY <2>2, <2>3, <2>4
<1>2. CASE ~(c.ioctl # "none" /\ ~c.writing)
  <2> DEFINE room == SND_WND - Diff(c.NXT, c.UNA)
  <2>1. \/ \E r : t = ReplyWrite(c, r)
        \/ \E n : t = CopyIn(c, n)
        \/ \E n : t = ReplyWrite(CopyIn(c, n), "ok")
    BY <1>2 DEF tcp_fd_write, FdCopyIn
  <2>2. Keeps(c, t, ReplyWriteFields \cup CopyInFields)
    <3>1. ASSUME NEW n PROVE Keeps(c, CopyIn(c, n), CopyInFields)
      BY FrameCopyIn
    <3>2. ASSUME NEW d, Full(d), NEW r PROVE Keeps(d, ReplyWrite(d, r), ReplyWriteFields)
      BY <3>2, FrameReplies
    <3>3. CASE \E n : t = ReplyWrite(CopyIn(c, n), "ok")
      <4>1. PICK n : t = ReplyWrite(CopyIn(c, n), "ok")
        BY <3>3
      <4> DEFINE u == CopyIn(c, n)
      <4>2. Keeps(c, u, CopyInFields)
        BY <3>1
      <4>3. t = ReplyWrite(u, "ok")
        BY <4>1
      <4> HIDE DEF u
      <4>4. Keeps(u, t, ReplyWriteFields)
        BY <3>2, <4>2, <4>3 DEF Keeps
      <4> QED
        BY <4>2, <4>4 DEF Keeps
    <3>4. CASE \E n : t = CopyIn(c, n)
      BY <3>1, <3>4 DEF Keeps
    <3>5. CASE \E r : t = ReplyWrite(c, r)
      BY <3>2, <3>5 DEF Keeps
    <3> QED
      BY <2>1, <3>3, <3>4, <3>5
  <2> QED
    BY <2>2 DEF Keeps, ReplyWriteFields, CopyInFields, Names
<1> QED
  BY <1>1, <1>2

LEMMA SteadyClose ==
  ASSUME NEW c, Full(c), c.iss \in Num, OpensOnce(c), c.state \in States,
         NEW err, err # "no", NEW t, t = tcp_close_connection(c, err)
  PROVE  Steady(t) /\ t.state = "CLOSED"
<1>1. CASE c.state = "CLOSED"
  <2>1. Keeps(c, t, {"error"}) /\ t.error = err
    BY <1>1 DEF tcp_close_connection, Full, Keeps, Names
  <2> QED
    BY <1>1, <2>1 DEF Steady, OpensOnce, Keeps, Names, Handshake
<1>2. CASE c.state # "CLOSED"
  <2>1. Ended(c, t, err) /\ Replied(c, t, err)
    BY <1>2, CloseEnds
  <2>2. t.connected = c.connected /\ t.iss = c.iss /\ Full(t)
    BY <2>1 DEF Ended, Keeps, RestFields, AnswerFields, CutFields, ReplyReadFields,
                ReplyWriteFields, ReplyIoctlFields, Names
  <2> QED
    BY <2>1, <2>2 DEF Steady, OpensOnce, Ended, Replied, Handshake, States
<1> QED
  BY <1>1, <1>2

LEMMA SteadyListen ==
  ASSUME NEW c, Full(c), c.iss \in Num, c.ioctl \in {"CONN", "LISTEN"}, ~c.connected
  PROVE  Steady(tcp_su4listen(c)) /\ Steady(tcp_su4connect(c))
<1>1. ASSUME NEW t, t = tcp_su4listen(c) PROVE Steady(t)
  <2>1. /\ Keeps(c, t, StartFields) /\ t.state = "LISTEN" /\ t.fd = TRUE /\ t.inprog = TRUE
        /\ t.error = "OK"
    BY <1>1 DEF tcp_su4listen, tcp_setup_conn, Full, Keeps, StartFields, SetupFields, Names
  <2>2. t.iss = c.iss /\ t.connected = c.connected /\ t.ioctl = c.ioctl
    BY <2>1 DEF Keeps, StartFields, SetupFields, Names
  <2> QED
    BY <2>1, <2>2 DEF Steady, OpensOnce, Keeps, Handshake, States
<1>2. ASSUME NEW t, t = tcp_su4connect(c) PROVE Steady(t)
  <2>1. /\ Keeps(c, t, StartFields) /\ t.state = "SYN_SENT" /\ t.fd = TRUE /\ t.inprog = TRUE
        /\ t.error = "OK" /\ t.timer = TRUE /\ t.UNA = c.iss /\ t.NXT = Add(c.iss, 1)
    BY <1>2 DEF tcp_su4connect, tcp_setup_conn, tcp_conn_write, tcp_set_send_timer, Full, Keeps,
       StartFields, SetupFields, Names
  <2>2. t.iss = c.iss /\ t.connected = c.connected /\ t.ioctl = c.ioctl
    BY <2>1 DEF Keeps, StartFields, SetupFields, Names
  <2>3. Add(c.iss, 1) # c.iss
    <3>1. SeqSpace > 1 /\ SeqSpace \in Nat
      BY Space
    <3>2. Add(c.iss, 1) = IF c.iss + 1 < 0 THEN c.iss + 1 + SeqSpace
                          ELSE IF c.iss + 1 < SeqSpace THEN c.iss + 1 ELSE c.iss + 1 - SeqSpace
      BY <3>1, AddIs
    <3> QED
      BY <3>1, <3>2 DEF Num
  <2> QED
    BY <2>1, <2>2, <2>3 DEF Steady, OpensOnce, Keeps, Handshake, States
<1> QED
  BY <1>1, <1>2

\* A block in the middle of a handler, its timer aside.
Half(c) == Full(c) /\ c.state \in States /\ c.iss \in Num /\ OpensOnce(c)

\* A step that leaves a running timer and the use of the descriptor alone.
Onward(c, t) ==
  /\ Half(t) /\ t.timer /\ t.state = c.state /\ t.connected = c.connected
  /\ t.fd = c.fd /\ t.inprog = c.inprog

LEMMA OnwardFrame ==
  ASSUME NEW c, NEW t, NEW S, Half(c), c.timer, Keeps(c, t, S),
         S \cap {"iss", "state", "error", "connected", "opened", "inprog", "ioctl", "fd",
                 "timer"} = {}
  PROVE  Onward(c, t)
<1> DEFINE F == {"iss", "state", "error", "connected", "opened", "inprog", "ioctl", "fd",
                 "timer"}
<1>1. F \subseteq Names \ S
  BY DEF Names
<1>2. \A f \in F : t[f] = c[f]
  BY <1>1 DEF Keeps
<1>3. /\ t.iss = c.iss /\ t.state = c.state /\ t.error = c.error /\ t.connected = c.connected
      /\ t.opened = c.opened /\ t.inprog = c.inprog /\ t.ioctl = c.ioctl /\ t.fd = c.fd
      /\ t.timer = c.timer
  BY <1>2
<1> QED
  BY <1>3 DEF Half, Onward, Keeps, OpensOnce

LEMMA OnwardTrans ==
  ASSUME NEW c, NEW t, NEW u, Onward(c, t), Onward(t, u)
  PROVE  Onward(c, u)
BY DEF Onward

LEMMA OnwardWrite ==
  ASSUME NEW c, Half(c), c.timer
  PROVE  Onward(c, tcp_fd_write(c))
<1> DEFINE t == tcp_fd_write(c)
<1>1. Keeps(c, t, WriteFields) /\ Full(t)
  BY FrameFdWrite DEF Half, Keeps
<1>2. /\ t.opened = c.opened
      /\ t.ioctl = c.ioctl \/ c.ioctl = "SHUTDOWN"
      /\ t.timer = c.timer \/ t.timer = TRUE
  BY WriteKeepsOpen DEF Half
<1> HIDE DEF t
<1>3. /\ t.iss = c.iss /\ t.state = c.state /\ t.error = c.error /\ t.connected = c.connected
      /\ t.inprog = c.inprog /\ t.fd = c.fd
  BY <1>1 DEF Keeps, WriteFields, FinFields, ReplyWriteFields, ReplyIoctlFields, CopyInFields,
              Names
<1>4. Onward(c, t)
  BY <1>1, <1>2, <1>3 DEF Half, Onward, OpensOnce
<1> QED
  BY <1>4 DEF t

LEMMA OnwardSteady ==
  ASSUME NEW c, NEW t, Onward(c, t), c.state \in {"ESTABLISHED", "CLOSING"}, c.connected
  PROVE  Steady(t)
BY DEF Onward, Half, Steady, Handshake

LEMMA SteadyOnward ==
  ASSUME NEW c, Steady(c)
  PROVE  Half(c) /\ (c.timer => Onward(c, c))
BY DEF Onward, Half, Steady

(* An acknowledgement of something new: the timer runs on, or the connection
   ends because no descriptor uses it. *)
\* What tcp_release_retrans() changes before it calls back.
RelFields == {"cthresh", "UNA", "TRM", "cwnd", "sendq"}

LEMMA FrameReleased ==
  ASSUME NEW c, Full(c), NEW ack, NEW wnd
  PROVE  Keeps(c, BackInWindow(Released(c, ack, wnd)), RelFields)
<1> DEFINE t == Released(c, ack, wnd)
<1>1. Keeps(c, t, RelFields)
  BY DEF Released, Full, Keeps, RelFields
<1> HIDE DEF t
<1>2. Keeps(t, BackInWindow(t), {"TRM"})
  BY <1>1 DEF BackInWindow, Full, Keeps
<1>3. Keeps(c, BackInWindow(t), RelFields)
  BY <1>1, <1>2 DEF Keeps, RelFields
<1> QED
  BY <1>3 DEF t

LEMMA OnwardRelease ==
  ASSUME NEW c, Half(c), c.timer, c.state \in {"ESTABLISHED", "CLOSING"}, NEW ack, NEW wnd,
         NEW t, t = tcp_release_retrans(c, ack, wnd)
  PROVE  \/ Onward(c, t)
         \/ ~c.fd /\ Steady(t) /\ t.state = "CLOSED"
<1> DEFINE b == BackInWindow(Released(c, ack, wnd))
           r == Refill(b)
<1>1. Onward(c, b)
  BY FrameReleased, OnwardFrame DEF RelFields, Half
<1> HIDE DEF b
<1>2. Onward(b, b) /\ Half(b) /\ b.timer
  BY <1>1 DEF Onward
<1>3. Onward(b, r)
  BY <1>2, OnwardWrite DEF Refill
<1>4. Onward(c, r)
  BY <1>1, <1>3, OnwardTrans
<1>5. t = EndOrSend(r)
  BY DEF tcp_release_retrans, b, r
<1> HIDE DEF r
<1>6. \/ t = r
      \/ t = tcp_conn_write(r)
      \/ ~r.fd /\ t = tcp_close_connection(r, "ENOTCONN")
  <2>1. CASE ~r.fd /\ r.UNA = r.NXT
    BY <1>5, <2>1 DEF EndOrSend
  <2>2. CASE ~(~r.fd /\ r.UNA = r.NXT) /\ r.cwnd # r.TRM /\ r.NXT # r.TRM
    BY <1>5, <2>2 DEF EndOrSend
  <2>3. CASE ~(~r.fd /\ r.UNA = r.NXT) /\ ~(r.cwnd # r.TRM /\ r.NXT # r.TRM)
    BY <1>5, <2>3 DEF EndOrSend
  <2> QED
    BY <2>1, <2>2, <2>3
<1>7. CASE t = tcp_conn_write(r)
  <2>1. Keeps(r, t, {"more"}) /\ Half(r) /\ r.timer
    BY <1>4, <1>7, FrameWrite DEF Onward, Half
  <2>2. Onward(r, t)
    BY <2>1, OnwardFrame
  <2> QED
    BY <1>4, <2>2, OnwardTrans
<1>8. CASE ~r.fd /\ t = tcp_close_connection(r, "ENOTCONN")
  <2>1. Full(r) /\ r.iss \in Num /\ OpensOnce(r) /\ r.state \in States
    BY <1>4 DEF Onward, Half
  <2>2. Steady(t) /\ t.state = "CLOSED"
    BY <1>8, <2>1, SteadyClose
  <2> QED
    BY <1>4, <1>8, <2>2 DEF Onward
<1> QED
  BY <1>4, <1>6, <1>7, <1>8

(* A window cannot hold an acknowledgement of something new when nothing is
   unacknowledged. *)
LEMMA NewAckTimer ==
  ASSUME NEW c, Steady(c), c.state \notin {"CLOSED", "LISTEN"}, NEW ack,
         Lmod4G(c.UNA, ack), LEmod4G(ack, c.NXT)
  PROVE  c.timer
<1>1. CASE c.UNA = c.NXT
  BY <1>1 DEF LEmod4G
<1> QED
  BY <1>1 DEF Steady

LEMMA SteadyProcessAck ==
  ASSUME NEW c, Steady(c), Connected(c), c.connected, NEW s, NEW t, t = ProcessAck(c, s)
  PROVE  Steady(t) /\ (t.state = "CLOSED" \/ (Connected(t) /\ t.connected))
<1> DEFINE alive == IF c.state = "CLOSING" THEN c ELSE [c EXCEPT !.stt = FALSE]
           wnd == IF s.wnd > 2 * MSS THEN 2 * MSS ELSE s.wnd
           opened == tcp_conn_write([alive EXCEPT !.cwnd = Add(c.UNA, wnd)])
           shut == [alive EXCEPT !.cwnd = c.UNA, !.TRM = c.UNA]
<1>1. \/ t \in {alive, opened, shut}
      \/ /\ Lmod4G(c.UNA, s.ack) /\ LEmod4G(s.ack, c.NXT)
         /\ t = tcp_release_retrans(alive, s.ack, s.wnd)
  BY DEF ProcessAck
<1>2. Keeps(c, alive, {"stt"})
  BY DEF Steady, Full, Keeps
<1> HIDE DEF alive
<1>3. Keeps(alive, opened, {"cwnd", "more"}) /\ Keeps(alive, shut, {"cwnd", "TRM"})
  BY <1>2 DEF tcp_conn_write, Keeps, Full
<1> HIDE DEF opened, shut
<1>4. /\ Keeps(c, alive, {"stt", "cwnd", "more", "TRM"})
      /\ Keeps(c, opened, {"stt", "cwnd", "more", "TRM"})
      /\ Keeps(c, shut, {"stt", "cwnd", "more", "TRM"})
  BY <1>2, <1>3 DEF Keeps
<1>5. CASE t \in {alive, opened, shut}
  <2>1. Keeps(c, t, {"stt", "cwnd", "more", "TRM"})
    BY <1>4, <1>5
  <2>2. Steady(t)
    BY <2>1, SteadyFrame DEF SteadyFields
  <2>3. t.state = c.state /\ t.connected = c.connected
    BY <2>1 DEF Keeps, Names
  <2> QED
    BY <2>2, <2>3 DEF Connected
<1>6. CASE /\ Lmod4G(c.UNA, s.ack) /\ LEmod4G(s.ack, c.NXT)
           /\ t = tcp_release_retrans(alive, s.ack, s.wnd)
  <2>1. c.timer
    BY <1>6, NewAckTimer DEF Connected
  <2>2. Onward(c, alive)
    BY <1>2, <2>1, OnwardFrame, SteadyOnward
  <2>3. Half(alive) /\ alive.timer /\ alive.state \in {"ESTABLISHED", "CLOSING"}
    BY <2>2 DEF Onward, Connected
  <2>4. Onward(alive, t) \/ (Steady(t) /\ t.state = "CLOSED")
    BY <1>6, <2>3, OnwardRelease
  <2>5. Onward(alive, t) => Onward(c, t)
    BY <2>2, OnwardTrans
  <2>6. Onward(c, t) => Steady(t) /\ t.state = c.state /\ t.connected = c.connected
    BY OnwardSteady DEF Connected, Onward
  <2> QED
    BY <2>4, <2>5, <2>6 DEF Connected
<1> QED
  BY <1>1, <1>5, <1>6

\* What a segment with data or a FIN changes.
TextFields == ReadFields \cup {"RCV", "finrecv", "adv", "advseq"}

LEMMA FrameProcessData ==
  ASSUME NEW c, Full(c), NEW s
  PROVE  Keeps(c, process_data(c, s), TextFields)
<1> DEFINE a == Append_data(c, s)
           r == ReadIfPosted(a)
           fin == Has(s, "FIN") /\ LEmod4G(Add(s.seq, Len(s.data)), c.HI)
           u == UseAdvanced(r, fin)
<1>1. Keeps(c, a, TextFields)
  BY DEF Append_data, Full, Keeps, TextFields, ReadFields
<1> HIDE DEF a
<1>2. Keeps(a, r, TextFields)
  BY <1>1, FrameReadIfPosted DEF Keeps, TextFields
<1> HIDE DEF r, fin
<1>3. Keeps(r, u, TextFields)
  <2> DEFINE skip == Diff(r.RCV, r.advseq)
             taken == [r EXCEPT !.adv = <<>>]
             more == [taken EXCEPT !.rcvd = @ \o SubSeq(r.adv, skip + 1, Len(r.adv)),
                                   !.RCV = Add(@, Len(r.adv) - skip)]
  <2>1. u \in {r, taken, ReadIfPosted(more)}
    BY DEF UseAdvanced
  <2>2. Keeps(r, taken, TextFields) /\ Keeps(r, more, TextFields) /\ Keeps(r, r, TextFields)
    BY <1>2 DEF Full, Keeps, TextFields, ReadFields
  <2> HIDE DEF taken, more, u
  <2>3. Keeps(more, ReadIfPosted(more), TextFields)
    BY <2>2, FrameReadIfPosted DEF Keeps, TextFields
  <2>4. Keeps(r, ReadIfPosted(more), TextFields)
    BY <2>2, <2>3, KeepsBoth
  <2> QED
    BY <2>1, <2>2, <2>4
<1>4. Keeps(c, u, TextFields)
  BY <1>1, <1>2, <1>3, KeepsBoth
<1> QED
  BY <1>4 DEF process_data, a, r, fin

LEMMA FrameProcessAdvanced ==
  ASSUME NEW c, Full(c), NEW s
  PROVE  Keeps(c, process_advanced_data(c, s), TextFields)
<1> DEFINE b == AckBack(c)
           pushed == [b EXCEPT !.push = @ \/ Has(s, "PSH")]
<1>1. Keeps(c, b, TextFields)
  BY FrameAckBack DEF Keeps, TextFields, ReadFields
<1> HIDE DEF b
<1>2. Keeps(b, pushed, TextFields)
  BY <1>1 DEF Full, Keeps, TextFields, ReadFields
<1>3. Keeps(c, pushed, TextFields)
  BY <1>1, <1>2, KeepsBoth
<1> DEFINE t == process_advanced_data(c, s)
<1>4. \/ t = pushed
      \/ \E x, y : t = [pushed EXCEPT !.adv = x, !.advseq = y]
      \/ \E x : t = [pushed EXCEPT !.adv = x]
  BY DEF process_advanced_data, b, pushed
<1> HIDE DEF pushed, t
<1>5. Keeps(pushed, t, TextFields)
  BY <1>3, <1>4 DEF Full, Keeps, TextFields
<1>6. Keeps(c, t, TextFields)
  BY <1>3, <1>5, KeepsBoth
<1> QED
  BY <1>6 DEF t

LEMMA FrameText ==
  ASSUME NEW c, Full(c), NEW s
  PROVE  /\ Keeps(c, ProcessText(c, s), TextFields)
         /\ Keeps(c, Unacceptable(c, s), TextFields)
<1>1. ASSUME NEW d, Full(d) PROVE Keeps(d, AckBack(d), TextFields)
  BY <1>1, FrameAckBack DEF Keeps, TextFields, ReadFields
<1>2. ASSUME NEW d, Full(d) PROVE Keeps(d, ReadIfPosted(d), TextFields)
  BY <1>2, FrameReadIfPosted DEF Keeps, TextFields
<1>3. Keeps(c, c, TextFields)
  BY KeepsSelf
<1>4. Keeps(c, ProcessText(c, s), TextFields)
  <2> DEFINE new == ~c.finrecv /\ Lmod4G(c.RCV, c.HI)
             d1 == process_data(c, s)
             d2 == process_advanced_data(c, s)
             d3 == [c EXCEPT !.RCV = IF new THEN Add(@, 1) ELSE @, !.finrecv = @ \/ new]
             d4 == AckBack(d3)
  <2>1. ProcessText(c, s) \in {c, AckBack(d1), AckBack(d2), ReadIfPosted(d4)}
    BY DEF ProcessText
  <2>2. /\ Keeps(c, d1, TextFields) /\ Keeps(c, d2, TextFields)
        /\ Keeps(c, d3, TextFields)
    BY FrameProcessData, FrameProcessAdvanced DEF Full, Keeps, TextFields
  <2> HIDE DEF d1, d2, d3
  <2>3. Keeps(d1, AckBack(d1), TextFields) /\ Keeps(d2, AckBack(d2), TextFields)
        /\ Keeps(d3, d4, TextFields)
    BY <1>1, <2>2 DEF Keeps
  <2>4. Keeps(c, d4, TextFields)
    BY <2>2, <2>3, KeepsBoth
  <2> HIDE DEF d4
  <2>5. Keeps(d4, ReadIfPosted(d4), TextFields)
    BY <1>2, <2>4 DEF Keeps
  <2>6. /\ Keeps(c, AckBack(d1), TextFields) /\ Keeps(c, AckBack(d2), TextFields)
        /\ Keeps(c, ReadIfPosted(d4), TextFields)
    BY <2>2, <2>3, <2>4, <2>5, KeepsBoth
  <2> QED
    BY <1>3, <2>1, <2>6
<1>5. Keeps(c, Unacceptable(c, s), TextFields)
  <2> DEFINE d1 == AckBack(c)
             d2 == [d1 EXCEPT !.push = TRUE]
  <2>1. Unacceptable(c, s) \in {c, d1, ReadIfPosted(d2)}
    BY DEF Unacceptable
  <2>2. Keeps(c, d1, TextFields)
    BY <1>1
  <2> HIDE DEF d1
  <2>3. Keeps(d1, d2, TextFields)
    BY <2>2 DEF Full, Keeps, TextFields, ReadFields
  <2>4. Keeps(c, d2, TextFields)
    BY <2>2, <2>3, KeepsBoth
  <2> HIDE DEF d2
  <2>5. Keeps(d2, ReadIfPosted(d2), TextFields)
    BY <1>2, <2>4 DEF Keeps
  <2>6. Keeps(c, ReadIfPosted(d2), TextFields)
    BY <2>4, <2>5, KeepsBoth
  <2> QED
    BY <1>3, <2>1, <2>2, <2>6
<1> QED
  BY <1>4, <1>5

LEMMA SteadyRest ==
  ASSUME NEW c, Steady(c), NEW s
  PROVE  Steady(ProcessRest(c, s))
<1> DEFINE t == ProcessRest(c, s)
<1>1. t \in {c, AckBack(c), ProcessText(c, s)}
  <2>1. CASE c.state = "CLOSED"
    BY <2>1 DEF ProcessRest
  <2>2. CASE c.state # "CLOSED" /\ Gmod4G(s.ack, c.NXT)
    BY <2>2 DEF ProcessRest
  <2>3. CASE c.state # "CLOSED" /\ LEmod4G(s.ack, c.NXT)
    BY <2>3 DEF ProcessRest, LEmod4G, Gmod4G
  <2> QED
    BY <2>1, <2>2, <2>3 DEF LEmod4G, Gmod4G
<1>2. Keeps(c, AckBack(c), {"more", "sendack"}) /\ Keeps(c, ProcessText(c, s), TextFields)
  BY FrameAckBack, FrameText DEF Steady
<1>3. Steady(AckBack(c))
  BY <1>2, SteadyFrame DEF SteadyFields
<1>4. Steady(ProcessText(c, s))
  <2>1. TextFields \cap SteadyFields = {}
    BY DEF TextFields, ReadFields, ReplyReadFields, SteadyFields
  <2> QED
    BY <1>2, <2>1, SteadyFrame
<1> QED
  BY <1>1, <1>3, <1>4

LEMMA SteadyEstablished ==
  ASSUME NEW c, Steady(c), Connected(c), NEW s
  PROVE  Steady(InEstablished(c, s))
<1> DEFINE t == InEstablished(c, s)
           a == ProcessAck(c, s)
<1>1. /\ Half(c) /\ c.connected
  BY SteadyOnward DEF Steady, Connected, Handshake
<1>2. t \in {c, Unacceptable(c, s), ProcessRest(a, s), tcp_close_connection(c, "OK"),
             tcp_close_connection(c, "ECONNRESET")}
  BY DEF InEstablished
<1>3. Steady(a)
  BY <1>1, SteadyProcessAck
<1> HIDE DEF a, t
<1>4. Steady(ProcessRest(a, s))
  BY <1>3, SteadyRest
<1>5. Steady(Unacceptable(c, s))
  <2>1. TextFields \cap SteadyFields = {}
    BY DEF TextFields, ReadFields, ReplyReadFields, SteadyFields
  <2>2. Keeps(c, Unacceptable(c, s), TextFields)
    BY <1>1, FrameText DEF Half
  <2> QED
    BY <2>1, <2>2, SteadyFrame
<1>6. Steady(tcp_close_connection(c, "OK")) /\ Steady(tcp_close_connection(c, "ECONNRESET"))
  BY <1>1, SteadyClose DEF Half
<1>7. Steady(t)
  BY <1>2, <1>4, <1>5, <1>6
<1> QED
  BY <1>7 DEF t

LEMMA FrameRST ==
  ASSUME NEW c, Full(c), NEW s
  PROVE  Keeps(c, tcp_conn_write(create_RST(c, s)), {"frag", "more"})
<1> DEFINE d == create_RST(c, s)
<1>1. \/ d = c
      \/ \E r : d = tcp_conn_write([c EXCEPT !.frag = r])
  BY DEF create_RST
<1> HIDE DEF d
<1>2. Keeps(c, d, {"frag", "more"})
  BY <1>1 DEF tcp_conn_write, Full, Keeps
<1>3. Keeps(d, tcp_conn_write(d), {"frag", "more"})
  BY <1>2, FrameWrite DEF Keeps
<1>4. Keeps(c, tcp_conn_write(d), {"frag", "more"})
  BY <1>2, <1>3, KeepsBoth
<1> QED
  BY <1>4 DEF d

LEMMA SteadyRST ==
  ASSUME NEW c, Steady(c), NEW s
  PROVE  Steady(tcp_conn_write(create_RST(c, s)))
<1>1. Keeps(c, tcp_conn_write(create_RST(c, s)), {"frag", "more"})
  BY FrameRST DEF Steady
<1> QED
  BY <1>1, SteadyFrame DEF SteadyFields

LEMMA SteadyRefuse ==
  ASSUME NEW c, Steady(c), c.state = "SYN_RECEIVED", NEW err, err # "no"
  PROVE  Steady(Refuse(c, err))
<1>1. Half(c) /\ ~c.connected /\ c.inprog /\ c.ioctl \in {"CONN", "LISTEN"}
  BY SteadyOnward DEF Steady, Handshake, OpensOnce
<1>2. CASE c.orglisten
  <2> DEFINE d == [c EXCEPT !.inprog = FALSE, !.fd = FALSE]
             t == tcp_close_connection(d, err)
  <2>1. Keeps(c, d, {"inprog", "fd"}) /\ d.inprog = FALSE /\ d.fd = FALSE
    BY <1>1 DEF Half, Full, Keeps, Names
  <2>2. Refuse(c, err) = tcp_su4listen(t)
    BY <1>2 DEF Refuse
  <2> HIDE DEF d
  <2>3. /\ Full(d) /\ d.iss = c.iss /\ d.ioctl = c.ioctl /\ d.connected = c.connected
        /\ d.state = "SYN_RECEIVED"
    BY <2>1 DEF Keeps, Names
  <2>4. Ended(d, t, err) /\ Replied(d, t, err)
    BY <2>3, CloseEnds
  <2> HIDE DEF t
  <2>5. t.ioctl = d.ioctl
    BY <2>1, <2>4 DEF Replied
  <2>6. Full(t) /\ t.iss = d.iss /\ t.connected = d.connected
    BY <2>4 DEF Ended, Keeps, RestFields, AnswerFields, CutFields, ReplyReadFields,
                ReplyWriteFields, ReplyIoctlFields, Names
  <2>7. Steady(tcp_su4listen(t))
    BY <1>1, <2>3, <2>5, <2>6, SteadyListen DEF Half
  <2> QED
    BY <2>2, <2>7
<1>3. CASE ~c.orglisten
  BY <1>1, <1>3, SteadyClose DEF Refuse, Half
<1> QED
  BY <1>2, <1>3

(* A handshake that is done: the connect or listen in progress is answered. *)
LEMMA SteadyConnect ==
  ASSUME NEW c, Half(c), c.state = "ESTABLISHED", c.timer, c.inprog
  PROVE  Steady(tcp_restart_connect(c)) /\ Connected(tcp_restart_connect(c))
<1> DEFINE t == tcp_restart_connect(c)
<1>1. /\ Keeps(c, t, OpenFields) /\ t.connected = TRUE /\ t.inprog = FALSE /\ t.opened = "OK"
  BY DEF tcp_restart_connect, ReplyIoctl, Half, OpensOnce, Full, Keeps, OpenFields,
         ReplyIoctlFields, Names
<1> HIDE DEF t
<1>2. t.state = c.state /\ t.iss = c.iss /\ t.error = c.error /\ t.timer = c.timer
  BY <1>1 DEF Keeps, OpenFields, ReplyIoctlFields, Names
<1>3. Steady(t) /\ Connected(t)
  BY <1>1, <1>2 DEF Steady, Half, OpensOnce, Keeps, Handshake, Connected
<1> QED
  BY <1>3 DEF t

LEMMA SteadySynReceived ==
  ASSUME NEW c, Steady(c), c.state = "SYN_RECEIVED", NEW s
  PROVE  Steady(InSynReceived(c, s))
<1>1. Half(c) /\ ~c.connected /\ c.inprog /\ c.fd
  BY SteadyOnward DEF Steady, Handshake
<1> DEFINE e == [c EXCEPT !.state = "ESTABLISHED"]
           r == tcp_release_retrans(e, s.ack, s.wnd)
           u == tcp_restart_connect(r)
<1>2. \/ InSynReceived(c, s) \in {c, AckBack(c), Refuse(c, "ECONNREFUSED"),
                                  Refuse(c, "ECONNRESET"), tcp_conn_write(create_RST(c, s))}
      \/ /\ Lmod4G(c.UNA, s.ack) /\ LEmod4G(s.ack, c.NXT)
         /\ InSynReceived(c, s) = InEstablished(u, s)
  BY DEF InSynReceived
<1>3. Steady(AckBack(c))
  <2>1. Keeps(c, AckBack(c), {"more", "sendack"})
    BY <1>1, FrameAckBack DEF Half
  <2> QED
    BY <2>1, SteadyFrame DEF SteadyFields
<1>4. Steady(Refuse(c, "ECONNREFUSED")) /\ Steady(Refuse(c, "ECONNRESET"))
  BY SteadyRefuse
<1>5. Steady(tcp_conn_write(create_RST(c, s)))
  BY SteadyRST
<1>6. ASSUME Lmod4G(c.UNA, s.ack), LEmod4G(s.ack, c.NXT)
      PROVE  Steady(InEstablished(u, s))
  <2>1. c.timer
    BY <1>6, NewAckTimer
  <2>2. Keeps(c, e, {"state"}) /\ e.state = "ESTABLISHED"
    BY <1>1 DEF Half, Full, Keeps, Names
  <2>3. /\ e.iss = c.iss /\ e.error = c.error /\ e.connected = c.connected /\ e.fd = c.fd
        /\ e.inprog = c.inprog /\ e.ioctl = c.ioctl /\ e.timer = c.timer /\ e.opened = c.opened
    BY <2>2 DEF Keeps, Names
  <2> HIDE DEF e
  <2>4. Half(e) /\ e.timer
    BY <1>1, <2>1, <2>2, <2>3 DEF Half, OpensOnce, Keeps, States
  <2>5. Onward(e, r)
    BY <1>1, <2>2, <2>3, <2>4, OnwardRelease
  <2> HIDE DEF r
  <2>6. Half(r) /\ r.timer /\ r.state = "ESTABLISHED" /\ r.inprog
    BY <1>1, <2>2, <2>3, <2>5 DEF Onward
  <2>7. Steady(u) /\ Connected(u)
    BY <2>6, SteadyConnect
  <2> HIDE DEF u
  <2> QED
    BY <2>7, SteadyEstablished
<1> QED
  BY <1>2, <1>3, <1>4, <1>5, <1>6

LEMMA SteadySynSent ==
  ASSUME NEW c, Steady(c), c.state = "SYN_SENT", NEW s
  PROVE  Steady(InSynSent(c, s))
<1>1. Half(c) /\ ~c.connected /\ c.inprog /\ c.fd /\ c.timer
  BY SteadyOnward DEF Steady, Handshake
<1> DEFINE synced == [c EXCEPT !.LO = Add(s.seq, 1), !.RCV = Add(s.seq, 1),
                               !.HI = Add(s.seq, 1 + RCV_WND),
                               !.UNA = IF Has(s, "ACK") THEN s.ack ELSE @]
           e == [synced EXCEPT !.state = "ESTABLISHED"]
           v == tcp_restart_connect(e)
           up == AckBack(v)
           d == [synced EXCEPT !.state = "SYN_RECEIVED", !.TRM = c.iss]
<1>2. InSynSent(c, s) \in {c, tcp_conn_write(create_RST(c, s)),
                           tcp_close_connection(c, "ECONNREFUSED"), InEstablished(up, s), up,
                           tcp_conn_write(d)}
  BY DEF InSynSent
<1>3. Keeps(c, synced, {"LO", "RCV", "HI", "UNA"})
  BY <1>1 DEF Half, Full, Keeps
<1> HIDE DEF synced
<1>4. /\ Keeps(synced, e, {"state"}) /\ e.state = "ESTABLISHED"
      /\ Keeps(synced, d, {"state", "TRM"}) /\ d.state = "SYN_RECEIVED"
  BY <1>3 DEF Full, Keeps, Names
<1> HIDE DEF e, d
<1>5. Keeps(c, e, {"LO", "RCV", "HI", "UNA", "state"})
      /\ Keeps(c, d, {"LO", "RCV", "HI", "UNA", "state", "TRM"})
  BY <1>3, <1>4 DEF Keeps
<1>6. /\ Half(e) /\ e.timer /\ e.inprog
  <2>1. /\ e.iss = c.iss /\ e.error = c.error /\ e.connected = c.connected /\ e.fd = c.fd
        /\ e.inprog = c.inprog /\ e.ioctl = c.ioctl /\ e.timer = c.timer /\ e.opened = c.opened
    BY <1>5 DEF Keeps, Names
  <2> QED
    BY <1>1, <1>4, <1>5, <2>1 DEF Half, OpensOnce, Keeps, States
<1>7. Steady(v) /\ Connected(v)
  BY <1>4, <1>6, SteadyConnect
<1> HIDE DEF v
<1>8. Steady(up) /\ Connected(up)
  <2>1. Keeps(v, up, {"more", "sendack"})
    BY <1>7, FrameAckBack DEF Steady
  <2>2. up.state = v.state
    BY <2>1 DEF Keeps, Names
  <2> QED
    BY <1>7, <2>1, <2>2, SteadyFrame DEF SteadyFields, Connected
<1> HIDE DEF up
<1>9. Steady(InEstablished(up, s))
  BY <1>8, SteadyEstablished
<1>10. Steady(tcp_conn_write(d))
  <2>1. Keeps(d, tcp_conn_write(d), {"more"})
    BY <1>5, FrameWrite DEF Keeps
  <2>2. Steady(d)
    <3>1. /\ d.iss = c.iss /\ d.error = c.error /\ d.connected = c.connected /\ d.fd = c.fd
          /\ d.inprog = c.inprog /\ d.ioctl = c.ioctl /\ d.timer = c.timer /\ d.opened = c.opened
      BY <1>5 DEF Keeps, Names
    <3> QED
      BY <1>1, <1>4, <1>5, <3>1 DEF Steady, Half, OpensOnce, Keeps, States, Handshake
  <2> QED
    BY <2>1, <2>2, SteadyFrame DEF SteadyFields
<1>11. Steady(tcp_conn_write(create_RST(c, s)))
  BY SteadyRST
<1>12. Steady(tcp_close_connection(c, "ECONNREFUSED"))
  BY <1>1, SteadyClose DEF Half
<1> QED
  BY <1>2, <1>8, <1>9, <1>10, <1>11, <1>12

LEMMA SteadyListened ==
  ASSUME NEW c, Steady(c), c.state = "LISTEN", NEW s
  PROVE  Steady(InListen(c, s))
<1> DEFINE e == [c EXCEPT !.LO = Add(s.seq, 1), !.RCV = Add(s.seq, 1),
                          !.HI = Add(s.seq, 1 + RCV_WND), !.UNA = c.iss,
                          !.TRM = c.iss, !.NXT = Add(c.iss, 1),
                          !.PSH = Add(c.iss, -1), !.state = "SYN_RECEIVED"]
           w == tcp_conn_write(e)
           t == tcp_set_send_timer(w)
           S == {"LO", "RCV", "HI", "UNA", "TRM", "NXT", "PSH", "state", "more", "timer", "stt"}
<1>1. InListen(c, s) \in {c, tcp_conn_write(create_RST(c, s)), t}
  <2>1. CASE Has(s, "RST")
    BY <2>1 DEF InListen
  <2>2. CASE ~Has(s, "RST") /\ Has(s, "ACK")
    BY <2>2 DEF InListen
  <2>3. CASE ~Has(s, "RST") /\ ~Has(s, "ACK")
    BY <2>3 DEF InListen
  <2> QED
    BY <2>1, <2>2, <2>3
<1>2. Keeps(c, e, S) /\ e.state = "SYN_RECEIVED"
  BY DEF Steady, Full, Keeps, Names
<1> HIDE DEF e
<1>3. Keeps(e, w, {"more"})
  BY <1>2, FrameWrite DEF Keeps
<1> HIDE DEF w
<1>4. Keeps(w, t, {"timer", "stt"}) /\ t.timer
  BY <1>3, FrameTimer DEF Keeps
<1> HIDE DEF t
<1>5. Keeps(c, t, S)
  BY <1>2, <1>3, <1>4 DEF Keeps
<1>6. t.state = "SYN_RECEIVED"
  BY <1>2, <1>3, <1>4 DEF Keeps, Names
<1>7. Steady(t)
  <2>1. /\ t.iss = c.iss /\ t.error = c.error /\ t.connected = c.connected /\ t.fd = c.fd
        /\ t.inprog = c.inprog /\ t.ioctl = c.ioctl /\ t.opened = c.opened
    BY <1>5 DEF Keeps, Names
  <2> QED
    BY <1>4, <1>5, <1>6, <2>1 DEF Steady, OpensOnce, Keeps, States, Handshake
<1> QED
  BY <1>1, <1>7, SteadyRST

LEMMA SteadySegment ==
  ASSUME NEW c, Steady(c), NEW s
  PROVE  Steady(tcp_frag2conn(c, s))
<1>1. c.state \in States
  BY DEF Steady
<1>2. CASE NoConn(c, s)
  <2>1. tcp_frag2conn(c, s) = InClosed(c, s)
    BY <1>2 DEF tcp_frag2conn, NoConn
  <2> QED
    BY <2>1, SteadyRST DEF InClosed
<1>3. CASE ~NoConn(c, s) /\ c.state = "LISTEN"
  <2>1. tcp_frag2conn(c, s) = InListen(c, s)
    BY <1>3 DEF tcp_frag2conn, NoConn
  <2> QED
    BY <1>3, <2>1, SteadyListened
<1>4. CASE ~NoConn(c, s) /\ c.state = "SYN_SENT"
  <2>1. tcp_frag2conn(c, s) = InSynSent(c, s)
    BY <1>4 DEF tcp_frag2conn
  <2> QED
    BY <1>4, <2>1, SteadySynSent
<1>5. CASE ~NoConn(c, s) /\ c.state = "SYN_RECEIVED"
  <2>1. tcp_frag2conn(c, s) = InSynReceived(c, s)
    BY <1>5 DEF tcp_frag2conn
  <2> QED
    BY <1>5, <2>1, SteadySynReceived
<1>6. CASE ~NoConn(c, s) /\ Connected(c)
  <2>1. tcp_frag2conn(c, s) = InEstablished(c, s)
    BY <1>6 DEF tcp_frag2conn, Connected
  <2> QED
    BY <1>6, <2>1, SteadyEstablished
<1> QED
  BY <1>1, <1>2, <1>3, <1>4, <1>5, <1>6 DEF States, NoConn, Connected

LEMMA SteadyPort ==
  ASSUME NEW c, Steady(c)
  PROVE  Steady(tcp_port_write(c).c)
<1>1. Keeps(c, tcp_port_write(c).c, PortFields)
  BY FramePort DEF Steady
<1>2. PortFields \cap SteadyFields = {}
  BY DEF PortFields, PackFields, SteadyFields
<1> QED
  BY <1>1, <1>2, SteadyFrame

(* The handlers of the descriptor and of the timer. *)
LEMMA SteadySendFin ==
  ASSUME NEW c, Steady(c), c.state \notin Handshake
  PROVE  Steady(SendFin(c)) /\ SendFin(c).state = c.state /\ SendFin(c).connected = c.connected
<1> DEFINE t == SendFin(c)
<1>1. t = c \/ (Keeps(c, t, FinFields) /\ t.timer = TRUE)
  BY DEF SendFin, tcp_conn_write, tcp_set_send_timer, Steady, Full, Keeps, FinFields, Names
<1> HIDE DEF t
<1>2. CASE Keeps(c, t, FinFields) /\ t.timer = TRUE
  <2>1. /\ t.iss = c.iss /\ t.error = c.error /\ t.connected = c.connected /\ t.fd = c.fd
        /\ t.inprog = c.inprog /\ t.ioctl = c.ioctl /\ t.opened = c.opened /\ t.state = c.state
    BY <1>2 DEF Keeps, FinFields, Names
  <2>2. Steady(t)
    BY <1>2, <2>1 DEF Steady, OpensOnce, Keeps, Handshake
  <2> QED
    BY <2>1, <2>2 DEF t
<1> QED
  BY <1>1, <1>2 DEF t

LEMMA SteadyDoWrite ==
  ASSUME NEW c, Steady(c), c.connected, NEW n
  PROVE  Steady(tcp_write(c, n))
<1> DEFINE posted == [c EXCEPT !.writing = TRUE, !.woffset = 0, !.wcount = n]
           quiet == c.UNA = c.NXT /\ c.tseq = c.UNA
           timed == IF quiet THEN tcp_set_send_timer(posted) ELSE posted
           w == tcp_fd_write(timed)
<1>1. \/ tcp_write(c, n) = ReplyWrite(c, "error")
      \/ c.state # "CLOSED" /\ tcp_write(c, n) = tcp_conn_write(w)
  BY DEF tcp_write
<1>2. Steady(ReplyWrite(c, "error"))
  <2>1. Keeps(c, ReplyWrite(c, "error"), ReplyWriteFields)
    BY FrameReplies DEF Steady
  <2> QED
    BY <2>1, SteadyFrame DEF ReplyWriteFields, SteadyFields
<1>3. ASSUME c.state # "CLOSED" PROVE Steady(tcp_conn_write(w))
  <2>1. Keeps(c, posted, {"writing", "woffset", "wcount"})
    BY DEF Steady, Full, Keeps
  <2>2. Steady(posted)
    BY <2>1, SteadyFrame DEF SteadyFields
  <2> HIDE DEF posted
  <2>3. /\ Keeps(posted, tcp_set_send_timer(posted), {"timer", "stt"})
        /\ tcp_set_send_timer(posted).timer
    BY <2>2, FrameTimer DEF Steady
  <2>4. Half(timed) /\ timed.timer /\ timed.state = c.state /\ timed.connected
    <3>1. posted.state = c.state /\ posted.timer = c.timer /\ posted.connected = c.connected
      BY <2>1 DEF Keeps, Names
    <3>2. CASE quiet
      <4>1. timed = tcp_set_send_timer(posted)
        BY <3>2
      <4> HIDE DEF timed
      <4>2. /\ timed.iss = posted.iss /\ timed.error = posted.error
            /\ timed.connected = posted.connected /\ timed.inprog = posted.inprog
            /\ timed.ioctl = posted.ioctl /\ timed.opened = posted.opened
            /\ timed.state = posted.state /\ Full(timed)
        BY <2>3, <4>1 DEF Keeps, Names
      <4> QED
        BY <2>2, <2>3, <3>1, <4>1, <4>2 DEF Steady, Half, OpensOnce
    <3>3. CASE ~quiet
      BY <1>3, <2>2, <3>1, <3>3, SteadyOnward DEF Steady, Handshake
    <3> QED
      BY <3>2, <3>3
  <2> HIDE DEF timed
  <2>5. Onward(timed, w)
    BY <2>4, OnwardWrite
  <2> HIDE DEF w
  <2>6. Keeps(w, tcp_conn_write(w), {"more"}) /\ Half(w) /\ w.timer
    BY <2>5, FrameWrite DEF Onward, Half
  <2>7. Onward(w, tcp_conn_write(w))
    BY <2>6, OnwardFrame
  <2>8. Onward(timed, tcp_conn_write(w))
    BY <2>5, <2>7, OnwardTrans
  <2>9. timed.state \in {"ESTABLISHED", "CLOSING"}
    BY <1>3, <2>4 DEF Steady, States, Handshake
  <2> QED
    BY <2>4, <2>8, <2>9, OnwardSteady
<1> QED
  BY <1>1, <1>2, <1>3

LEMMA SteadyDoShutdown ==
  ASSUME NEW c, Steady(c), c.connected, ~c.writing, c.ioctl = "none"
  PROVE  Steady(tcp_conn_write(tcp_fd_write([c EXCEPT !.ioctl = "SHUTDOWN"])))
<1> DEFINE d == [c EXCEPT !.ioctl = "SHUTDOWN"]
           w == tcp_fd_write(d)
<1>1. Keeps(c, d, {"ioctl"}) /\ d.ioctl = "SHUTDOWN"
  BY DEF Steady, Full, Keeps, Names
<1>2. ~c.inprog /\ c.state \notin Handshake
  BY DEF Steady, OpensOnce
<1> HIDE DEF d
<1>3. /\ d.iss = c.iss /\ d.error = c.error /\ d.connected = c.connected /\ d.fd = c.fd
      /\ d.inprog = c.inprog /\ d.opened = c.opened /\ d.state = c.state /\ d.timer = c.timer
      /\ d.UNA = c.UNA /\ d.NXT = c.NXT /\ d.tseq = c.tseq /\ d.writing = c.writing
  BY <1>1 DEF Keeps, Names
<1>4. Steady(d)
  BY <1>1, <1>2, <1>3 DEF Steady, OpensOnce, Keeps
<1>5. w = FdIoctl(d)
  BY <1>1, <1>3 DEF tcp_fd_write
<1>6. w = d \/ w = SendFin(d) \/ \E r : w = ReplyIoctl(d, r)
  <2>1. CASE d.state = "CLOSED"
    BY <1>1, <1>5, <2>1 DEF FdIoctl
  <2>2. CASE d.state # "CLOSED" /\ ~d.finsent
    BY <1>1, <1>5, <2>2 DEF FdIoctl
  <2>3. CASE d.state # "CLOSED" /\ d.finsent
    BY <1>1, <1>5, <2>3 DEF FdIoctl
  <2> QED
    BY <2>1, <2>2, <2>3
<1> HIDE DEF w
<1>7. Steady(w)
  <2>1. CASE w = SendFin(d)
    BY <1>2, <1>3, <1>4, <2>1, SteadySendFin
  <2>2. CASE \E r : w = ReplyIoctl(d, r)
    <3>1. Keeps(d, w, {"ioctl", "shut"})
      <4>1. PICK r : w = ReplyIoctl(d, r)
        BY <2>2
      <4>2. Keeps(d, w, ReplyIoctlFields)
        BY <1>4, <4>1, FrameReplies DEF Steady
      <4>3. w.opened = d.opened
        BY <1>1, <1>4, <4>1 DEF ReplyIoctl, Steady, Full, Names
      <4> QED
        BY <4>2, <4>3 DEF Keeps, ReplyIoctlFields
    <3>2. /\ w.iss = d.iss /\ w.error = d.error /\ w.connected = d.connected /\ w.fd = d.fd
          /\ w.inprog = d.inprog /\ w.opened = d.opened /\ w.state = d.state
          /\ w.timer = d.timer /\ w.UNA = d.UNA /\ w.NXT = d.NXT /\ w.tseq = d.tseq
      BY <3>1 DEF Keeps, Names
    <3> QED
      BY <1>2, <1>3, <1>4, <3>1, <3>2 DEF Steady, OpensOnce, Keeps
  <2> QED
    BY <1>4, <1>6, <2>1, <2>2
<1>8. Keeps(w, tcp_conn_write(w), {"more"})
  BY <1>7, FrameWrite DEF Steady
<1>9. Steady(tcp_conn_write(w))
  BY <1>7, <1>8, SteadyFrame DEF SteadyFields
<1> QED
  BY <1>9 DEF w, d

LEMMA SteadyCancel ==
  ASSUME NEW c, Steady(c)
  PROVE  Steady(Cancel(c))
<1> DEFINE quiet == [c EXCEPT !.reading = FALSE, !.rcount = 0, !.writing = FALSE,
                              !.wcount = 0, !.woffset = 0, !.ioctl = "none"]
           d == [quiet EXCEPT !.inprog = FALSE, !.fd = FALSE]
<1>1. Cancel(c) = IF c.inprog THEN tcp_close_connection(d, "ENOCONN") ELSE quiet
  BY DEF Cancel
<1>2. Keeps(c, quiet, {"reading", "rcount", "writing", "wcount", "woffset", "ioctl"})
  BY DEF Steady, Full, Keeps
<1> HIDE DEF quiet
<1>3. Keeps(quiet, d, {"inprog", "fd"}) /\ d.inprog = FALSE
  BY <1>2 DEF Full, Keeps, Names
<1> HIDE DEF d
<1>4. /\ quiet.iss = c.iss /\ quiet.error = c.error /\ quiet.connected = c.connected
      /\ quiet.fd = c.fd /\ quiet.inprog = c.inprog /\ quiet.opened = c.opened
      /\ quiet.state = c.state /\ quiet.timer = c.timer
      /\ quiet.UNA = c.UNA /\ quiet.NXT = c.NXT /\ quiet.tseq = c.tseq
  BY <1>2 DEF Keeps, Names
<1>5. /\ d.iss = quiet.iss /\ d.error = quiet.error /\ d.connected = quiet.connected
      /\ d.opened = quiet.opened /\ d.state = quiet.state
  BY <1>3 DEF Keeps, Names
<1>6. CASE c.inprog
  <2>1. Full(d) /\ d.iss \in Num /\ OpensOnce(d) /\ d.state \in States
    BY <1>3, <1>4, <1>5 DEF Steady, OpensOnce, Keeps
  <2> QED
    BY <1>1, <1>6, <2>1, SteadyClose
<1>7. CASE ~c.inprog
  BY <1>1, <1>2, <1>4, <1>7 DEF Steady, OpensOnce, Keeps
<1> QED
  BY <1>6, <1>7

LEMMA SteadyDoClose ==
  ASSUME NEW c, Steady(c)
  PROVE  Steady(tcp_close(c))
<1> DEFINE d == [c EXCEPT !.fd = FALSE]
           e == tcp_shutdown(d)
           f == IF e.state = "ESTABLISHED" THEN [e EXCEPT !.state = "CLOSING"] ELSE e
<1>1. \/ tcp_close(c) \in {c, f}
      \/ tcp_close(c) = tcp_close_connection(f, "ENOTCONN")
  BY DEF tcp_close
<1>2. Keeps(c, d, {"fd"})
  BY DEF Steady, Full, Keeps
<1> HIDE DEF d
<1>3. /\ d.iss = c.iss /\ d.error = c.error /\ d.connected = c.connected
      /\ d.inprog = c.inprog /\ d.opened = c.opened /\ d.ioctl = c.ioctl
      /\ d.state = c.state /\ d.timer = c.timer
      /\ d.UNA = c.UNA /\ d.NXT = c.NXT /\ d.tseq = c.tseq
  BY <1>2 DEF Keeps, Names
<1>4. Half(d)
  BY <1>2, <1>3 DEF Steady, Half, OpensOnce, Keeps
<1>5. Steady(e)
  <2>1. CASE d.state \in {"CLOSED", "LISTEN", "SYN_SENT", "SYN_RECEIVED"}
    <3>1. e = tcp_close_connection(d, "ENOTCONN")
      BY <2>1 DEF tcp_shutdown
    <3> QED
      BY <1>4, <3>1, SteadyClose DEF Half
  <2>2. CASE d.state \notin {"CLOSED", "LISTEN", "SYN_SENT", "SYN_RECEIVED"}
    <3>1. e = SendFin(d)
      BY <2>2 DEF tcp_shutdown
    <3>2. Steady(d) /\ d.state \notin Handshake
      BY <1>2, <1>3, <2>2 DEF Steady, OpensOnce, Keeps, Handshake
    <3> QED
      BY <3>1, <3>2, SteadySendFin
  <2> QED
    BY <2>1, <2>2
<1> HIDE DEF e
<1>6. Steady(f)
  <2> DEFINE g == [e EXCEPT !.state = "CLOSING"]
  <2>1. Keeps(e, g, {"state"}) /\ g.state = "CLOSING"
    BY <1>5 DEF Steady, Full, Keeps, Names
  <2>2. f = IF e.state = "ESTABLISHED" THEN g ELSE e
    OBVIOUS
  <2> HIDE DEF g
  <2>3. /\ g.iss = e.iss /\ g.error = e.error /\ g.connected = e.connected
        /\ g.inprog = e.inprog /\ g.opened = e.opened /\ g.ioctl = e.ioctl /\ g.timer = e.timer
        /\ g.UNA = e.UNA /\ g.NXT = e.NXT /\ g.tseq = e.tseq
    BY <2>1 DEF Keeps, Names
  <2>4. CASE e.state = "ESTABLISHED"
    <3>1. Steady(g)
      BY <1>5, <2>1, <2>3, <2>4 DEF Steady, OpensOnce, Keeps, States, Handshake
    <3> QED
      BY <2>2, <2>4, <3>1
  <2> QED
    BY <1>5, <2>2, <2>4
<1> HIDE DEF f
<1>7. Steady(tcp_close_connection(f, "ENOTCONN"))
  BY <1>6, SteadyClose DEF Steady
<1> QED
  BY <1>1, <1>6, <1>7

LEMMA SteadyTimers ==
  ASSUME NEW c, Steady(c)
  PROVE  /\ c.NXT = c.UNA => Steady(TimerIdle(c))
         /\ c.timer => Steady(TimerProgress(c))
         /\ Steady([c EXCEPT !.stt = TRUE])
         /\ Steady(Retransmit(c))
<1>1. ASSUME c.NXT = c.UNA, NEW t, t = TimerIdle(c) PROVE Steady(t)
  <2>1. Keeps(c, t, {"tseq", "stt", "timer"}) /\ t.tseq = c.UNA
    BY <1>1 DEF TimerIdle, Steady, Full, Keeps, Names
  <2>2. /\ t.iss = c.iss /\ t.error = c.error /\ t.connected = c.connected /\ t.fd = c.fd
        /\ t.inprog = c.inprog /\ t.opened = c.opened /\ t.ioctl = c.ioctl
        /\ t.state = c.state /\ t.UNA = c.UNA /\ t.NXT = c.NXT
    BY <2>1 DEF Keeps, Names
  <2> QED
    BY <1>1, <2>1, <2>2 DEF Steady, OpensOnce, Keeps
<1>2. ASSUME c.timer, NEW t, t = TimerProgress(c) PROVE Steady(t)
  <2>1. Keeps(c, t, {"tseq", "stt"})
    BY <1>2 DEF TimerProgress, Steady, Full, Keeps
  <2>2. /\ t.iss = c.iss /\ t.error = c.error /\ t.connected = c.connected /\ t.fd = c.fd
        /\ t.inprog = c.inprog /\ t.opened = c.opened /\ t.ioctl = c.ioctl
        /\ t.state = c.state /\ t.UNA = c.UNA /\ t.NXT = c.NXT /\ t.timer = c.timer
    BY <2>1 DEF Keeps, Names
  <2> QED
    BY <1>2, <2>1, <2>2 DEF Steady, OpensOnce, Keeps
<1>3. Steady([c EXCEPT !.stt = TRUE])
  <2>1. Keeps(c, [c EXCEPT !.stt = TRUE], {"stt"})
    BY DEF Steady, Full, Keeps
  <2> QED
    BY <2>1, SteadyFrame DEF SteadyFields
<1>4. Steady(Retransmit(c))
  <2>1. Keeps(c, Retransmit(c), {"TRM", "cwnd", "cthresh", "more"})
    <3>1. \E x, y : Retransmit(c) =
                      tcp_conn_write([c EXCEPT !.TRM = c.UNA, !.cwnd = x, !.cthresh = y])
      BY Zenon DEF Retransmit
    <3> QED
      BY <3>1 DEF tcp_conn_write, Steady, Full, Keeps
  <2> QED
    BY <2>1, SteadyFrame DEF SteadyFields
<1> QED
  BY <1>1, <1>2, <1>3, <1>4

(* Every block is steady in every state of the specification. *)
SteadyInv ==
  /\ DOMAIN tcb = Peer
  /\ \A p \in Peer : Steady(tcb[p])

LEMMA SteadyInit == Init => SteadyInv
<1> SUFFICES ASSUME Init PROVE SteadyInv
  OBVIOUS
<1>1. DOMAIN tcb = Peer /\ \A p \in Peer : tcb[p] = FreshBlock(p)
  BY DEF Init
<1>2. ASSUME NEW p \in Peer PROVE Steady(FreshBlock(p))
  <2>1. ISS[p] \in Num
    BY PosStart
  <2>2. Full(FreshBlock(p))
    BY DEF FreshBlock, Full, Names
  <2>3. /\ FreshBlock(p).iss = ISS[p] /\ FreshBlock(p).state = "CLOSED"
        /\ FreshBlock(p).error = "OK" /\ FreshBlock(p).connected = FALSE
        /\ FreshBlock(p).inprog = FALSE
    BY DEF FreshBlock
  <2> QED
    BY <2>1, <2>2, <2>3 DEF Steady, OpensOnce, States, Handshake
<1> QED
  BY <1>1, <1>2 DEF SteadyInv

LEMMA SteadySent ==
  ASSUME SteadyInv, NEW p \in Peer, NEW c, Steady(c), NEW kept,
         Sent(p, kept, tcp_port_write(c))
  PROVE  SteadyInv'
<1> DEFINE t == tcp_port_write(c).c
<1>1. Steady(t)
  BY SteadyPort
<1> HIDE DEF t
<1>2. tcb' = [tcb EXCEPT ![p] = t]
  BY DEF Sent, t
<1>3. DOMAIN tcb' = Peer /\ \A q \in Peer : Steady(tcb'[q])
  BY <1>1, <1>2 DEF SteadyInv
<1> QED
  BY <1>3 DEF SteadyInv

LEMMA SteadyNext ==
  ASSUME SteadyInv, [Next]_vars
  PROVE  SteadyInv'
<1>1. CASE UNCHANGED vars
  BY <1>1 DEF SteadyInv, vars
<1>2. CASE Next
  <2>1. PICK p \in Peer :
          \/ Listen(p) \/ Connect(p) \/ Write(p) \/ Read(p) \/ Shutdown(p)
          \/ Close(p) \/ TimerExpires(p) \/ TimerRetransmits(p) \/ TimerEarly(p)
          \/ TimerGivesUp(p) \/ DeliverFirst(p) \/ Overtake(p) \/ Duplicate(p)
          \/ Lose(p)
    BY <1>2 DEF Next
  <2> DEFINE c == tcb[p]
  <2>2. Steady(c)
    BY DEF SteadyInv
  <2>3. ASSUME NEW d, Steady(d), Finish(p, d) PROVE SteadyInv'
    BY <2>3, SteadySent DEF Finish
  <2>4. ASSUME c.opened = "no", NEW how, how \in {"CONN", "LISTEN"}
        PROVE  /\ Steady(tcp_su4listen([c EXCEPT !.ioctl = how]))
               /\ Steady(tcp_su4connect([c EXCEPT !.ioctl = how]))
    <3> DEFINE d == [c EXCEPT !.ioctl = how]
    <3>1. /\ Full(d) /\ d.iss = c.iss /\ d.ioctl = how /\ d.connected = c.connected
      BY <2>2 DEF Steady, Full, Names
    <3>2. d.iss \in Num /\ ~d.connected
      BY <2>2, <2>4, <3>1 DEF Steady, OpensOnce
    <3> HIDE DEF d
    <3>3. Steady(tcp_su4listen(d)) /\ Steady(tcp_su4connect(d))
      BY <2>4, <3>1, <3>2, SteadyListen
    <3> QED
      BY <3>3 DEF d
  <2>5. CASE Listen(p)
    <3>1. /\ c.opened = "no"
          /\ Finish(p, tcp_su4listen([c EXCEPT !.ioctl = "LISTEN"]))
      BY <2>5 DEF Listen, MayOpen
    <3>2. Steady(tcp_su4listen([c EXCEPT !.ioctl = "LISTEN"]))
      BY <2>4, <3>1
    <3> QED
      BY <2>3, <3>1, <3>2
  <2>6. CASE Connect(p)
    <3>1. /\ c.opened = "no"
          /\ Finish(p, tcp_su4connect([c EXCEPT !.ioctl = "CONN"]))
      BY <2>6 DEF Connect, MayOpen
    <3>2. Steady(tcp_su4connect([c EXCEPT !.ioctl = "CONN"]))
      BY <2>4, <3>1
    <3> QED
      BY <2>3, <3>1, <3>2
  <2>7. CASE Write(p)
    <3> DEFINE d == [c EXCEPT !.posted = @ + 1]
               n == script[p].writes[c.posted + 1]
    <3>1. c.connected /\ Finish(p, tcp_write(d, n))
      BY <2>7 DEF Write, MayWrite
    <3>2. Keeps(c, d, {"posted"})
      BY <2>2 DEF Steady, Full, Keeps
    <3> HIDE DEF d, n
    <3>3. Steady(d)
      BY <2>2, <3>2, SteadyFrame DEF SteadyFields
    <3>4. d.connected = c.connected
      BY <3>2 DEF Keeps, Names
    <3>5. Steady(tcp_write(d, n))
      BY <3>1, <3>3, <3>4, SteadyDoWrite
    <3> QED
      BY <2>3, <3>1, <3>5
  <2>8. CASE Read(p)
    <3> DEFINE d == [c EXCEPT !.reading = TRUE, !.rcount = script[p].read]
    <3>1. Finish(p, tcp_fd_read(d))
      BY <2>8 DEF Read
    <3>2. Keeps(c, d, {"reading", "rcount"})
      BY <2>2 DEF Steady, Full, Keeps
    <3> HIDE DEF d
    <3>3. Steady(d)
      BY <2>2, <3>2, SteadyFrame DEF SteadyFields
    <3>4. Keeps(d, tcp_fd_read(d), ReadFields)
      BY <3>3, FrameFdRead DEF Steady
    <3>5. Steady(tcp_fd_read(d))
      BY <3>3, <3>4, SteadyFrame DEF SteadyFields, ReadFields, ReplyReadFields
    <3> QED
      BY <2>3, <3>1, <3>5
  <2>9. CASE Shutdown(p)
    <3>1. /\ c.connected /\ ~c.writing /\ c.ioctl = "none"
          /\ Finish(p, tcp_conn_write(tcp_fd_write([c EXCEPT !.ioctl = "SHUTDOWN"])))
      BY <2>9 DEF Shutdown, MayShutdown, Written, Idle
    <3>2. Steady(tcp_conn_write(tcp_fd_write([c EXCEPT !.ioctl = "SHUTDOWN"])))
      BY <2>2, <3>1, SteadyDoShutdown
    <3> QED
      BY <2>3, <3>1, <3>2
  <2>10. CASE Close(p)
    <3> DEFINE d == [c EXCEPT !.open = FALSE]
    <3>1. Finish(p, tcp_close(Cancel(d)))
      BY <2>10 DEF Close
    <3>2. Keeps(c, d, {"open"})
      BY <2>2 DEF Steady, Full, Keeps
    <3> HIDE DEF d
    <3>3. Steady(d)
      BY <2>2, <3>2, SteadyFrame DEF SteadyFields
    <3>4. Steady(tcp_close(Cancel(d)))
      BY <3>3, SteadyCancel, SteadyDoClose
    <3> QED
      BY <2>3, <3>1, <3>4
  <2>11. CASE TimerExpires(p)
    BY <2>2, <2>3, <2>11, SteadyTimers DEF TimerExpires
  <2>12. CASE TimerRetransmits(p)
    BY <2>2, <2>3, <2>12, SteadyTimers DEF TimerRetransmits
  <2>13. CASE TimerEarly(p)
    BY <2>2, <2>3, <2>13, SteadyTimers DEF TimerEarly
  <2>14. CASE TimerGivesUp(p)
    <3>1. Finish(p, tcp_close_connection(c, "ETIMEDOUT"))
      BY <2>14 DEF TimerGivesUp
    <3>2. Steady(tcp_close_connection(c, "ETIMEDOUT"))
      BY <2>2, SteadyClose DEF Steady
    <3> QED
      BY <2>3, <3>1, <3>2
  <2>15. ASSUME NEW i, NEW kept, Arrive(p, i, kept) PROVE SteadyInv'
    <3>1. Steady(tcp_frag2conn(c, net[p][i]))
      BY <2>2, SteadySegment
    <3> QED
      BY <2>15, <3>1, SteadySent DEF Arrive
  <2>16. CASE DeliverFirst(p) \/ Overtake(p) \/ Duplicate(p)
    BY <2>15, <2>16 DEF DeliverFirst, Overtake, Duplicate
  <2>17. CASE Lose(p)
    BY <2>17 DEF Lose, SteadyInv
  <2> QED
    BY <2>1, <2>5, <2>6, <2>7, <2>8, <2>9, <2>10, <2>11, <2>12, <2>13, <2>14, <2>16, <2>17
<1> QED
  BY <1>1, <1>2

(***************************************************************************)
(* TimerCovers: whatever has been sent and not acknowledged has the timer  *)
(* running, and a timer that is stopped will be started by the next write, *)
(* for streams of any length and whatever segments arrive (tcp_fd_write(), *)
(* tcp_release_retrans(), tcp_send_timeout()).                             *)
(***************************************************************************)
THEOREM TimerRuns == Spec => []TimerCovers
<1>1. Init => SteadyInv
  BY SteadyInit
<1>2. SteadyInv /\ [Next]_vars => SteadyInv'
  BY SteadyNext
<1>3. SteadyInv => TimerCovers
  BY DEF SteadyInv, Steady, TimerCovers
<1> QED
  BY <1>1, <1>2, <1>3, PTL DEF Spec

-----------------------------------------------------------------------------
(* Streams.  A byte is the number of its place, so whatever holds part of a
   stream holds a run of numbers. *)
Run(lo, hi) == [i \in 1..(hi - lo) |-> lo + i]
\* A SYN or a FIN takes a place of its own.
One(w) == IF w THEN 1 ELSE 0

LEMMA RunIs ==
  ASSUME NEW a \in Nat, NEW b \in Nat, a <= b
  PROVE  /\ Run(a, b) \in Seq(Nat) /\ Len(Run(a, b)) = b - a
         /\ \A i \in 1 .. b - a : Run(a, b)[i] = a + i
         /\ Run(a, b) = <<>> <=> a = b
<1> DEFINE r == Run(a, b)
<1>1. b - a \in Nat /\ r \in [1 .. b - a -> Nat] /\ \A i \in 1 .. b - a : r[i] = a + i
  BY DEF Run
<1> HIDE DEF r
<1>2. r \in Seq(Nat) /\ Len(r) = b - a
  BY <1>1
<1>3. r = <<>> <=> a = b
  BY <1>2
<1> QED
  BY <1>1, <1>2, <1>3 DEF r

LEMMA RunEmpty ==
  ASSUME NEW a \in Nat
  PROVE  Run(a, a) = <<>>
BY RunIs

LEMMA RunNext ==
  ASSUME NEW a \in Nat, NEW b \in Nat, NEW d \in Nat, a <= b, b <= d
  PROVE  Run(a, b) \o Run(b, d) = Run(a, d)
<1> DEFINE x == Run(a, b)
           y == Run(b, d)
           z == Run(a, d)
<1>1. /\ x \in Seq(Nat) /\ Len(x) = b - a /\ \A i \in 1 .. b - a : x[i] = a + i
      /\ y \in Seq(Nat) /\ Len(y) = d - b /\ \A i \in 1 .. d - b : y[i] = b + i
      /\ z \in Seq(Nat) /\ Len(z) = d - a /\ \A i \in 1 .. d - a : z[i] = a + i
  <2>1. a <= d
    OBVIOUS
  <2> HIDE DEF x, y, z
  <2>2. x \in Seq(Nat) /\ Len(x) = b - a /\ \A i \in 1 .. b - a : x[i] = a + i
    BY RunIs DEF x
  <2>3. y \in Seq(Nat) /\ Len(y) = d - b /\ \A i \in 1 .. d - b : y[i] = b + i
    BY RunIs DEF y
  <2>4. z \in Seq(Nat) /\ Len(z) = d - a /\ \A i \in 1 .. d - a : z[i] = a + i
    BY <2>1, RunIs DEF z
  <2> QED
    BY <2>2, <2>3, <2>4
<1> HIDE DEF x, y, z
<1>2. /\ x \o y \in Seq(Nat) /\ Len(x \o y) = Len(x) + Len(y)
      /\ \A i \in 1 .. Len(x) + Len(y) : (x \o y)[i] = IF i <= Len(x) THEN x[i] ELSE y[i - Len(x)]
  BY <1>1, ConcatProperties
<1>3. Len(x \o y) = Len(z)
  BY <1>1, <1>2
<1>4. ASSUME NEW i \in 1 .. Len(x \o y) PROVE (x \o y)[i] = z[i]
  <2>1. CASE i <= b - a
    BY <1>1, <1>2, <2>1
  <2>2. CASE i > b - a
    <3>1. i - (b - a) \in 1 .. d - b /\ i \in 1 .. d - a
      BY <1>1, <1>2, <2>2
    <3>2. (x \o y)[i] = y[i - (b - a)]
      BY <1>1, <1>2, <2>2, SMTT(20)
    <3> QED
      BY <1>1, <3>1, <3>2
  <2>3. i \in Int /\ b - a \in Int
    BY <1>1, <1>2
  <2> QED
    BY <2>1, <2>2, <2>3
<1>5. x \o y = z
  BY <1>1, <1>2, <1>3, <1>4, SeqEqual
<1> QED
  BY <1>5 DEF x, y, z

LEMMA RunPart ==
  ASSUME NEW a \in Nat, NEW b \in Nat, a <= b, NEW i \in Nat \ {0}, NEW j \in Nat,
         i <= j + 1, j <= b - a
  PROVE  SubSeq(Run(a, b), i, j) = Run(a + i - 1, a + j)
<1> DEFINE r == Run(a, b)
           s == SubSeq(r, i, j)
           z == Run(a + i - 1, a + j)
<1>1. r \in Seq(Nat) /\ Len(r) = b - a /\ \A k \in 1 .. b - a : r[k] = a + k
  BY RunIs
<1>2. /\ a + i - 1 \in Nat /\ a + j \in Nat /\ a + i - 1 <= a + j
      /\ a + j - (a + i - 1) = j - i + 1
  OBVIOUS
<1>3. z \in Seq(Nat) /\ Len(z) = j - i + 1 /\ \A k \in 1 .. j - i + 1 : z[k] = a + i - 1 + k
  <2> DEFINE u == a + i - 1
             v == a + j
  <2>1. u \in Nat /\ v \in Nat /\ u <= v /\ v - u = j - i + 1
    BY <1>2
  <2> HIDE DEF u, v
  <2>2. /\ Run(u, v) \in Seq(Nat) /\ Len(Run(u, v)) = v - u
        /\ \A k \in 1 .. v - u : Run(u, v)[k] = u + k
    BY <2>1, RunIs
  <2> QED
    BY <2>1, <2>2 DEF u, v
<1> HIDE DEF r, z
<1>4. \A k \in i .. j : r[k] \in Nat
  BY <1>1
<1>5. /\ s \in Seq(Nat) /\ Len(s) = (IF i <= j THEN j - i + 1 ELSE 0)
      /\ \A k \in 1 .. j - i + 1 : s[k] = r[i + k - 1]
  BY <1>4, SubSeqProperties
<1> HIDE DEF s
<1>6. Len(s) = Len(z) /\ Len(s) = j - i + 1
  BY <1>3, <1>5
<1>7. ASSUME NEW k \in 1 .. Len(s) PROVE s[k] = z[k]
  <2>1. k \in 1 .. j - i + 1 /\ i + k - 1 \in 1 .. b - a
    BY <1>6
  <2>2. s[k] = r[i + k - 1] /\ z[k] = a + i - 1 + k /\ r[i + k - 1] = a + (i + k - 1)
    BY <1>1, <1>3, <1>5, <2>1
  <2> QED
    BY <2>1, <2>2
<1>8. s = z
  BY <1>3, <1>5, <1>6, <1>7, SeqEqual
<1> QED
  BY <1>8 DEF r, s, z

(* What tcp_fd_write() takes from the program. *)
LEMMA RunTaken ==
  ASSUME NEW a \in Nat, NEW n \in Nat
  PROVE  [i \in 1..n |-> a + i] = Run(a, a + n)
<1>1. a + n - a = n
  OBVIOUS
<1> QED
  BY <1>1 DEF Run

-----------------------------------------------------------------------------
(* What a connection holds.  c is the block of p, o the other endpoint, q its
   block. *)

\* How much of the stream of p the other side has received, its SYN and FIN
\* included: what it may acknowledge.
Heard(p, q) == IF q.connected THEN Pos(p, q.RCV) ELSE 1

\* The streams are short beside the sequence numbers.
Room(p, q) ==
  /\ q.sent \in Nat /\ q.ended \in BOOLEAN /\ Heard(p, q) \in Nat
  /\ 2 * (q.sent + RCV_WND + 4) <= SeqSpace
  /\ 2 * (Heard(p, q) + SND_WND + RCV_WND + 2 * MSS + 2) <= SeqSpace

\* What waits in tc_frag2send is a reset.
FragOK(f) ==
  f = NoRST \/ (f \in Segment /\ "RST" \in f.flags)

\* What a program can have posted, whatever the state of the connection.
MiscOK(p, c) ==
  /\ Full(c) /\ c.iss = ISS[p] /\ {c.PSH, c.tseq} \subseteq Num
  /\ {c.wcount, c.rcount, c.posted} \subseteq Nat /\ c.connected \in BOOLEAN
  /\ FragOK(c.frag)
  /\ c.finsent => ~c.writing
  /\ c.reading => c.rcount > 0 /\ c.open
  /\ c.ioctl = "SHUTDOWN" => ~c.writing /\ c.open

\* The types of the two sides of a block.
SendTypes(c) ==
  /\ c.UNA \in Num /\ c.TRM \in Num /\ c.NXT \in Num /\ c.cwnd \in Num
  /\ c.sent \in Nat /\ c.cthresh \in Nat /\ c.finsent \in BOOLEAN /\ c.ended \in BOOLEAN

RecvTypes(c) ==
  /\ c.LO \in Num /\ c.RCV \in Num /\ c.HI \in Num /\ c.advseq \in Num
  /\ c.finrecv \in BOOLEAN

\* What the other side has acknowledged: the FIN is not a byte.
Acked(p, c) == IF c.finsent /\ c.UNA = c.NXT THEN c.sent ELSE Pos(p, c.UNA) - 1

\* The sending side: the counters are in order, nothing is acknowledged that
\* the other side has not received, and the queue holds what is not.
SendOrder(p, c, q) ==
  LET u == Pos(p, c.UNA)  t == Pos(p, c.TRM)  n == Pos(p, c.NXT)  w == Pos(p, c.cwnd)
  IN /\ c.finsent = c.ended
     /\ n = 1 + c.sent + One(c.finsent)
     /\ 1 <= u /\ u <= t /\ t <= n /\ t <= w /\ w <= u + 2 * MSS + RCV_WND
     /\ u <= Heard(p, q)
     /\ c.sent - Acked(p, c) <= SND_WND

\* The sending side of p, its queue included.
Sends(p, c, q) ==
  /\ SendTypes(c) /\ SendOrder(p, c, q)
  /\ c.sendq = Run(Acked(p, c), c.sent)

\* The receiving side: what was read, what waits to be read and what is held
\* in advance are runs of what the other side sent.
Ahead(o, c, q) ==
  LET v == Pos(o, c.advseq)  e == v + Len(c.adv)
  IN /\ v > Pos(o, c.RCV) /\ e <= q.sent + 1 /\ e <= Pos(o, c.HI)
     /\ c.adv \in Seq(Nat) /\ c.adv = Run(v - 1, e - 1)

\* The counters of the receiving side: what was handed over, received, offered.
RecvOrder(o, c, q) ==
  LET l == Pos(o, c.LO)  r == Pos(o, c.RCV)  h == Pos(o, c.HI)  f == One(c.finrecv)
  IN /\ 1 <= l /\ l <= r - f /\ r <= h /\ h <= l + RCV_WND
     /\ c.finrecv => q.ended /\ r = q.sent + 2
     /\ ~c.finrecv => r <= q.sent + 1

\* All but the data in advance, which a step may be about to use.
Takes(o, c, q) ==
  /\ RecvTypes(c) /\ RecvOrder(o, c, q)
  /\ c.got = Run(0, Pos(o, c.LO) - 1)
  /\ c.rcvd = Run(Pos(o, c.LO) - 1, Pos(o, c.RCV) - 1 - One(c.finrecv))

\* The receiving side between two handlers: what is held in advance is ahead.
Recvs(o, c, q) ==
  /\ Takes(o, c, q)
  /\ c.adv = <<>> \/ Ahead(o, c, q)

\* A connection: p sends to q, o is the other side.
Live(p, o, c, q) ==
  MiscOK(p, c) /\ Connected(c) /\ c.connected /\ Sends(p, c, q) /\ Recvs(o, c, q)

\* The fields the parts of Live read.
MiscFields == {"iss", "PSH", "tseq", "wcount", "rcount", "posted", "connected", "frag",
               "finsent", "writing", "reading", "open", "ioctl", "state"}
SendFields == {"UNA", "TRM", "NXT", "cwnd", "sent", "cthresh", "finsent", "ended", "sendq"}
TakeFields == {"LO", "RCV", "HI", "advseq", "finrecv", "got", "rcvd"}
RecvFields == TakeFields \cup {"adv"}
LiveFields == MiscFields \cup SendFields \cup RecvFields

\* A block never takes back what it sent, received or handed over.
Grows(o, c, t) ==
  /\ c.sent <= t.sent
  /\ c.ended => t.ended /\ t.sent = c.sent
  /\ Len(c.got) <= Len(t.got)
  /\ c.connected => /\ t.connected /\ Pos(o, c.RCV) <= Pos(o, t.RCV)
                    /\ Pos(o, c.HI) <= Pos(o, t.HI)

LEMMA SendsFrame ==
  ASSUME NEW p \in Peer, NEW c, NEW t, NEW q, NEW S, Keeps(c, t, S), S \cap SendFields = {}
  PROVE  /\ Sends(p, c, q) => Sends(p, t, q)
         /\ t.sent = c.sent /\ t.ended = c.ended
<1>1. SendFields \subseteq Names \ S
  BY DEF SendFields, Names
<1>2. \A f \in SendFields : t[f] = c[f]
  BY <1>1 DEF Keeps
<1>3. /\ t.UNA = c.UNA /\ t.TRM = c.TRM /\ t.NXT = c.NXT /\ t.cwnd = c.cwnd /\ t.sent = c.sent
      /\ t.cthresh = c.cthresh /\ t.finsent = c.finsent /\ t.ended = c.ended
      /\ t.sendq = c.sendq
  BY <1>2 DEF SendFields
<1> QED
  BY <1>3 DEF Sends, SendTypes, SendOrder, Acked

LEMMA TakesFrame ==
  ASSUME NEW o \in Peer, NEW c, NEW t, NEW q, NEW S, Keeps(c, t, S), S \cap TakeFields = {}
  PROVE  /\ Takes(o, c, q) => Takes(o, t, q)
         /\ t.RCV = c.RCV /\ t.HI = c.HI /\ t.LO = c.LO /\ t.got = c.got
<1>1. TakeFields \subseteq Names \ S
  BY DEF TakeFields, Names
<1>2. \A f \in TakeFields : t[f] = c[f]
  BY <1>1 DEF Keeps
<1>3. /\ t.LO = c.LO /\ t.RCV = c.RCV /\ t.HI = c.HI /\ t.advseq = c.advseq
      /\ t.finrecv = c.finrecv /\ t.got = c.got /\ t.rcvd = c.rcvd
  BY <1>2 DEF TakeFields
<1> QED
  BY <1>3 DEF Takes, RecvTypes, RecvOrder

LEMMA RecvsFrame ==
  ASSUME NEW o \in Peer, NEW c, NEW t, NEW q, NEW S, Keeps(c, t, S), S \cap RecvFields = {}
  PROVE  /\ Recvs(o, c, q) => Recvs(o, t, q)
         /\ t.RCV = c.RCV /\ t.HI = c.HI /\ t.got = c.got
<1>1. S \cap TakeFields = {} /\ t.adv = c.adv
  BY DEF RecvFields, Keeps, Names
<1>2. /\ Takes(o, c, q) => Takes(o, t, q)
      /\ t.RCV = c.RCV /\ t.HI = c.HI /\ t.got = c.got /\ t.LO = c.LO
  BY <1>1, TakesFrame
<1>3. t.advseq = c.advseq
  BY DEF RecvFields, TakeFields, Keeps, Names
<1> QED
  BY <1>1, <1>2, <1>3 DEF Recvs, Ahead

LEMMA MiscFrame ==
  ASSUME NEW p \in Peer, NEW c, NEW t, NEW S, Keeps(c, t, S), S \cap MiscFields = {}
  PROVE  /\ MiscOK(p, c) => MiscOK(p, t)
         /\ t.connected = c.connected /\ t.state = c.state
<1>1. MiscFields \subseteq Names \ S
  BY DEF MiscFields, Names
<1>2. \A f \in MiscFields : t[f] = c[f]
  BY <1>1 DEF Keeps
<1>3. /\ t.iss = c.iss /\ t.PSH = c.PSH /\ t.tseq = c.tseq /\ t.wcount = c.wcount
      /\ t.rcount = c.rcount /\ t.posted = c.posted /\ t.connected = c.connected
      /\ t.frag = c.frag /\ t.finsent = c.finsent /\ t.writing = c.writing
      /\ t.reading = c.reading /\ t.open = c.open /\ t.ioctl = c.ioctl /\ t.state = c.state
  BY <1>2 DEF MiscFields
<1> QED
  BY <1>3 DEF MiscOK, Keeps

\* A step of the sending side, of the receiving side, and one of neither.
Moves(p, o, c, t, q) == Live(p, o, t, q) /\ Grows(o, c, t)

LEMMA LiveTypes ==
  ASSUME NEW p \in Peer, NEW o \in Peer, NEW c, NEW q, Live(p, o, c, q)
  PROVE  /\ Full(c) /\ c.sent \in Nat /\ Len(c.got) \in Nat
         /\ c.LO \in Num /\ c.RCV \in Num /\ c.HI \in Num
         /\ Pos(o, c.LO) \in Nat /\ Pos(o, c.RCV) \in Nat /\ Pos(o, c.HI) \in Nat
         /\ Len(c.got) = Pos(o, c.LO) - 1 /\ c.got \in Seq(Nat)
<1>1. /\ Full(c) /\ c.sent \in Nat /\ c.LO \in Num /\ c.RCV \in Num /\ c.HI \in Num
      /\ c.got = Run(0, Pos(o, c.LO) - 1) /\ 1 <= Pos(o, c.LO)
  BY DEF Live, MiscOK, Sends, SendTypes, Recvs, Takes, RecvTypes, RecvOrder
<1>2. Pos(o, c.LO) \in Nat /\ Pos(o, c.RCV) \in Nat /\ Pos(o, c.HI) \in Nat
  <2>1. /\ Pos(o, c.LO) \in Num /\ Pos(o, c.RCV) \in Num /\ Pos(o, c.HI) \in Num
    BY <1>1, PosType
  <2> QED
    BY <2>1, Space DEF Num
<1> DEFINE l == Pos(o, c.LO) - 1
<1>3. l \in Nat /\ 0 <= l
  BY <1>1, <1>2
<1> HIDE DEF l
<1>4. Run(0, l) \in Seq(Nat) /\ Len(Run(0, l)) = l - 0
  BY <1>3, RunIs
<1> QED
  BY <1>1, <1>2, <1>3, <1>4 DEF l

LEMMA GrowsSelf ==
  ASSUME NEW p \in Peer, NEW o \in Peer, NEW c, NEW q, Live(p, o, c, q),
         NEW t, t.sent = c.sent, t.ended = c.ended, t.got = c.got, t.connected = c.connected,
         t.RCV = c.RCV, t.HI = c.HI
  PROVE  Grows(o, c, t)
BY LiveTypes DEF Grows

LEMMA LiveFrame ==
  ASSUME NEW p \in Peer, NEW o \in Peer, NEW c, NEW q, Live(p, o, c, q),
         NEW t, NEW S, Keeps(c, t, S), S \cap LiveFields = {}
  PROVE  Moves(p, o, c, t, q)
<1>1. S \cap SendFields = {} /\ S \cap RecvFields = {} /\ S \cap MiscFields = {}
  BY DEF LiveFields
<1>2. Sends(p, t, q) /\ t.sent = c.sent /\ t.ended = c.ended
  BY <1>1, SendsFrame DEF Live
<1>3. Recvs(o, t, q) /\ t.RCV = c.RCV /\ t.HI = c.HI /\ t.got = c.got
  BY <1>1, RecvsFrame DEF Live
<1>4. MiscOK(p, t) /\ t.connected = c.connected /\ t.state = c.state
  BY <1>1, MiscFrame DEF Live
<1>5. Live(p, o, t, q)
  BY <1>2, <1>3, <1>4 DEF Live, Connected
<1> QED
  BY <1>2, <1>3, <1>4, <1>5, GrowsSelf DEF Moves

LEMMA MovesTrans ==
  ASSUME NEW p \in Peer, NEW o \in Peer, NEW c, NEW t, NEW u, NEW q, Live(p, o, c, q),
         Moves(p, o, c, t, q), Moves(p, o, t, u, q)
  PROVE  Moves(p, o, c, u, q)
<1>1. Live(p, o, t, q) /\ Live(p, o, u, q) /\ Grows(o, c, t) /\ Grows(o, t, u)
  BY DEF Moves
<1>2. /\ c.sent \in Nat /\ Len(c.got) \in Nat /\ Pos(o, c.RCV) \in Nat /\ Pos(o, c.HI) \in Nat
      /\ c.connected
  BY LiveTypes DEF Live
<1>3. /\ t.sent \in Nat /\ Len(t.got) \in Nat /\ Pos(o, t.RCV) \in Nat /\ Pos(o, t.HI) \in Nat
      /\ t.connected
  BY <1>1, LiveTypes DEF Live
<1>4. /\ u.sent \in Nat /\ Len(u.got) \in Nat /\ Pos(o, u.RCV) \in Nat /\ Pos(o, u.HI) \in Nat
      /\ u.connected
  BY <1>1, LiveTypes DEF Live
<1>5. Grows(o, c, u)
  BY <1>1, <1>2, <1>3, <1>4, SMTT(20) DEF Grows
<1> QED
  BY <1>1, <1>5 DEF Moves

LEMMA MovesSelf ==
  ASSUME NEW p \in Peer, NEW o \in Peer, NEW c, NEW q, Live(p, o, c, q)
  PROVE  Moves(p, o, c, c, q)
BY GrowsSelf DEF Moves

(* The places of the sending side and what the daemon makes of them. *)
LEMMA SendPlaces ==
  ASSUME NEW p \in Peer, NEW c, NEW q, Sends(p, c, q), Room(p, q),
         NEW u, u = Pos(p, c.UNA), NEW t, t = Pos(p, c.TRM), NEW n, n = Pos(p, c.NXT),
         NEW w, w = Pos(p, c.cwnd)
  PROVE  /\ u \in Int /\ t \in Int /\ n \in Int /\ w \in Int
         /\ 1 <= u /\ u <= t /\ t <= n /\ t <= w /\ w <= u + 2 * MSS + RCV_WND
         /\ n = 1 + c.sent + One(c.finsent) /\ u <= Heard(p, q)
         /\ Near(p, c.UNA) /\ Near(p, c.TRM) /\ Near(p, c.NXT) /\ Near(p, c.cwnd)
         /\ Acked(p, c) = (IF c.finsent /\ u = n THEN c.sent ELSE u - 1)
         /\ Acked(p, c) \in Nat /\ Acked(p, c) <= c.sent /\ c.sent - Acked(p, c) <= SND_WND
         /\ n <= u + SND_WND + 1 /\ c.sent \in Nat
         /\ c.sendq \in Seq(Nat) /\ Len(c.sendq) = c.sent - Acked(p, c)
<1>1. /\ c.UNA \in Num /\ c.TRM \in Num /\ c.NXT \in Num /\ c.cwnd \in Num /\ c.sent \in Nat
      /\ c.finsent \in BOOLEAN
  BY DEF Sends, SendTypes
<1>2. u \in Int /\ u >= 0 /\ t \in Int /\ n \in Int /\ w \in Int
  BY <1>1, PosType
<1>3. /\ 1 <= u /\ u <= t /\ t <= n /\ t <= w /\ w <= u + 2 * MSS + RCV_WND
      /\ n = 1 + c.sent + One(c.finsent) /\ u <= Heard(p, q)
      /\ c.sent - Acked(p, c) <= SND_WND
  BY DEF Sends, SendOrder
<1>4. c.UNA = c.NXT <=> u = n
  BY <1>1, PosSame
<1>5. Acked(p, c) = IF c.finsent /\ u = n THEN c.sent ELSE u - 1
  BY <1>4 DEF Acked
<1>6. Acked(p, c) \in Nat /\ Acked(p, c) <= c.sent /\ n <= u + SND_WND + 1
  BY <1>1, <1>2, <1>3, <1>5, Space DEF One
<1>7. /\ 2 * (Heard(p, q) + SND_WND + RCV_WND + 2 * MSS + 2) <= SeqSpace /\ Heard(p, q) \in Nat
  BY DEF Room
<1>8. 2 * u < SeqSpace /\ 2 * t < SeqSpace /\ 2 * n < SeqSpace /\ 2 * w < SeqSpace
  BY <1>1, <1>2, <1>3, <1>6, <1>7, Space
<1>9. Near(p, c.UNA) /\ Near(p, c.TRM) /\ Near(p, c.NXT) /\ Near(p, c.cwnd)
  BY <1>1, <1>8 DEF Near
<1> DEFINE a == Acked(p, c)
<1> HIDE DEF a
<1>10. Run(a, c.sent) \in Seq(Nat) /\ Len(Run(a, c.sent)) = c.sent - a
  BY <1>1, <1>6, RunIs DEF a
<1>11. c.sendq = Run(a, c.sent)
  BY DEF Sends, a
<1>12. c.sendq \in Seq(Nat) /\ Len(c.sendq) = c.sent - Acked(p, c)
  BY <1>10, <1>11 DEF a
<1> QED
  BY <1>1, <1>2, <1>3, <1>5, <1>6, <1>9, <1>12

(* The places of the receiving side. *)
LEMMA TakePlaces ==
  ASSUME NEW o \in Peer, NEW c, NEW q, NEW p, Takes(o, c, q), Room(p, q),
         NEW l, l = Pos(o, c.LO), NEW r, r = Pos(o, c.RCV), NEW h, h = Pos(o, c.HI)
  PROVE  /\ l \in Int /\ r \in Int /\ h \in Int /\ q.sent \in Nat
         /\ 1 <= l /\ l <= r - One(c.finrecv) /\ r <= h /\ h <= l + RCV_WND
         /\ c.finrecv => q.ended /\ r = q.sent + 2
         /\ ~c.finrecv => r <= q.sent + 1
         /\ Near(o, c.LO) /\ Near(o, c.RCV) /\ Near(o, c.HI)
         /\ c.got \in Seq(Nat) /\ Len(c.got) = l - 1
         /\ c.rcvd \in Seq(Nat) /\ Len(c.rcvd) = r - One(c.finrecv) - l
         /\ DataSize(c) = r - One(c.finrecv) - l
<1>1. c.LO \in Num /\ c.RCV \in Num /\ c.HI \in Num /\ c.finrecv \in BOOLEAN
  BY DEF Takes, RecvTypes
<1>2. l \in Int /\ r \in Int /\ h \in Int
  BY <1>1, PosType
<1>3. /\ 1 <= l /\ l <= r - One(c.finrecv) /\ r <= h /\ h <= l + RCV_WND
      /\ c.finrecv => q.ended /\ r = q.sent + 2
      /\ ~c.finrecv => r <= q.sent + 1
  BY DEF Takes, RecvOrder
<1>4. q.sent \in Nat /\ 2 * (q.sent + RCV_WND + 4) <= SeqSpace
  BY DEF Room
<1>5. 2 * l < SeqSpace /\ 2 * r < SeqSpace /\ 2 * h < SeqSpace
  BY <1>1, <1>2, <1>3, <1>4, Space DEF One
<1>6. Near(o, c.LO) /\ Near(o, c.RCV) /\ Near(o, c.HI)
  BY <1>1, <1>5 DEF Near
<1> DEFINE f == One(c.finrecv)
           x == l - 1
           y == r - 1 - f
<1>7. f \in {0, 1} /\ x \in Nat /\ y \in Nat /\ x <= y /\ 0 <= x
  BY <1>2, <1>3 DEF One
<1>8. c.got = Run(0, x) /\ c.rcvd = Run(x, y)
  BY DEF Takes
<1>9. Diff(c.RCV, c.LO) = r - l
  <2>1. Pos(o, c.RCV) >= Pos(o, c.LO) => Diff(c.RCV, c.LO) = Pos(o, c.RCV) - Pos(o, c.LO)
    BY <1>6, Compare
  <2> QED
    BY <1>2, <1>3, <1>7, <2>1
<1>10. DataSize(c) = r - f - l
  BY <1>2, <1>9 DEF DataSize, One
<1> HIDE DEF f, x, y
<1>11. Run(0, x) \in Seq(Nat) /\ Len(Run(0, x)) = x - 0
  BY <1>7, RunIs
<1>12. Run(x, y) \in Seq(Nat) /\ Len(Run(x, y)) = y - x
  BY <1>7, RunIs
<1>13. c.got \in Seq(Nat) /\ Len(c.got) = l - 1 /\ c.rcvd \in Seq(Nat) /\ Len(c.rcvd) = r - f - l
  <2>1. c.got \in Seq(Nat) /\ Len(c.got) = x /\ c.rcvd \in Seq(Nat) /\ Len(c.rcvd) = y - x
    BY <1>7, <1>8, <1>11, <1>12
  <2> QED
    BY <1>2, <1>7, <2>1 DEF x, y
<1> QED
  BY <1>2, <1>3, <1>4, <1>6, <1>10, <1>13 DEF f

LEMMA SendStep ==
  ASSUME NEW p \in Peer, NEW o \in Peer, NEW c, NEW q, Live(p, o, c, q),
         NEW t, NEW S, Keeps(c, t, S), S \cap (RecvFields \cup {"state", "connected"}) = {},
         MiscOK(p, t), Sends(p, t, q), c.sent <= t.sent, c.ended => t.ended /\ t.sent = c.sent
  PROVE  Moves(p, o, c, t, q)
<1>1. Recvs(o, t, q) /\ t.RCV = c.RCV /\ t.HI = c.HI /\ t.got = c.got
  BY RecvsFrame DEF Live
<1>2. t.state = c.state /\ t.connected = c.connected
  BY DEF Keeps, Names
<1>3. Live(p, o, t, q)
  BY <1>1, <1>2 DEF Live, Connected
<1>4. Grows(o, c, t)
  BY <1>1, <1>2, LiveTypes DEF Grows
<1> QED
  BY <1>3, <1>4 DEF Moves

LEMMA LiveReplies ==
  ASSUME NEW p \in Peer, NEW o \in Peer, NEW c, NEW q, Live(p, o, c, q), NEW r
  PROVE  /\ Moves(p, o, c, ReplyRead(c, r), q)
         /\ Moves(p, o, c, ReplyWrite(c, r), q)
         /\ Moves(p, o, c, ReplyIoctl(c, r), q)
<1>1. Full(c) /\ MiscOK(p, c) /\ Sends(p, c, q)
  BY DEF Live, MiscOK
<1>2. ASSUME NEW t, t = ReplyRead(c, r) PROVE Moves(p, o, c, t, q)
  <2>1. Keeps(c, t, ReplyReadFields)
    BY <1>1, <1>2, FrameReplies
  <2>2. t.reading = FALSE /\ t.rcount = 0
    BY <1>1, <1>2 DEF ReplyRead, Full, Names
  <2>3. /\ t.iss = c.iss /\ t.PSH = c.PSH /\ t.tseq = c.tseq /\ t.wcount = c.wcount
        /\ t.posted = c.posted /\ t.connected = c.connected
        /\ t.frag = c.frag /\ t.finsent = c.finsent /\ t.writing = c.writing
        /\ t.open = c.open /\ t.ioctl = c.ioctl
    BY <2>1 DEF Keeps, ReplyReadFields, Names
  <2>4. MiscOK(p, t)
    BY <1>1, <2>1, <2>2, <2>3 DEF MiscOK, Keeps
  <2>5. Sends(p, t, q) /\ t.sent = c.sent /\ t.ended = c.ended
    BY <1>1, <2>1, SendsFrame DEF ReplyReadFields, SendFields
  <2> QED
    BY <2>1, <2>4, <2>5, SendStep, LiveTypes DEF ReplyReadFields, RecvFields, TakeFields
<1>3. ASSUME NEW t, t = ReplyWrite(c, r) PROVE Moves(p, o, c, t, q)
  <2>1. Keeps(c, t, ReplyWriteFields)
    BY <1>1, <1>3, FrameReplies
  <2>2. t.writing = FALSE /\ t.wcount = 0
    BY <1>1, <1>3 DEF ReplyWrite, Full, Names
  <2>3. /\ t.iss = c.iss /\ t.PSH = c.PSH /\ t.tseq = c.tseq /\ t.rcount = c.rcount
        /\ t.posted = c.posted /\ t.connected = c.connected
        /\ t.frag = c.frag /\ t.finsent = c.finsent /\ t.reading = c.reading
        /\ t.open = c.open /\ t.ioctl = c.ioctl
    BY <2>1 DEF Keeps, ReplyWriteFields, Names
  <2>4. MiscOK(p, t)
    BY <1>1, <2>1, <2>2, <2>3 DEF MiscOK, Keeps
  <2>5. Sends(p, t, q) /\ t.sent = c.sent /\ t.ended = c.ended
    BY <1>1, <2>1, SendsFrame DEF ReplyWriteFields, SendFields
  <2> QED
    BY <2>1, <2>4, <2>5, SendStep, LiveTypes DEF ReplyWriteFields, RecvFields, TakeFields
<1>4. ASSUME NEW t, t = ReplyIoctl(c, r) PROVE Moves(p, o, c, t, q)
  <2>1. Keeps(c, t, ReplyIoctlFields)
    BY <1>1, <1>4, FrameReplies
  <2>2. t.ioctl = "none"
    BY <1>1, <1>4 DEF ReplyIoctl, Full, Names
  <2>3. /\ t.iss = c.iss /\ t.PSH = c.PSH /\ t.tseq = c.tseq /\ t.rcount = c.rcount
        /\ t.wcount = c.wcount /\ t.writing = c.writing
        /\ t.posted = c.posted /\ t.connected = c.connected
        /\ t.frag = c.frag /\ t.finsent = c.finsent /\ t.reading = c.reading /\ t.open = c.open
    BY <2>1 DEF Keeps, ReplyIoctlFields, Names
  <2>4. MiscOK(p, t)
    BY <1>1, <2>1, <2>2, <2>3 DEF MiscOK, Keeps
  <2>5. Sends(p, t, q) /\ t.sent = c.sent /\ t.ended = c.ended
    BY <1>1, <2>1, SendsFrame DEF ReplyIoctlFields, SendFields
  <2> QED
    BY <2>1, <2>4, <2>5, SendStep, LiveTypes DEF ReplyIoctlFields, RecvFields, TakeFields
<1> QED
  BY <1>2, <1>3, <1>4

(* tcp_fd_write(): what the window takes goes to the end of the queue. *)
LEMMA LiveCopyIn ==
  ASSUME NEW p \in Peer, NEW o \in Peer, NEW c, NEW q, Live(p, o, c, q), Room(p, q),
         ~c.finsent, NEW k \in Nat, k <= c.wcount, k <= SND_WND - Diff(c.NXT, c.UNA),
         NEW t, t = CopyIn(c, k)
  PROVE  Moves(p, o, c, t, q)
<1> DEFINE u == Pos(p, c.UNA)
           m == Pos(p, c.TRM)
           n == Pos(p, c.NXT)
           w == Pos(p, c.cwnd)
           a == Acked(p, c)
<1>1. MiscOK(p, c) /\ Sends(p, c, q) /\ Full(c) /\ SendTypes(c) /\ SendOrder(p, c, q)
  BY DEF Live, MiscOK, Sends
<1>2. /\ u \in Int /\ m \in Int /\ n \in Int /\ w \in Int
      /\ 1 <= u /\ u <= m /\ m <= n
      /\ n = 1 + c.sent + One(c.finsent) /\ u <= Heard(p, q)
      /\ Near(p, c.UNA) /\ Near(p, c.NXT)
      /\ a = (IF c.finsent /\ u = n THEN c.sent ELSE u - 1)
      /\ a \in Nat /\ a <= c.sent /\ c.sent - a <= SND_WND /\ c.sent \in Nat
  BY <1>1, SendPlaces
<1> HIDE DEF u, m, n, w, a
<1>3. a = u - 1 /\ n = 1 + c.sent
  BY <1>2 DEF One
<1>4. Diff(c.NXT, c.UNA) = n - u
  <2>1. Pos(p, c.NXT) >= Pos(p, c.UNA) => Diff(c.NXT, c.UNA) = Pos(p, c.NXT) - Pos(p, c.UNA)
    BY <1>2, Compare
  <2> QED
    BY <1>2, <2>1 DEF u, n
<1>5. k <= SND_WND - (n - u)
  BY <1>4
<1>6. Heard(p, q) \in Nat /\ 2 * (Heard(p, q) + SND_WND + RCV_WND + 2 * MSS + 2) <= SeqSpace
  BY DEF Room
<1>7. n + k >= 0 /\ n + k < SeqSpace /\ k <= SeqSpace /\ 0 - SeqSpace <= k
  BY <1>2, <1>3, <1>5, <1>6, Space
<1>8. Add(c.NXT, k) \in Num /\ Pos(p, Add(c.NXT, k)) = n + k
  <2>1. c.NXT \in Num /\ - SeqSpace <= k
    BY <1>1, <1>7, Space DEF SendTypes
  <2> QED
    BY <1>7, <2>1, PosAdd DEF n
<1>9. Keeps(c, t, CopyInFields)
  BY <1>1, FrameCopyIn
<1>10. /\ t.sendq = c.sendq \o [i \in 1..k |-> c.sent + i] /\ t.sent = c.sent + k
       /\ t.NXT = Add(c.NXT, k) /\ t.wcount = c.wcount - k
       /\ t.PSH = IF k > 0 /\ k = c.wcount THEN Add(c.NXT, k) ELSE c.PSH
  BY <1>1 DEF CopyIn, Full, Names
<1>11. /\ t.UNA = c.UNA /\ t.TRM = c.TRM /\ t.cwnd = c.cwnd /\ t.cthresh = c.cthresh
       /\ t.finsent = c.finsent /\ t.ended = c.ended /\ t.iss = c.iss /\ t.tseq = c.tseq
       /\ t.rcount = c.rcount /\ t.posted = c.posted /\ t.connected = c.connected
       /\ t.frag = c.frag /\ t.writing = c.writing
       /\ t.reading = c.reading /\ t.open = c.open /\ t.ioctl = c.ioctl
  BY <1>9 DEF Keeps, CopyInFields, Names
<1>12. MiscOK(p, t)
  <2>1. t.wcount \in Nat
    BY <1>1, <1>10 DEF MiscOK
  <2>2. t.PSH \in Num
    BY <1>1, <1>8, <1>10 DEF MiscOK
  <2> QED
    BY <1>1, <1>9, <1>11, <2>1, <2>2 DEF MiscOK, Keeps
<1>13. SendTypes(t)
  BY <1>1, <1>2, <1>8, <1>10, <1>11 DEF SendTypes
<1>14. Acked(p, t) = a
  BY <1>3, <1>11 DEF Acked, u
<1>15. SendOrder(p, t, q)
  <2>1. /\ Pos(p, t.UNA) = u /\ Pos(p, t.TRM) = m /\ Pos(p, t.NXT) = n + k
        /\ Pos(p, t.cwnd) = w
    BY <1>8, <1>10, <1>11 DEF u, m, n, w
  <2>2. n + k = 1 + t.sent + One(t.finsent) /\ m <= n + k /\ t.sent - a <= SND_WND
    <3>1. t.sent = c.sent + k /\ One(t.finsent) = 0
      BY <1>10, <1>11 DEF One
    <3>2. c.sent + k - a <= SND_WND
      BY <1>2, <1>3, <1>5, Space
    <3> QED
      BY <1>2, <1>3, <3>1, <3>2
  <2>3. m <= w /\ w <= u + 2 * MSS + RCV_WND
    BY <1>1 DEF SendOrder, m, w, u
  <2> QED
    BY <1>1, <1>2, <1>11, <1>14, <2>1, <2>2, <2>3 DEF SendOrder
<1>16. t.sendq = Run(Acked(p, t), t.sent)
  <2>1. c.sendq = Run(a, c.sent)
    BY <1>1 DEF Sends, a
  <2>2. [i \in 1..k |-> c.sent + i] = Run(c.sent, c.sent + k)
    BY <1>2, RunTaken
  <2> DEFINE e == c.sent + k
  <2>3. e \in Nat /\ c.sent <= e
    BY <1>2
  <2> HIDE DEF e
  <2>4. Run(a, c.sent) \o Run(c.sent, e) = Run(a, e)
    BY <1>2, <2>3, RunNext
  <2> QED
    BY <1>10, <1>14, <2>1, <2>2, <2>4 DEF e
<1>17. Sends(p, t, q)
  BY <1>13, <1>15, <1>16 DEF Sends
<1>18. c.sent <= t.sent /\ ~c.ended
  BY <1>1, <1>2, <1>10 DEF SendOrder
<1> QED
  BY <1>9, <1>12, <1>17, <1>18, SendStep DEF CopyInFields, RecvFields, TakeFields

LEMMA LiveSendFin ==
  ASSUME NEW p \in Peer, NEW o \in Peer, NEW c, NEW q, Live(p, o, c, q), Room(p, q),
         ~c.writing
  PROVE  Moves(p, o, c, SendFin(c), q)
<1>1. CASE c.finsent
  BY <1>1, MovesSelf DEF SendFin
<1>2. CASE ~c.finsent
  <2> DEFINE t == SendFin(c)
             u == Pos(p, c.UNA)
             m == Pos(p, c.TRM)
             n == Pos(p, c.NXT)
             w == Pos(p, c.cwnd)
             a == Acked(p, c)
  <2>1. MiscOK(p, c) /\ Sends(p, c, q) /\ Full(c) /\ SendTypes(c) /\ SendOrder(p, c, q)
    BY DEF Live, MiscOK, Sends
  <2>2. /\ u \in Int /\ m \in Int /\ n \in Int /\ w \in Int
        /\ 1 <= u /\ u <= m /\ m <= n /\ m <= w /\ w <= u + 2 * MSS + RCV_WND
        /\ n = 1 + c.sent + One(c.finsent) /\ u <= Heard(p, q) /\ n <= u + SND_WND + 1
        /\ a = (IF c.finsent /\ u = n THEN c.sent ELSE u - 1)
        /\ a \in Nat /\ a <= c.sent /\ c.sent - a <= SND_WND /\ c.sent \in Nat
    BY <2>1, SendPlaces
  <2> HIDE DEF u, m, n, w, a
  <2>3. Heard(p, q) \in Nat /\ 2 * (Heard(p, q) + SND_WND + RCV_WND + 2 * MSS + 2) <= SeqSpace
    BY DEF Room
  <2>4. n + 1 >= 0 /\ n + 1 < SeqSpace /\ 1 <= SeqSpace /\ - SeqSpace <= 1
    BY <2>2, <2>3, Space
  <2>5. Add(c.NXT, 1) \in Num /\ Pos(p, Add(c.NXT, 1)) = n + 1
    <3>1. c.NXT \in Num
      BY <2>1 DEF SendTypes
    <3> QED
      BY <2>4, <3>1, PosAdd DEF n
  <2>6. t = [c EXCEPT !.finsent = TRUE, !.NXT = Add(@, 1), !.ended = TRUE, !.more = TRUE,
                      !.timer = TRUE, !.stt = TRUE]
    BY <1>2, <2>1 DEF SendFin, tcp_conn_write, tcp_set_send_timer, Full, Names
  <2> HIDE DEF t
  <2>7. Keeps(c, t, FinFields)
    BY <2>1, <2>6 DEF Full, Keeps, FinFields
  <2>8. t.finsent = TRUE /\ t.ended = TRUE /\ t.NXT = Add(c.NXT, 1)
    BY <2>1, <2>6 DEF Full, Names
  <2>9. /\ t.UNA = c.UNA /\ t.TRM = c.TRM /\ t.cwnd = c.cwnd /\ t.cthresh = c.cthresh
        /\ t.sendq = c.sendq /\ t.sent = c.sent /\ t.iss = c.iss /\ t.tseq = c.tseq
        /\ t.rcount = c.rcount /\ t.posted = c.posted /\ t.connected = c.connected
        /\ t.frag = c.frag /\ t.writing = c.writing /\ t.wcount = c.wcount /\ t.PSH = c.PSH
        /\ t.reading = c.reading /\ t.open = c.open /\ t.ioctl = c.ioctl
    BY <2>7 DEF Keeps, FinFields, Names
  <2>10. MiscOK(p, t)
    BY <2>1, <2>7, <2>9 DEF MiscOK, Keeps
  <2>11. SendTypes(t)
    BY <2>1, <2>5, <2>8, <2>9 DEF SendTypes
  <2>12. t.UNA # t.NXT
    BY <2>2, <2>5, <2>8, <2>9 DEF u
  <2>13. Acked(p, t) = a /\ a = u - 1
    BY <1>2, <2>2, <2>9, <2>12 DEF Acked, u
  <2>14. SendOrder(p, t, q)
    <3>1. /\ Pos(p, t.UNA) = u /\ Pos(p, t.TRM) = m /\ Pos(p, t.NXT) = n + 1
          /\ Pos(p, t.cwnd) = w
      BY <2>5, <2>8, <2>9 DEF u, m, n, w
    <3>2. n + 1 = 1 + t.sent + One(t.finsent) /\ m <= n + 1
      BY <1>2, <2>2, <2>8, <2>9 DEF One
    <3> QED
      BY <2>2, <2>8, <2>9, <2>13, <3>1, <3>2 DEF SendOrder
  <2>15. Sends(p, t, q)
    BY <2>1, <2>9, <2>11, <2>13, <2>14 DEF Sends, a
  <2>16. c.sent <= t.sent
    BY <2>2, <2>9
  <2>17. Moves(p, o, c, t, q)
    BY <2>7, <2>8, <2>9, <2>10, <2>15, <2>16, SendStep DEF FinFields, RecvFields, TakeFields
  <2> QED
    BY <2>17 DEF t
<1> QED
  BY <1>1, <1>2

LEMMA LiveFdWrite ==
  ASSUME NEW p \in Peer, NEW o \in Peer, NEW c, NEW q, Live(p, o, c, q), Room(p, q),
         c.writing \/ c.ioctl # "none"
  PROVE  Moves(p, o, c, tcp_fd_write(c), q)
<1>1. /\ c.state # "CLOSED" /\ Full(c) /\ Sends(p, c, q)
      /\ c.finsent => ~c.writing
      /\ c.ioctl = "SHUTDOWN" => ~c.writing
      /\ c.wcount \in Nat
  BY DEF Live, MiscOK, Connected
<1>2. CASE c.ioctl # "none" /\ ~c.writing
  <2>1. tcp_fd_write(c) = FdIoctl(c)
    BY <1>2 DEF tcp_fd_write
  <2>2. FdIoctl(c) \in {c, SendFin(c), ReplyIoctl(c, "OK")}
    <3>1. CASE c.ioctl # "SHUTDOWN"
      BY <3>1 DEF FdIoctl
    <3>2. CASE c.ioctl = "SHUTDOWN" /\ ~c.finsent
      BY <1>1, <3>2 DEF FdIoctl
    <3>3. CASE c.ioctl = "SHUTDOWN" /\ c.finsent
      BY <1>1, <3>3 DEF FdIoctl
    <3> QED
      BY <3>1, <3>2, <3>3
  <2> QED
    BY <1>2, <2>1, <2>2, MovesSelf, LiveSendFin, LiveReplies
<1>3. CASE c.writing
  <2> DEFINE room == SND_WND - Diff(c.NXT, c.UNA)
             k == c.wcount
             t1 == CopyIn(c, k)
             t2 == CopyIn(c, room)
  <2>1. tcp_fd_write(c) = IF k <= room THEN ReplyWrite(t1, "ok") ELSE t2
    BY <1>1, <1>3 DEF tcp_fd_write, FdCopyIn
  <2>2. ~c.finsent
    BY <1>1, <1>3
  <2>3. room \in Nat
    <3> DEFINE u == Pos(p, c.UNA)
               n == Pos(p, c.NXT)
    <3>1. /\ u \in Int /\ n \in Int /\ 1 <= u /\ u <= Pos(p, c.TRM) /\ Pos(p, c.TRM) <= n
          /\ Pos(p, c.TRM) \in Int
          /\ n = 1 + c.sent + One(c.finsent)
          /\ Near(p, c.UNA) /\ Near(p, c.NXT)
          /\ Acked(p, c) = (IF c.finsent /\ u = n THEN c.sent ELSE u - 1)
          /\ c.sent - Acked(p, c) <= SND_WND /\ c.sent \in Nat
      BY <1>1, SendPlaces
    <3>2. n >= u => Diff(c.NXT, c.UNA) = n - u
      BY <3>1, Compare
    <3> HIDE DEF u, n
    <3> QED
      BY <2>2, <3>1, <3>2, Space DEF One
  <2>4. ASSUME k <= room PROVE Moves(p, o, c, ReplyWrite(t1, "ok"), q)
    <3>1. Moves(p, o, c, t1, q)
      BY <1>1, <2>2, <2>4, LiveCopyIn
    <3> HIDE DEF t1
    <3>2. Moves(p, o, t1, ReplyWrite(t1, "ok"), q)
      BY <3>1, LiveReplies DEF Moves
    <3> QED
      BY <3>1, <3>2, MovesTrans
  <2>5. ASSUME ~(k <= room) PROVE Moves(p, o, c, t2, q)
    <3>1. room <= c.wcount
      BY <1>1, <2>3, <2>5
    <3>2. room <= SND_WND - Diff(c.NXT, c.UNA)
      BY <2>3
    <3> HIDE DEF room
    <3> QED
      BY <2>2, <2>3, <3>1, <3>2, LiveCopyIn
  <2> HIDE DEF t1, t2, k, room
  <2> QED
    BY <2>1, <2>4, <2>5
<1> QED
  BY <1>2, <1>3

\* The send window and what is sent next move within what is not acknowledged.
LEMMA LiveWindow ==
  ASSUME NEW p \in Peer, NEW o \in Peer, NEW c, NEW q, Live(p, o, c, q),
         NEW t, NEW S, Keeps(c, t, S), S \cap (LiveFields \ {"TRM", "cwnd", "cthresh"}) = {},
         t.TRM \in Num, t.cwnd \in Num, t.cthresh \in Nat,
         Pos(p, c.UNA) <= Pos(p, t.TRM), Pos(p, t.TRM) <= Pos(p, c.NXT),
         Pos(p, t.TRM) <= Pos(p, t.cwnd),
         Pos(p, t.cwnd) <= Pos(p, c.UNA) + 2 * MSS + RCV_WND
  PROVE  Moves(p, o, c, t, q)
<1>1. MiscOK(p, c) /\ Sends(p, c, q) /\ SendTypes(c) /\ SendOrder(p, c, q)
  BY DEF Live, Sends
<1>2. S \cap MiscFields = {} /\ S \cap (RecvFields \cup {"state", "connected"}) = {}
  BY DEF LiveFields, MiscFields, RecvFields, TakeFields
<1>3. MiscOK(p, t)
  BY <1>1, <1>2, MiscFrame
<1>4. {"UNA", "NXT", "sent", "finsent", "ended", "sendq"} \subseteq Names \ S
  BY DEF LiveFields, SendFields, Names
<1>5. /\ t.UNA = c.UNA /\ t.NXT = c.NXT /\ t.sent = c.sent /\ t.finsent = c.finsent
      /\ t.ended = c.ended /\ t.sendq = c.sendq
  BY <1>4 DEF Keeps
<1>6. SendTypes(t)
  BY <1>1, <1>5 DEF SendTypes
<1>7. Acked(p, t) = Acked(p, c)
  BY <1>5 DEF Acked
<1>8. SendOrder(p, t, q)
  BY <1>1, <1>5, <1>7 DEF SendOrder
<1>9. Sends(p, t, q)
  BY <1>1, <1>5, <1>6, <1>7, <1>8 DEF Sends
<1>10. c.sent <= t.sent
  BY <1>1, <1>5 DEF SendTypes
<1> QED
  BY <1>2, <1>3, <1>5, <1>9, <1>10, SendStep

LEMMA CincNat == cinc \in Nat
<1>1. MSS * MSS \in Nat /\ SND_WND \in Nat \ {0}
  BY Space
<1> DEFINE m == MSS * MSS
<1> HIDE DEF m
<1>2. m \div SND_WND \in Nat
  BY <1>1 DEF m
<1> QED
  BY <1>2 DEF cinc, m

LEMMA WindowIs ==
  ASSUME NEW c, c.cthresh \in Nat, c.cwnd \in Num, c.UNA \in Num, NEW wnd \in Nat
  PROVE  /\ AckWindow(c, wnd).thresh \in Nat
         /\ AckWindow(c, wnd).window \in Nat /\ AckWindow(c, wnd).window <= wnd
<1>1. Diff(c.cwnd, c.UNA) \in Num /\ MSS \in Nat /\ cinc \in Nat
  BY DiffIs, Space, CincNat
<1>2. Diff(c.cwnd, c.UNA) + MSS \in Nat
  BY <1>1 DEF Num
<1> DEFINE grown == Diff(c.cwnd, c.UNA) + MSS
<1> HIDE DEF grown
<1>3. /\ AckWindow(c, wnd).thresh = IF grown > c.cthresh THEN c.cthresh + cinc ELSE c.cthresh
      /\ AckWindow(c, wnd).window =
           IF (IF grown > c.cthresh
               THEN (IF grown > c.cthresh THEN c.cthresh + cinc ELSE c.cthresh) ELSE grown) > wnd
           THEN wnd
           ELSE IF grown > c.cthresh
                THEN (IF grown > c.cthresh THEN c.cthresh + cinc ELSE c.cthresh) ELSE grown
  BY DEF AckWindow, grown
<1> QED
  BY <1>1, <1>2, <1>3 DEF grown

(* tcp_release_retrans(): what was acknowledged leaves the queue. *)
LEMMA LiveReleased ==
  ASSUME NEW p \in Peer, NEW o \in Peer, NEW c, NEW q, Live(p, o, c, q), Room(p, q),
         NEW ack \in Num, Lmod4G(c.UNA, ack), LEmod4G(ack, c.NXT), Pos(p, ack) <= Heard(p, q),
         NEW wnd \in 0 .. RCV_WND,
         NEW t, t = BackInWindow(Released(c, ack, wnd))
  PROVE  Moves(p, o, c, t, q)
<1> DEFINE u == Pos(p, c.UNA)
           m == Pos(p, c.TRM)
           n == Pos(p, c.NXT)
           w == Pos(p, c.cwnd)
           a == Acked(p, c)
           k == Pos(p, ack)
           f == One(c.finsent)
<1>1. /\ MiscOK(p, c) /\ Sends(p, c, q) /\ Full(c) /\ SendTypes(c) /\ SendOrder(p, c, q)
      /\ c.iss = ISS[p]
  BY DEF Live, MiscOK, Sends
<1>2. /\ u \in Int /\ m \in Int /\ n \in Int /\ w \in Int
      /\ 1 <= u /\ u <= m /\ m <= n /\ m <= w /\ w <= u + 2 * MSS + RCV_WND
      /\ n = 1 + c.sent + f /\ u <= Heard(p, q) /\ n <= u + SND_WND + 1
      /\ a = (IF c.finsent /\ u = n THEN c.sent ELSE u - 1)
      /\ a \in Nat /\ a <= c.sent /\ c.sent - a <= SND_WND /\ c.sent \in Nat
      /\ Near(p, c.UNA) /\ Near(p, c.TRM) /\ Near(p, c.NXT) /\ Near(p, c.cwnd)
      /\ Len(c.sendq) = c.sent - a
  BY <1>1, SendPlaces
<1>3. Heard(p, q) \in Nat /\ 2 * (Heard(p, q) + SND_WND + RCV_WND + 2 * MSS + 2) <= SeqSpace
  BY DEF Room
<1>4. k \in Int /\ k >= 0 /\ 2 * k < SeqSpace /\ Near(p, ack)
  <2>1. k \in Int /\ k >= 0
    BY PosType
  <2>2. 2 * k < SeqSpace
    BY <1>3, <2>1, Space
  <2> QED
    BY <2>1, <2>2 DEF Near
<1>5. u < k /\ k <= n /\ (ack = c.NXT <=> k = n)
  <2>1. Lmod4G(c.UNA, ack) <=> Pos(p, c.UNA) < Pos(p, ack)
    BY <1>2, <1>4, Compare
  <2>2. LEmod4G(ack, c.NXT) <=> Pos(p, ack) <= Pos(p, c.NXT)
    BY <1>2, <1>4, Compare
  <2>3. ack = c.NXT <=> Pos(p, ack) = Pos(p, c.NXT)
    BY <1>2, <1>4, Compare
  <2> QED
    BY <2>1, <2>2, <2>3
<1>6. c.UNA # c.iss
  BY <1>1, <1>2, PosStart
<1> DEFINE lo == IF c.UNA = c.iss THEN Add(c.UNA, 1) ELSE c.UNA
           fin == IF c.finsent THEN 1 ELSE 0
           acked == IF c.finsent /\ ack = c.NXT THEN Add(ack, -1) ELSE ack
           b == IF c.finsent /\ k = n THEN k - 1 ELSE k
           size == Diff(Add(c.NXT, -fin), acked)
           aw == AckWindow(c, wnd)
           win == IF size = 0 THEN 2 * MSS ELSE aw.window
           rel == Released(c, ack, wnd)
<1>30. f \in Int /\ (f = 0 \/ f = 1)
  BY DEF One
<1>7. lo = c.UNA /\ fin = f
  BY <1>6 DEF One
<1> HIDE DEF u, m, n, w, a, k, f
<1>31. /\ u \in Int /\ n \in Int /\ c.sent \in Nat /\ a \in Nat /\ 1 <= u /\ u <= n
       /\ n = 1 + c.sent + f /\ u <= Heard(p, q) /\ n <= u + SND_WND + 1
  BY <1>2
<1> HIDE DEF lo, size, aw, win, rel
<1>8. acked \in Num /\ Pos(p, acked) = b /\ Near(p, acked)
  <2>1. CASE c.finsent /\ k = n
    <3>1. Add(ack, -1) \in Num /\ Pos(p, Add(ack, -1)) = k - 1
      <4>1. -1 \in Int /\ - SeqSpace <= -1 /\ -1 <= SeqSpace /\ 0 <= k + (-1)
            /\ k + (-1) < SeqSpace
        BY <1>31, <1>4, <1>5, Space
      <4>2. Add(ack, -1) \in Num /\ Pos(p, Add(ack, -1)) = k + (-1)
        BY <4>1, PosAdd DEF k
      <4> QED
        BY <1>4, <4>2
    <3>2. acked = Add(ack, -1) /\ b = k - 1
      BY <1>5, <2>1
    <3> QED
      BY <1>3, <1>4, <3>1, <3>2, Space DEF Near, k
  <2>2. CASE ~(c.finsent /\ k = n)
    BY <1>4, <1>5, <2>2 DEF k
  <2> QED
    BY <2>1, <2>2
<1>9. Add(c.NXT, -fin) \in Num /\ Pos(p, Add(c.NXT, -fin)) = 1 + c.sent
      /\ Near(p, Add(c.NXT, -fin))
  <2> DEFINE z == -fin
  <2>1. z \in Int /\ z = 0 - f
    BY <1>7, <1>30
  <2> HIDE DEF z
  <2>2. c.NXT \in Num
    BY <1>1 DEF SendTypes
  <2>7. - SeqSpace <= z /\ z <= SeqSpace /\ 0 <= n + z /\ n + z < SeqSpace
    BY <1>31, <1>3, <1>30, <2>1, Space
  <2>3. Add(c.NXT, z) \in Num /\ Pos(p, Add(c.NXT, z)) = n + z
    BY <2>1, <2>2, <2>7, PosAdd DEF n
  <2>4. n + z = 1 + c.sent
    BY <1>31, <1>30, <2>1
  <2>5. 2 * (1 + c.sent) < SeqSpace
    <3>1. 1 + c.sent <= Heard(p, q) + SND_WND + 1
      BY <1>31, <1>3, <1>30, Space
    <3> QED
      BY <1>31, <1>3, <3>1, Space
  <2>6. Add(c.NXT, z) \in Num /\ Pos(p, Add(c.NXT, z)) = 1 + c.sent /\ Near(p, Add(c.NXT, z))
    BY <2>3, <2>4, <2>5 DEF Near
  <2> QED
    BY <2>6 DEF z
<1>10. b <= 1 + c.sent /\ u <= b /\ b \in Int
  BY <1>31, <1>4, <1>5, <1>30 DEF f, One
<1>11. size = 1 + c.sent - b
  <2> DEFINE e == Add(c.NXT, -fin)
  <2>1. e \in Num /\ Pos(p, e) = 1 + c.sent /\ Near(p, e)
    BY <1>9
  <2> HIDE DEF e, acked, b
  <2>2. Pos(p, e) >= Pos(p, acked) => Diff(e, acked) = Pos(p, e) - Pos(p, acked)
    BY <1>8, <2>1, Compare
  <2>3. size = Diff(e, acked)
    BY DEF e, size
  <2> QED
    BY <1>8, <1>10, <1>31, <2>1, <2>2, <2>3
<1>12. Diff(acked, lo) = b - u
  <2> HIDE DEF acked, b
  <2>1. Pos(p, acked) >= Pos(p, c.UNA) => Diff(acked, c.UNA) = Pos(p, acked) - Pos(p, c.UNA)
    BY <1>2, <1>8, Compare
  <2> QED
    BY <1>7, <1>8, <1>10, <2>1 DEF u
<1> HIDE DEF acked, fin
<1>13. aw.thresh \in Nat /\ win \in Int /\ 0 <= win /\ win <= 2 * MSS + RCV_WND
  <2>1. aw.thresh \in Nat /\ aw.window \in Nat /\ aw.window <= wnd
    BY <1>1, WindowIs, Space DEF SendTypes, aw
  <2> QED
    BY <2>1, Space DEF win
<1> DEFINE cw == Add(ack, win)
<1>14. cw \in Num /\ Pos(p, cw) = k + win /\ Near(p, cw)
  <2>1. - SeqSpace <= win /\ win <= SeqSpace /\ 0 <= k + win /\ 2 * (k + win) < SeqSpace
    BY <1>3, <1>4, <1>13, Space DEF k
  <2>2. Add(ack, win) \in Num /\ Pos(p, Add(ack, win)) = k + win
    <3>1. k + win < SeqSpace
      BY <1>4, <1>13, <2>1, Space
    <3> QED
      BY <1>13, <2>1, <3>1, PosAdd DEF k
  <2> QED
    BY <2>1, <2>2 DEF Near
<1> DEFINE tr == IF Lmod4G(c.TRM, ack) THEN ack ELSE c.TRM
           x == IF m < k THEN k ELSE m
<1>15. tr \in Num /\ Pos(p, tr) = x /\ Near(p, tr)
  <2>1. Lmod4G(c.TRM, ack) <=> Pos(p, c.TRM) < Pos(p, ack)
    BY <1>2, <1>4, Compare
  <2> QED
    BY <1>1, <1>2, <1>4, <2>1 DEF m, k, SendTypes
<1> DEFINE sq == IF size = 0 THEN <<>> ELSE SubSeq(c.sendq, Diff(acked, lo) + 1, Len(c.sendq))
<1>16. rel = [c EXCEPT !.cthresh = aw.thresh, !.UNA = ack, !.TRM = tr, !.cwnd = cw, !.sendq = sq]
  BY DEF Released, rel, lo, fin, acked, size, aw, win
<1>17. sq = Run(b - 1, c.sent)
  <2> HIDE DEF b
  <2>1. a = u - 1 /\ c.sendq = Run(a, c.sent)
    BY <1>1, <1>2, <1>4, <1>5 DEF Sends, a
  <2> DEFINE i == b - u + 1
             j == c.sent - a
  <2>2. i \in Nat \ {0} /\ j \in Nat /\ i <= j + 1 /\ a + i - 1 = b - 1 /\ a + j = c.sent
        /\ j <= c.sent - a
    BY <1>31, <1>10, <2>1
  <2> HIDE DEF i, j
  <2>3. SubSeq(Run(a, c.sent), i, j) = Run(a + i - 1, a + j)
    <3>1. a <= c.sent
      BY <1>2
    <3> QED
      BY <1>31, <2>2, <3>1, RunPart
  <2>4. SubSeq(c.sendq, i, Len(c.sendq)) = Run(b - 1, c.sent)
    BY <1>2, <2>1, <2>2, <2>3 DEF j
  <2>5. CASE size = 0
    <3>1. b - 1 = c.sent
      BY <1>31, <1>10, <1>11, <2>5
    <3>2. Run(c.sent, c.sent) = <<>>
      BY <1>2, RunEmpty
    <3> QED
      BY <2>5, <3>1, <3>2
  <2>6. CASE size # 0
    BY <1>12, <2>4, <2>6 DEF i
  <2> QED
    BY <2>5, <2>6
<1> HIDE DEF lo, fin, acked, size, aw, win, cw, tr, sq, rel
<1> DEFINE tr2 == IF Gmod4G(tr, cw) THEN cw ELSE tr
           y == IF x > k + win THEN k + win ELSE x
<1>18. tr2 \in Num /\ Pos(p, tr2) = y
  <2>1. Gmod4G(tr, cw) <=> Pos(p, tr) > Pos(p, cw)
    BY <1>14, <1>15, Compare
  <2> QED
    BY <1>14, <1>15, <2>1
<1> HIDE DEF tr2
<1>19. /\ Keeps(c, rel, RelFields)
       /\ rel.TRM = tr /\ rel.cwnd = cw /\ rel.UNA = ack /\ rel.sendq = sq /\ rel.cthresh = aw.thresh
  <2>1. Keeps(c, rel, RelFields)
    BY <1>1, <1>16 DEF Full, Keeps, RelFields
  <2>2. rel.TRM = tr /\ rel.cwnd = cw /\ rel.UNA = ack /\ rel.sendq = sq /\ rel.cthresh = aw.thresh
    BY <1>1, <1>16 DEF Full, Names
  <2> QED
    BY <2>1, <2>2
<1>20. t = [rel EXCEPT !.TRM = tr2]
  BY <1>19 DEF BackInWindow, rel, tr2
<1>21. Keeps(rel, t, {"TRM"}) /\ t.TRM = tr2
  BY <1>19, <1>20 DEF Full, Keeps, Names
<1>22. /\ Keeps(c, t, RelFields)
       /\ t.TRM = tr2 /\ t.cwnd = cw /\ t.UNA = ack /\ t.sendq = sq /\ t.cthresh = aw.thresh
  <2>1. Keeps(c, t, RelFields)
    BY <1>19, <1>21 DEF Keeps, RelFields
  <2>2. t.cwnd = rel.cwnd /\ t.UNA = rel.UNA /\ t.sendq = rel.sendq /\ t.cthresh = rel.cthresh
    BY <1>21 DEF Keeps, Names
  <2> QED
    BY <1>19, <1>21, <2>1, <2>2
<1>23. t.NXT = c.NXT /\ t.sent = c.sent /\ t.finsent = c.finsent /\ t.ended = c.ended
  BY <1>22 DEF Keeps, RelFields, Names
<1>24. MiscOK(p, t)
  BY <1>1, <1>22, MiscFrame DEF RelFields, MiscFields
<1>25. SendTypes(t)
  BY <1>1, <1>13, <1>14, <1>18, <1>22, <1>23 DEF SendTypes
<1>26. Acked(p, t) = b - 1
  <2>1. Pos(p, t.UNA) = k /\ (t.UNA = t.NXT <=> k = n)
    BY <1>5, <1>22, <1>23 DEF k
  <2> QED
    BY <1>2, <1>4, <1>23, <2>1 DEF Acked, f, One
<1>27. SendOrder(p, t, q)
  <2>1. /\ Pos(p, t.UNA) = k /\ Pos(p, t.TRM) = y /\ Pos(p, t.NXT) = n
        /\ Pos(p, t.cwnd) = k + win
    BY <1>14, <1>18, <1>22, <1>23 DEF k, n
  <2>2. x \in Int /\ k <= x /\ x <= n
    BY <1>2, <1>4, <1>5
  <2> HIDE DEF x
  <2>3. k <= y /\ y <= n /\ y <= k + win /\ k + win <= k + 2 * MSS + RCV_WND
    BY <1>2, <1>4, <1>5, <1>13, <2>2, Space
  <2>4. t.sent - (b - 1) <= SND_WND
    BY <1>2, <1>4, <1>5, <1>10, <1>23, Space
  <2>5. c.finsent = c.ended /\ n = 1 + t.sent + One(t.finsent)
    BY <1>1, <1>2, <1>23 DEF SendOrder, f
  <2>6. 1 <= k /\ k <= Heard(p, q)
    BY <1>2, <1>4, <1>5 DEF k
  <2> HIDE DEF y, b
  <2> QED
    BY <1>23, <1>26, <2>1, <2>3, <2>4, <2>5, <2>6 DEF SendOrder
<1>28. Sends(p, t, q)
  BY <1>17, <1>22, <1>23, <1>25, <1>26, <1>27 DEF Sends
<1>29. c.sent <= t.sent
  BY <1>2, <1>23
<1> QED
  BY <1>22, <1>23, <1>24, <1>28, <1>29, SendStep DEF RelFields, RecvFields, TakeFields

\* A block no connection has been made on holds nothing.
Fresh(c) ==
  /\ c.sent = 0 /\ ~c.ended /\ ~c.finsent /\ ~c.finrecv /\ c.got = <<>>
  /\ c.rcvd = <<>> /\ c.adv = <<>> /\ c.sendq = <<>>
  /\ ~c.reading /\ ~c.writing /\ c.eof = FALSE /\ c.shut = "no" /\ c.ioctl # "SHUTDOWN"

\* What a connection that is over has handed to its program.
Rest(o, c, q) ==
  /\ c.got = Run(0, Len(c.got)) /\ Len(c.got) \in Nat /\ Len(c.got) <= q.sent
  /\ 1 <= Pos(o, c.RCV) /\ Pos(o, c.RCV) <= q.sent + 1 + One(q.ended)

\* A block whose connection is over, or that never had one.
Over(p, o, c, q) ==
  /\ MiscOK(p, c) /\ c.state = "CLOSED" /\ SendTypes(c) /\ RecvTypes(c)
  /\ c.rcvd = <<>> /\ c.adv = <<>> /\ c.sendq = <<>>
  /\ c.connected => Rest(o, c, q)
  /\ ~c.connected => Fresh(c)

\* A step that may end the connection.
Settles(p, o, c, t, q) == (Live(p, o, t, q) \/ Over(p, o, t, q)) /\ Grows(o, c, t)

(* What Grows compares is of the type it compares. *)
Sized(o, c) ==
  /\ c.sent \in Nat /\ Len(c.got) \in Nat
  /\ Pos(o, c.RCV) \in Nat /\ Pos(o, c.HI) \in Nat

LEMMA SizedAre ==
  ASSUME NEW p \in Peer, NEW o \in Peer, NEW c, NEW q, Live(p, o, c, q) \/ Over(p, o, c, q)
  PROVE  Sized(o, c)
<1>1. CASE Live(p, o, c, q)
  BY <1>1, LiveTypes DEF Sized
<1>2. CASE Over(p, o, c, q)
  <2>1. c.RCV \in Num /\ c.HI \in Num /\ c.sent \in Nat
    BY <1>2 DEF Over, RecvTypes, SendTypes
  <2>2. Pos(o, c.RCV) \in Nat /\ Pos(o, c.HI) \in Nat
    <3>1. Pos(o, c.RCV) \in Num /\ Pos(o, c.HI) \in Num
      BY <2>1, PosType
    <3> QED
      BY <3>1, Space DEF Num
  <2>3. Len(c.got) \in Nat
    <3>1. CASE c.connected
      BY <1>2, <3>1 DEF Over, Rest
    <3>2. CASE ~c.connected
      <4>1. c.got = <<>>
        BY <1>2, <3>2 DEF Over, Fresh
      <4> QED
        BY <4>1
    <3>3. c.connected \in BOOLEAN
      BY <1>2 DEF Over, MiscOK
    <3> QED
      BY <3>1, <3>2, <3>3
  <2> QED
    BY <2>1, <2>2, <2>3 DEF Sized
<1> QED
  BY <1>1, <1>2

LEMMA GrowsTrans ==
  ASSUME NEW o \in Peer, NEW c, NEW t, NEW u, Sized(o, c), Sized(o, t), Sized(o, u),
         Grows(o, c, t), Grows(o, t, u)
  PROVE  Grows(o, c, u)
BY SMTT(20) DEF Grows, Sized

LEMMA SettlesTrans ==
  ASSUME NEW p \in Peer, NEW o \in Peer, NEW c, NEW t, NEW u, NEW q, Live(p, o, c, q),
         Moves(p, o, c, t, q), Settles(p, o, t, u, q)
  PROVE  Settles(p, o, c, u, q)
<1>1. Sized(o, c) /\ Sized(o, t) /\ Sized(o, u)
  BY SizedAre DEF Moves, Settles
<1> QED
  BY <1>1, GrowsTrans DEF Moves, Settles

LEMMA MovesSettle ==
  ASSUME NEW p \in Peer, NEW o \in Peer, NEW c, NEW t, NEW q, Moves(p, o, c, t, q)
  PROVE  Settles(p, o, c, t, q)
BY DEF Moves, Settles

(* tcp_close_connection() on a connection that is up. *)
LEMMA EndedMisc ==
  ASSUME NEW p \in Peer, NEW c, NEW t, NEW err, MiscOK(p, c), Ended(c, t, err),
         Replied(c, t, err), c.UNA \in Num
  PROVE  MiscOK(p, t) /\ t.connected = c.connected
<1>1. /\ t.iss = c.iss /\ t.PSH = c.PSH /\ t.posted = c.posted /\ t.connected = c.connected
      /\ t.open = c.open /\ Full(t)
  BY DEF Ended, Keeps, RestFields, AnswerFields, CutFields, ReplyReadFields, ReplyWriteFields,
         ReplyIoctlFields, Names
<1>2. t.tseq \in Num
  BY Space DEF Ended, Num
<1>3. t.wcount \in Nat /\ t.rcount \in Nat
  BY DEF Replied, MiscOK
<1>4. t.reading => t.rcount > 0 /\ t.open
  <2>1. CASE c.fd
    BY <1>1, <2>1 DEF Replied, MiscOK
  <2>2. CASE ~c.fd
    BY <1>1, <2>2 DEF Replied, MiscOK
  <2> QED
    BY <2>1, <2>2
<1>5. t.ioctl = "SHUTDOWN" => ~t.writing /\ t.open
  BY <1>1 DEF Replied, MiscOK
<1>6. FragOK(t.frag) /\ ~t.finsent
  BY DEF Ended, FragOK
<1> QED
  BY <1>1, <1>2, <1>3, <1>4, <1>5, <1>6 DEF MiscOK

LEMMA EndedTypes ==
  ASSUME NEW c, NEW t, NEW err, SendTypes(c), RecvTypes(c), Ended(c, t, err)
  PROVE  /\ SendTypes(t) /\ RecvTypes(t)
         /\ t.sent = c.sent /\ t.ended = c.ended /\ t.got = c.got /\ t.RCV = c.RCV /\ t.HI = c.HI
<1>1. /\ t.UNA = c.UNA /\ t.cwnd = c.cwnd /\ t.sent = c.sent /\ t.cthresh = c.cthresh
      /\ t.ended = c.ended /\ t.RCV = c.RCV /\ t.HI = c.HI /\ t.advseq = c.advseq
      /\ t.got = c.got
  BY DEF Ended, Keeps, RestFields, AnswerFields, CutFields, ReplyReadFields, ReplyWriteFields,
         ReplyIoctlFields, Names
<1>2. t.TRM = c.UNA /\ t.NXT = c.UNA /\ t.LO = c.RCV /\ t.finsent = FALSE /\ t.finrecv = FALSE
  BY DEF Ended
<1> QED
  BY <1>1, <1>2 DEF SendTypes, RecvTypes

LEMMA LiveCloses ==
  ASSUME NEW p \in Peer, NEW o \in Peer, NEW c, NEW q, Live(p, o, c, q), Room(p, q),
         NEW err, NEW t, t = tcp_close_connection(c, err)
  PROVE  Over(p, o, t, q) /\ Settles(p, o, c, t, q)
<1>1. /\ MiscOK(p, c) /\ Full(c) /\ c.state # "CLOSED" /\ SendTypes(c) /\ RecvTypes(c)
      /\ c.connected /\ Takes(o, c, q)
  BY DEF Live, MiscOK, Connected, Sends, Recvs, Takes
<1>2. Ended(c, t, err) /\ Replied(c, t, err)
  BY <1>1, CloseEnds
<1>3. MiscOK(p, t) /\ t.connected
  BY <1>1, <1>2, EndedMisc DEF SendTypes
<1>4. /\ SendTypes(t) /\ RecvTypes(t)
      /\ t.sent = c.sent /\ t.ended = c.ended /\ t.got = c.got /\ t.RCV = c.RCV /\ t.HI = c.HI
  BY <1>1, <1>2, EndedTypes
<1> DEFINE l == Pos(o, c.LO)
           r == Pos(o, c.RCV)
           h == Pos(o, c.HI)
<1>5. /\ l \in Int /\ r \in Int /\ h \in Int /\ q.sent \in Nat
      /\ 1 <= l /\ l <= r - One(c.finrecv)
      /\ c.finrecv => q.ended /\ r = q.sent + 2
      /\ ~c.finrecv => r <= q.sent + 1
      /\ Len(c.got) = l - 1
  BY <1>1, TakePlaces
<1>6. c.got = Run(0, l - 1)
  BY <1>1 DEF Takes
<1> HIDE DEF l, r, h
<1>7. Rest(o, t, q)
  <2>1. l - 1 = Len(t.got) /\ t.got = Run(0, Len(t.got))
    BY <1>4, <1>5, <1>6
  <2>2. r <= q.sent + 1 + One(q.ended) /\ 1 <= r /\ l - 1 <= q.sent /\ l - 1 \in Nat
    BY <1>5 DEF One
  <2> QED
    BY <1>4, <2>1, <2>2 DEF Rest, r
<1>8. Over(p, o, t, q)
  BY <1>2, <1>3, <1>4, <1>7 DEF Over, Ended
<1>9. Grows(o, c, t)
  <2>1. Sized(o, c)
    BY SizedAre
  <2> QED
    BY <1>3, <1>4, <2>1 DEF Grows, Sized
<1> QED
  BY <1>8, <1>9 DEF Settles

LEMMA LiveRefill ==
  ASSUME NEW p \in Peer, NEW o \in Peer, NEW c, NEW q, Live(p, o, c, q), Room(p, q)
  PROVE  Moves(p, o, c, Refill(c), q)
BY LiveFdWrite, MovesSelf DEF Refill

LEMMA LiveEndOrSend ==
  ASSUME NEW p \in Peer, NEW o \in Peer, NEW c, NEW q, Live(p, o, c, q), Room(p, q)
  PROVE  Settles(p, o, c, EndOrSend(c), q)
<1> DEFINE t == EndOrSend(c)
<1>1. t = c \/ t = tcp_conn_write(c) \/ t = tcp_close_connection(c, "ENOTCONN")
  <2>1. CASE ~c.fd /\ c.UNA = c.NXT
    BY <2>1 DEF EndOrSend
  <2>2. CASE ~(~c.fd /\ c.UNA = c.NXT) /\ c.cwnd # c.TRM /\ c.NXT # c.TRM
    BY <2>2 DEF EndOrSend
  <2>3. CASE ~(~c.fd /\ c.UNA = c.NXT) /\ ~(c.cwnd # c.TRM /\ c.NXT # c.TRM)
    BY <2>3 DEF EndOrSend
  <2> QED
    BY <2>1, <2>2, <2>3
<1> HIDE DEF t
<1>2. Moves(p, o, c, tcp_conn_write(c), q)
  <2>1. Keeps(c, tcp_conn_write(c), {"more"})
    BY FrameWrite DEF Live, MiscOK
  <2> QED
    BY <2>1, LiveFrame DEF LiveFields, MiscFields, SendFields, RecvFields, TakeFields
<1>3. Settles(p, o, c, t, q)
  BY <1>1, <1>2, MovesSelf, MovesSettle, LiveCloses
<1> QED
  BY <1>3 DEF t

LEMMA LiveRelease ==
  ASSUME NEW p \in Peer, NEW o \in Peer, NEW c, NEW q, Live(p, o, c, q), Room(p, q),
         NEW ack \in Num, Lmod4G(c.UNA, ack), LEmod4G(ack, c.NXT), Pos(p, ack) <= Heard(p, q),
         NEW wnd \in 0 .. RCV_WND
  PROVE  Settles(p, o, c, tcp_release_retrans(c, ack, wnd), q)
<1> DEFINE b == BackInWindow(Released(c, ack, wnd))
           r == Refill(b)
<1>1. Moves(p, o, c, b, q)
  BY LiveReleased
<1> HIDE DEF b
<1>2. Moves(p, o, b, r, q)
  BY <1>1, LiveRefill DEF Moves
<1>3. Moves(p, o, c, r, q)
  BY <1>1, <1>2, MovesTrans
<1> HIDE DEF r
<1>4. Settles(p, o, r, EndOrSend(r), q)
  BY <1>3, LiveEndOrSend DEF Moves
<1>5. Settles(p, o, c, EndOrSend(r), q)
  BY <1>3, <1>4, SettlesTrans
<1> QED
  BY <1>5 DEF tcp_release_retrans, b, r

LEMMA LiveProcessAck ==
  ASSUME NEW p \in Peer, NEW o \in Peer, NEW c, NEW q, Live(p, o, c, q), Room(p, q),
         NEW s, s.ack \in Num, s.wnd \in 0 .. RCV_WND, Pos(p, s.ack) <= Heard(p, q)
  PROVE  Settles(p, o, c, ProcessAck(c, s), q)
<1> DEFINE alive == IF c.state = "CLOSING" THEN c ELSE [c EXCEPT !.stt = FALSE]
           wnd == IF s.wnd > 2 * MSS THEN 2 * MSS ELSE s.wnd
           opened == tcp_conn_write([alive EXCEPT !.cwnd = Add(c.UNA, wnd)])
           shut == [alive EXCEPT !.cwnd = c.UNA, !.TRM = c.UNA]
           t == ProcessAck(c, s)
           u == Pos(p, c.UNA)
           m == Pos(p, c.TRM)
           n == Pos(p, c.NXT)
           w == Pos(p, c.cwnd)
<1>1. \/ t = alive \/ t = shut
      \/ t = opened /\ c.cwnd = c.UNA
      \/ /\ Lmod4G(c.UNA, s.ack) /\ LEmod4G(s.ack, c.NXT)
         /\ t = tcp_release_retrans(alive, s.ack, s.wnd)
  BY DEF ProcessAck
<1>2. Keeps(c, alive, {"stt"})
  BY DEF Live, MiscOK, Full, Keeps
<1>3. Sends(p, c, q) /\ SendTypes(c)
  BY DEF Live, Sends
<1>4. /\ u \in Int /\ m \in Int /\ n \in Int /\ w \in Int
      /\ 1 <= u /\ u <= m /\ m <= n /\ m <= w /\ w <= u + 2 * MSS + RCV_WND /\ u <= Heard(p, q)
  BY <1>3, SendPlaces
<1> HIDE DEF alive, t
<1>5. Moves(p, o, c, alive, q)
  BY <1>2, LiveFrame DEF LiveFields, MiscFields, SendFields, RecvFields, TakeFields
<1>6. alive.UNA = c.UNA /\ alive.TRM = c.TRM /\ alive.NXT = c.NXT /\ alive.cthresh = c.cthresh
      /\ Live(p, o, alive, q) /\ Full(alive)
  BY <1>2, <1>5 DEF Keeps, Names, Moves
<1>7. Moves(p, o, alive, shut, q)
  <2>1. /\ Keeps(alive, shut, {"cwnd", "TRM"}) /\ shut.cwnd = c.UNA /\ shut.TRM = c.UNA
        /\ shut.cthresh = alive.cthresh
    BY <1>6 DEF Full, Keeps, Names
  <2> HIDE DEF shut
  <2>2. {"cwnd", "TRM"} \cap (LiveFields \ {"TRM", "cwnd", "cthresh"}) = {}
    OBVIOUS
  <2>3. Pos(p, shut.TRM) = u /\ Pos(p, shut.cwnd) = u
    BY <2>1
  <2> HIDE DEF u, m, n, w
  <2>4. /\ u <= u /\ u <= n /\ u <= u + 2 * MSS + RCV_WND
    BY <1>4, Space
  <2>5. shut.TRM \in Num /\ shut.cwnd \in Num /\ shut.cthresh \in Nat
    BY <1>3, <1>6, <2>1 DEF SendTypes
  <2> QED
    BY <1>6, <2>1, <2>2, <2>3, <2>4, <2>5, LiveWindow DEF u, n
<1>8. ASSUME c.cwnd = c.UNA PROVE Moves(p, o, alive, opened, q)
  <2> DEFINE d == [alive EXCEPT !.cwnd = Add(c.UNA, wnd)]
             cw == Add(c.UNA, wnd)
  <2>1. wnd \in Nat /\ wnd <= 2 * MSS
    BY Space
  <2> HIDE DEF wnd
  <2>2. cw \in Num /\ Pos(p, cw) = u + wnd
    <3>1. Heard(p, q) \in Nat /\ 2 * (Heard(p, q) + SND_WND + RCV_WND + 2 * MSS + 2) <= SeqSpace
      BY DEF Room
    <3> HIDE DEF u, m, n, w
    <3>2. - SeqSpace <= wnd /\ wnd <= SeqSpace /\ 0 <= u + wnd /\ u + wnd < SeqSpace
      BY <1>4, <2>1, <3>1, Space
    <3> QED
      BY <1>3, <2>1, <3>2, PosAdd DEF SendTypes, u
  <2>3. /\ Keeps(alive, d, {"cwnd"}) /\ d.cwnd = cw /\ d.TRM = alive.TRM
        /\ d.cthresh = alive.cthresh
    BY <1>6 DEF Full, Keeps, Names
  <2>4. opened = tcp_conn_write(d)
    OBVIOUS
  <2> HIDE DEF d, opened, cw
  <2>5. Keeps(d, opened, {"more"})
    BY <2>3, <2>4, FrameWrite DEF Keeps
  <2>6. /\ Keeps(alive, opened, {"cwnd", "more"}) /\ opened.cwnd = cw /\ opened.TRM = c.TRM
        /\ opened.cthresh = alive.cthresh
    BY <1>6, <2>3, <2>5 DEF Keeps, Names
  <2>7. Pos(p, opened.TRM) = m /\ Pos(p, opened.cwnd) = u + wnd /\ w = u
    BY <1>8, <2>2, <2>6
  <2> HIDE DEF u, m, n, w
  <2>8. /\ u <= m /\ m <= n /\ m <= u + wnd /\ u + wnd <= u + 2 * MSS + RCV_WND
    BY <1>4, <2>1, <2>7, Space
  <2>9. opened.TRM \in Num /\ opened.cwnd \in Num /\ opened.cthresh \in Nat
    BY <1>3, <1>6, <2>2, <2>6 DEF SendTypes
  <2>10. {"cwnd", "more"} \cap (LiveFields \ {"TRM", "cwnd", "cthresh"}) = {}
    BY DEF LiveFields, MiscFields, SendFields, RecvFields, TakeFields
  <2> QED
    BY <1>6, <2>6, <2>7, <2>8, <2>9, <2>10, LiveWindow DEF u, n
<1> HIDE DEF shut, opened, u, m, n, w
<1>9. ASSUME Lmod4G(c.UNA, s.ack), LEmod4G(s.ack, c.NXT)
      PROVE  Settles(p, o, alive, tcp_release_retrans(alive, s.ack, s.wnd), q)
  BY <1>6, <1>9, LiveRelease
<1>10. Settles(p, o, c, t, q)
  <2>1. CASE t = alive
    BY <1>5, <2>1, MovesSettle
  <2>2. CASE t = shut
    BY <1>5, <1>7, <2>2, MovesSettle, SettlesTrans
  <2>3. CASE t = opened /\ c.cwnd = c.UNA
    BY <1>5, <1>8, <2>3, MovesSettle, SettlesTrans
  <2>4. CASE /\ Lmod4G(c.UNA, s.ack) /\ LEmod4G(s.ack, c.NXT)
             /\ t = tcp_release_retrans(alive, s.ack, s.wnd)
    BY <1>5, <1>9, <2>4, SettlesTrans
  <2> QED
    BY <1>1, <2>1, <2>2, <2>3, <2>4
<1> QED
  BY <1>10 DEF t

(* tcp_send_timeout(): back to the oldest byte that is not acknowledged. *)
LEMMA LiveRetransmit ==
  ASSUME NEW p \in Peer, NEW o \in Peer, NEW c, NEW q, Live(p, o, c, q), Room(p, q)
  PROVE  Moves(p, o, c, Retransmit(c), q)
<1> DEFINE u == Pos(p, c.UNA)
           m == Pos(p, c.TRM)
           n == Pos(p, c.NXT)
           w == Pos(p, c.cwnd)
           probe == IF c.cwnd = c.UNA THEN Add(c.cwnd, 1) ELSE c.cwnd
           top == Add(c.UNA, 2 * MSS)
           large == Gmod4G(probe, top)
           half == c.cthresh \div 2
           cw == IF large THEN top ELSE probe
           ct == IF ~large THEN c.cthresh ELSE IF half < 2 * MSS THEN 2 * MSS ELSE half
           d == [c EXCEPT !.TRM = c.UNA, !.cwnd = cw, !.cthresh = ct]
           t == Retransmit(c)
<1>1. Sends(p, c, q) /\ SendTypes(c) /\ Full(c)
  BY DEF Live, Sends, MiscOK
<1>2. /\ u \in Int /\ m \in Int /\ n \in Int /\ w \in Int
      /\ 1 <= u /\ u <= m /\ m <= n /\ m <= w /\ w <= u + 2 * MSS + RCV_WND /\ u <= Heard(p, q)
      /\ Near(p, c.UNA) /\ Near(p, c.cwnd)
  BY <1>1, SendPlaces
<1>3. Heard(p, q) \in Nat /\ 2 * (Heard(p, q) + SND_WND + RCV_WND + 2 * MSS + 2) <= SeqSpace
  BY DEF Room
<1>4. c.cwnd = c.UNA => w = u
  OBVIOUS
<1> HIDE DEF u, m, n, w
<1>5. top \in Num /\ Pos(p, top) = u + 2 * MSS /\ Near(p, top)
  <2> DEFINE k == 2 * MSS
  <2>1. k \in Int /\ - SeqSpace <= k /\ k <= SeqSpace /\ 0 <= u + k /\ u + k < SeqSpace
        /\ 2 * (u + k) < SeqSpace
    BY <1>2, <1>3, Space
  <2> HIDE DEF k
  <2>2. Add(c.UNA, k) \in Num /\ Pos(p, Add(c.UNA, k)) = u + k
    BY <1>1, <2>1, PosAdd DEF SendTypes, u
  <2> QED
    BY <2>1, <2>2 DEF Near, k
<1> DEFINE x == IF c.cwnd = c.UNA THEN u + 1 ELSE w
<1>6. probe \in Num /\ Pos(p, probe) = x /\ Near(p, probe)
  <2>1. CASE c.cwnd = c.UNA
    <3>1. 1 \in Int /\ - SeqSpace <= 1 /\ 1 <= SeqSpace /\ 0 <= w + 1 /\ w + 1 < SeqSpace
          /\ 2 * (w + 1) < SeqSpace
      BY <1>2, <1>3, <1>4, <2>1, Space
    <3>2. Add(c.cwnd, 1) \in Num /\ Pos(p, Add(c.cwnd, 1)) = w + 1
      BY <1>1, <3>1, PosAdd DEF SendTypes, w
    <3> QED
      BY <1>4, <2>1, <3>1, <3>2 DEF Near
  <2>2. CASE c.cwnd # c.UNA
    BY <1>1, <1>2, <2>2 DEF w, SendTypes
  <2> QED
    BY <2>1, <2>2
<1>7. x \in Int /\ u <= x /\ x <= u + 2 * MSS + RCV_WND
  BY <1>2, Space
<1> HIDE DEF probe, top, x
<1> DEFINE y == IF x > u + 2 * MSS THEN u + 2 * MSS ELSE x
<1>8. cw \in Num /\ Pos(p, cw) = y
  <2>1. Gmod4G(probe, top) <=> Pos(p, probe) > Pos(p, top)
    BY <1>5, <1>6, Compare
  <2> QED
    BY <1>5, <1>6, <2>1
<1>9. ct \in Nat
  BY <1>1, Space DEF SendTypes
<1> HIDE DEF cw, ct
<1>10. /\ Keeps(c, d, {"TRM", "cwnd", "cthresh"})
       /\ d.TRM = c.UNA /\ d.cwnd = cw /\ d.cthresh = ct
  BY <1>1 DEF Full, Keeps, Names
<1>11. t = tcp_conn_write(d)
  BY DEF Retransmit, probe, top, cw, ct
<1> HIDE DEF d, t
<1>12. Keeps(d, t, {"more"})
  BY <1>10, <1>11, FrameWrite DEF Keeps
<1>13. /\ Keeps(c, t, {"TRM", "cwnd", "cthresh", "more"})
       /\ t.TRM = c.UNA /\ t.cwnd = cw /\ t.cthresh = ct
  BY <1>10, <1>12 DEF Keeps, Names
<1>14. u <= y /\ y <= u + 2 * MSS + RCV_WND /\ u <= n
  BY <1>2, <1>7, Space
<1>15. t.TRM \in Num /\ t.cwnd \in Num /\ t.cthresh \in Nat
  BY <1>1, <1>8, <1>9, <1>13 DEF SendTypes
<1>16. {"TRM", "cwnd", "cthresh", "more"} \cap (LiveFields \ {"TRM", "cwnd", "cthresh"}) = {}
  BY DEF LiveFields, MiscFields, SendFields, RecvFields, TakeFields
<1>17. Pos(p, t.TRM) = u /\ Pos(p, t.cwnd) = y /\ u <= u
  BY <1>2, <1>8, <1>13 DEF u
<1> HIDE DEF y
<1>18. Moves(p, o, c, t, q)
  BY <1>13, <1>14, <1>15, <1>16, <1>17, LiveWindow DEF u, n
<1> QED
  BY <1>18 DEF t

LEMMA TakeStep ==
  ASSUME NEW p \in Peer, NEW o \in Peer, NEW c, NEW q, Live(p, o, c, q),
         NEW t, NEW S, Keeps(c, t, S), S \cap (SendFields \cup {"state", "connected"}) = {},
         MiscOK(p, t), Recvs(o, t, q), Len(c.got) <= Len(t.got),
         Pos(o, c.RCV) <= Pos(o, t.RCV), Pos(o, c.HI) <= Pos(o, t.HI)
  PROVE  Moves(p, o, c, t, q)
<1>1. Sends(p, t, q) /\ t.sent = c.sent /\ t.ended = c.ended
  BY SendsFrame DEF Live
<1>2. t.state = c.state /\ t.connected = c.connected
  BY DEF Keeps, Names
<1>3. Live(p, o, t, q)
  BY <1>1, <1>2 DEF Live, Connected
<1>4. Grows(o, c, t)
  BY <1>1, <1>2, LiveTypes DEF Grows
<1> QED
  BY <1>3, <1>4 DEF Moves

(* While a segment is worked in the data in advance may already be behind. *)
Parked(o, c, q) ==
  LET v == Pos(o, c.advseq)  e == v + Len(c.adv)
  IN c.adv = <<>> \/ /\ 1 <= v /\ e <= q.sent + 1 /\ e <= Pos(o, c.HI)
                     /\ c.adv \in Seq(Nat) /\ c.adv = Run(v - 1, e - 1)

\* What tcp_fd_read() does to the receiving side.
Read1(o, c, t) ==
  /\ Keeps(c, t, ReadFields) /\ Len(c.got) <= Len(t.got) /\ Pos(o, c.HI) <= Pos(o, t.HI)

LEMMA CopyOutTakes ==
  ASSUME NEW p \in Peer, NEW o \in Peer, NEW c, Full(c), NEW q, Takes(o, c, q), Room(p, q),
         NEW n \in Nat, n <= DataSize(c), NEW t, t = CopyOut(c, n)
  PROVE  Takes(o, t, q) /\ Len(c.got) <= Len(t.got)
<1> DEFINE l == Pos(o, c.LO)
           r == Pos(o, c.RCV)
           h == Pos(o, c.HI)
           f == One(c.finrecv)
<1>1. /\ l \in Int /\ r \in Int /\ h \in Int /\ q.sent \in Nat
      /\ 1 <= l /\ l <= r - f /\ r <= h /\ h <= l + RCV_WND
      /\ c.finrecv => q.ended /\ r = q.sent + 2
      /\ ~c.finrecv => r <= q.sent + 1
      /\ Near(o, c.LO) /\ Near(o, c.RCV)
      /\ c.got \in Seq(Nat) /\ Len(c.got) = l - 1
      /\ Len(c.rcvd) = r - f - l /\ DataSize(c) = r - f - l
  BY TakePlaces
<1>2. RecvTypes(c) /\ RecvOrder(o, c, q)
  BY DEF Takes
<1>3. Keeps(c, t, {"got", "rcvd", "LO", "rcount"})
  BY FrameCopyOut
<1>4. t.RCV = c.RCV /\ t.HI = c.HI /\ t.advseq = c.advseq /\ t.finrecv = c.finrecv
  BY <1>3 DEF Keeps, Names
<1>5. /\ t.got = c.got \o SubSeq(c.rcvd, 1, n) /\ t.LO = Add(c.LO, n)
      /\ t.rcvd = SubSeq(c.rcvd, n + 1, Len(c.rcvd))
  BY DEF CopyOut, Full, Names
<1>6. f = 0 \/ f = 1
  BY DEF One
<1>7. r < SeqSpace
  BY <1>1, PosType DEF Near
<1> HIDE DEF l, r, h, f
<1>8. n <= r - f - l
  BY <1>1
<1>9. Add(c.LO, n) \in Num /\ Pos(o, Add(c.LO, n)) = l + n
  <2>1. 0 <= l + n /\ l + n < SeqSpace /\ n <= SeqSpace /\ - SeqSpace <= n
    BY <1>1, <1>6, <1>7, <1>8, Space
  <2>2. c.LO \in Num
    BY <1>2 DEF RecvTypes
  <2> QED
    BY <2>1, <2>2, PosAdd DEF l
<1>10. RecvTypes(t)
  BY <1>2, <1>4, <1>5, <1>9 DEF RecvTypes
<1>11. /\ Pos(o, t.LO) = l + n /\ Pos(o, t.RCV) = r /\ Pos(o, t.HI) = h /\ One(t.finrecv) = f
  BY <1>4, <1>5, <1>9 DEF r, h, f
<1>12. 1 <= l + n /\ l + n <= r - f /\ h <= l + n + RCV_WND
  BY <1>1, <1>6, <1>8, Space
<1>13. RecvOrder(o, t, q)
  BY <1>1, <1>4, <1>11, <1>12 DEF RecvOrder
<1> DEFINE a == l - 1
           b == r - 1 - f
<1>14. a \in Nat /\ b \in Nat /\ a <= b /\ n <= b - a /\ a + n \in Nat /\ a + n <= b /\ 0 <= a
  BY <1>1, <1>6, <1>8
<1>15. c.got = Run(0, a) /\ c.rcvd = Run(a, b)
  BY DEF Takes, l, r, f
<1>16. /\ l + n - 1 = a + n /\ r - 1 - f = b /\ Len(c.rcvd) = b - a
  BY <1>1, <1>6
<1> HIDE DEF a, b
<1>17. SubSeq(Run(a, b), 1, n) = Run(a, a + n)
  <2> DEFINE i == 1
  <2>1. i \in Nat \ {0} /\ i <= n + 1 /\ a + i - 1 = a /\ a \in Nat /\ b \in Nat /\ a <= b /\ n <= b - a
    BY <1>14
  <2> HIDE DEF i
  <2>2. SubSeq(Run(a, b), i, n) = Run(a + i - 1, a + n)
    BY <2>1, RunPart, ZenonT(20)
  <2> QED
    BY <2>1, <2>2 DEF i
<1>18. SubSeq(Run(a, b), n + 1, b - a) = Run(a + n, b)
  <2> DEFINE i == n + 1
             j == b - a
  <2>1. a + i - 1 = a + n /\ a + j = b
    BY <1>14
  <2>2. i \in Nat \ {0} /\ j \in Nat /\ i <= j + 1 /\ j <= b - a
        /\ a \in Nat /\ b \in Nat /\ a <= b
    BY <1>14
  <2> HIDE DEF i, j
  <2>3. SubSeq(Run(a, b), i, j) = Run(a + i - 1, a + j)
    BY <2>2, RunPart, ZenonT(20)
  <2> QED
    BY <2>1, <2>3 DEF i, j
<1>19. Run(0, a) \o Run(a, a + n) = Run(0, a + n)
  <2> DEFINE e == a + n
  <2>1. e \in Nat /\ a <= e /\ 0 \in Nat
    BY <1>14
  <2> HIDE DEF e
  <2>2. Run(0, a) \o Run(a, e) = Run(0, e)
    BY <1>14, <2>1, RunNext
  <2> QED
    BY <2>2 DEF e
<1>20. t.got = Run(0, a + n) /\ t.rcvd = Run(a + n, b)
  BY <1>5, <1>15, <1>16, <1>17, <1>18, <1>19
<1>21. Takes(o, t, q)
  <2>1. Pos(o, t.LO) - 1 = a + n /\ Pos(o, t.RCV) - 1 - One(t.finrecv) = b
    <3>1. l + n - 1 = a + n /\ r - 1 - f = b
      BY <1>16
    <3>2. Pos(o, t.LO) = l + n /\ Pos(o, t.RCV) = r /\ One(t.finrecv) = f
      BY <1>11
    <3>3. l \in Int /\ r \in Int /\ n \in Int /\ f \in Int
      BY <1>1, <1>6
    <3> QED
      BY <3>1, <3>2, <3>3
  <2>2. t.got = Run(0, Pos(o, t.LO) - 1)
    BY <1>20, <2>1
  <2>3. t.rcvd = Run(Pos(o, t.LO) - 1, Pos(o, t.RCV) - 1 - One(t.finrecv))
    BY <1>20, <2>1
  <2> QED
    BY <1>10, <1>13, <2>2, <2>3 DEF Takes
<1>22. Len(c.got) <= Len(t.got)
  <2> DEFINE e == a + n
  <2>1. e \in Nat /\ 0 <= e
    BY <1>14
  <2> HIDE DEF e
  <2>2. Len(Run(0, e)) = e - 0
    BY <2>1, RunIs
  <2>3. Len(t.got) = e
    BY <1>20, <2>1, <2>2 DEF e
  <2> QED
    BY <1>1, <1>14, <1>16, <2>3 DEF e, a
<1> QED
  BY <1>21, <1>22

LEMMA SlideTakes ==
  ASSUME NEW p \in Peer, NEW o \in Peer, NEW c, Full(c), NEW q, Takes(o, c, q), Room(p, q),
         NEW t, t = SlideWindow(c)
  PROVE  Takes(o, t, q) /\ Pos(o, c.HI) <= Pos(o, t.HI)
<1> DEFINE l == Pos(o, c.LO)
           r == Pos(o, c.RCV)
           h == Pos(o, c.HI)
           hi == Add(c.LO, RCV_WND)
<1>1. /\ l \in Int /\ r \in Int /\ h \in Int /\ q.sent \in Nat
      /\ 1 <= l /\ l <= r - One(c.finrecv) /\ r <= h /\ h <= l + RCV_WND
      /\ c.finrecv => q.ended /\ r = q.sent + 2
      /\ ~c.finrecv => r <= q.sent + 1
  BY TakePlaces
<1>2. RecvTypes(c) /\ RecvOrder(o, c, q)
  BY DEF Takes
<1> HIDE DEF l, r, h
<1>3. Keeps(c, t, {"HI", "sendack", "more"})
  BY FrameSlide
<1>4. /\ t.LO = c.LO /\ t.RCV = c.RCV /\ t.advseq = c.advseq /\ t.finrecv = c.finrecv
      /\ t.got = c.got /\ t.rcvd = c.rcvd
  BY <1>3 DEF Keeps, Names
<1>5. t.HI = c.HI \/ t.HI = hi
  BY DEF SlideWindow, tcp_conn_write, Full, Names
<1>6. hi \in Num /\ Pos(o, hi) = l + RCV_WND
  <2>1. 2 * (q.sent + RCV_WND + 4) <= SeqSpace
    BY DEF Room
  <2>2. One(c.finrecv) \in {0, 1} /\ l <= q.sent + 2
    BY <1>1, <1>2 DEF One, RecvTypes
  <2>3. 0 <= l + RCV_WND /\ l + RCV_WND < SeqSpace /\ RCV_WND <= SeqSpace /\ - SeqSpace <= RCV_WND
    BY <1>1, <2>1, <2>2, Space
  <2>4. c.LO \in Num /\ RCV_WND \in Int
    BY <1>2, Space DEF RecvTypes
  <2> QED
    BY <2>3, <2>4, PosAdd DEF l
<1> HIDE DEF hi
<1> DEFINE x == Pos(o, t.HI)
<1>7. x \in Int /\ h <= x /\ x <= l + RCV_WND /\ r <= x
  BY <1>1, <1>5, <1>6, Space DEF h
<1> HIDE DEF x
<1>8. RecvTypes(t)
  BY <1>2, <1>4, <1>5, <1>6 DEF RecvTypes
<1>9. RecvOrder(o, t, q)
  BY <1>1, <1>4, <1>7 DEF RecvOrder, l, r, x
<1> QED
  BY <1>4, <1>7, <1>8, <1>9 DEF Takes, h, x

\* The data is handed over and the window moves.
LEMMA HandedOver ==
  ASSUME NEW p \in Peer, NEW o \in Peer, NEW c, NEW q, Full(c), MiscOK(p, c), Takes(o, c, q),
         Parked(o, c, q), Room(p, q), c.rcount > 0, NEW n \in Nat, n <= DataSize(c),
         n <= c.rcount, NEW t, t = HandOver(c, n)
  PROVE  Read1(o, c, t) /\ MiscOK(p, t) /\ Takes(o, t, q) /\ Parked(o, t, q)
<1> DEFINE t1 == CopyOut(c, n)
           t2 == SlideWindow(t1)
           t3 == Drain(t2)
<1>1. Keeps(c, t, ReadFields)
  BY FrameHandOver
<1>2. /\ Takes(o, t1, q) /\ Len(c.got) <= Len(t1.got) /\ Keeps(c, t1, {"got", "rcvd", "LO", "rcount"})
      /\ t1.rcount = c.rcount - n
  <2>1. Takes(o, t1, q) /\ Len(c.got) <= Len(t1.got)
    BY CopyOutTakes
  <2>2. Keeps(c, t1, {"got", "rcvd", "LO", "rcount"})
    BY FrameCopyOut
  <2> QED
    BY <2>1, <2>2 DEF CopyOut, Full, Names
<1>3. t1.HI = c.HI /\ t1.reading = c.reading /\ Full(t1)
  BY <1>2 DEF Keeps, Names
<1>4. t = t3 \/ t = ReplyRead(t3, "data") \/ t = ReplyRead(t3, "eof")
  BY DEF HandOver
<1>5. n > 0 => t = ReplyRead(t3, "data")
  BY DEF HandOver
<1> HIDE DEF t1
<1>6. Takes(o, t2, q) /\ Pos(o, c.HI) <= Pos(o, t2.HI) /\ Keeps(t1, t2, {"HI", "sendack", "more"})
  BY <1>2, <1>3, SlideTakes, FrameSlide
<1> HIDE DEF t2
<1>7. Keeps(t2, t3, {"push"})
  BY <1>6, FrameDrain DEF Keeps
<1>8. Takes(o, t3, q) /\ t3.HI = t2.HI /\ t3.got = t2.got
  <2>1. {"push"} \cap TakeFields = {}
    BY DEF TakeFields
  <2> QED
    BY <1>6, <1>7, <2>1, TakesFrame
<1>9. /\ t3.got = t1.got /\ t3.rcount = c.rcount - n /\ t3.reading = c.reading /\ Full(t3)
  BY <1>2, <1>3, <1>6, <1>7 DEF Keeps, Names
<1> HIDE DEF t3
<1>10. /\ Keeps(t3, ReplyRead(t3, "data"), ReplyReadFields)
       /\ Keeps(t3, ReplyRead(t3, "eof"), ReplyReadFields)
       /\ ReplyRead(t3, "data").reading = FALSE /\ ReplyRead(t3, "data").rcount = 0
       /\ ReplyRead(t3, "eof").reading = FALSE /\ ReplyRead(t3, "eof").rcount = 0
  <2>1. /\ Keeps(t3, ReplyRead(t3, "data"), ReplyReadFields)
        /\ Keeps(t3, ReplyRead(t3, "eof"), ReplyReadFields)
    BY <1>9, FrameReplies
  <2> QED
    BY <1>9, <2>1 DEF ReplyRead, Full, Names
<1>11. Keeps(t3, t, ReplyReadFields)
  BY <1>4, <1>9, <1>10, KeepsSelf
<1>12. Takes(o, t, q) /\ t.HI = t3.HI /\ t.got = t3.got
  <2>1. ReplyReadFields \cap TakeFields = {}
    BY DEF TakeFields, ReplyReadFields
  <2> QED
    BY <1>8, <1>11, <2>1, TakesFrame
<1>13. t.rcount \in Nat /\ (t.reading => t.rcount > 0 /\ c.reading)
  <2>1. c.rcount \in Nat /\ n \in Nat
    BY DEF MiscOK
  <2>2. CASE n > 0
    BY <1>5, <1>10, <2>2
  <2>3. CASE n = 0
    <3>1. t3.rcount = c.rcount
      BY <1>9, <2>1, <2>3
    <3> QED
      BY <1>4, <1>9, <1>10, <2>1, <3>1
  <2> QED
    BY <2>1, <2>2, <2>3
<1>14. /\ t.iss = c.iss /\ t.PSH = c.PSH /\ t.tseq = c.tseq /\ t.wcount = c.wcount
       /\ t.posted = c.posted /\ t.connected = c.connected
       /\ t.frag = c.frag /\ t.finsent = c.finsent /\ t.writing = c.writing
       /\ t.open = c.open /\ t.ioctl = c.ioctl /\ t.adv = c.adv /\ t.advseq = c.advseq
       /\ Full(t)
  BY <1>1 DEF Keeps, ReadFields, ReplyReadFields, Names
<1>15. MiscOK(p, t)
  BY <1>13, <1>14 DEF MiscOK
<1>16. Pos(o, c.HI) <= Pos(o, t.HI) /\ Len(c.got) <= Len(t.got)
  BY <1>2, <1>6, <1>8, <1>9, <1>12
<1>17. Parked(o, t, q)
  <2>1. c.HI \in Num /\ t.HI \in Num /\ c.advseq \in Num
    BY <1>12 DEF Takes, RecvTypes
  <2>2. Pos(o, c.HI) \in Int /\ Pos(o, t.HI) \in Int /\ Pos(o, c.advseq) \in Int
    BY <2>1, PosType
  <2> DEFINE v == Pos(o, c.advseq)
             h == Pos(o, c.HI)
             x == Pos(o, t.HI)
             e == v + Len(c.adv)
  <2>3. CASE c.adv = <<>>
    BY <1>14, <2>3 DEF Parked
  <2>4. CASE c.adv # <<>>
    <3>1. 1 <= v /\ e <= q.sent + 1 /\ e <= h /\ c.adv \in Seq(Nat) /\ c.adv = Run(v - 1, e - 1)
      BY <2>4 DEF Parked
    <3>2. e <= x
      <4>1. Len(c.adv) \in Int
        BY <3>1
      <4>2. h <= x /\ h \in Int /\ x \in Int /\ v \in Int
        BY <1>16, <2>2
      <4> HIDE DEF v, h, x
      <4> QED
        BY <3>1, <4>1, <4>2
    <3> QED
      BY <1>14, <3>1, <3>2 DEF Parked
  <2> QED
    BY <2>3, <2>4
<1> QED
  BY <1>1, <1>12, <1>15, <1>16, <1>17 DEF Read1

LEMMA ReadDone ==
  ASSUME NEW p \in Peer, NEW o \in Peer, NEW c, NEW q, Full(c), MiscOK(p, c), Takes(o, c, q),
         Parked(o, c, q), Room(p, q), c.state # "CLOSED",
         NEW t, t = c \/ (c.reading /\ t = tcp_fd_read(c))
  PROVE  Read1(o, c, t) /\ MiscOK(p, t) /\ Takes(o, t, q) /\ Parked(o, t, q)
<1>1. Read1(o, c, c)
  <2>1. Pos(o, c.HI) \in Int /\ Len(c.got) \in Int
    <3>1. c.HI \in Num /\ c.got \in Seq(Nat)
      BY TakePlaces DEF Takes, RecvTypes
    <3> QED
      BY <3>1, PosType
  <2> QED
    BY <2>1, KeepsSelf DEF Read1
<1>2. CASE t = c \/ Defer(c)
  <2>1. t = c
    BY <1>2 DEF tcp_fd_read
  <2> QED
    BY <1>1, <2>1
<1>3. CASE c.reading /\ t = tcp_fd_read(c) /\ ~Defer(c)
  <2> DEFINE n == IF DataSize(c) >= c.rcount THEN c.rcount ELSE DataSize(c)
  <2>1. t = HandOver(c, n)
    BY <1>3 DEF tcp_fd_read
  <2>2. c.rcount \in Nat /\ c.rcount > 0
    BY <1>3 DEF MiscOK
  <2>3. DataSize(c) = Pos(o, c.RCV) - One(c.finrecv) - Pos(o, c.LO)
        /\ Pos(o, c.RCV) \in Int /\ Pos(o, c.LO) \in Int
        /\ Pos(o, c.LO) <= Pos(o, c.RCV) - One(c.finrecv)
    BY TakePlaces
  <2>4. DataSize(c) \in Nat
    BY <2>3 DEF One
  <2>5. n \in Nat /\ n <= DataSize(c) /\ n <= c.rcount
    BY <2>2, <2>4
  <2> HIDE DEF n
  <2> QED
    BY <2>1, <2>2, <2>5, HandedOver
<1> QED
  BY <1>2, <1>3

LEMMA ReadHere ==
  ASSUME NEW p \in Peer, NEW o \in Peer, NEW c, NEW q, Full(c), MiscOK(p, c), Takes(o, c, q),
         Parked(o, c, q), Room(p, q), c.state # "CLOSED", NEW t, t = ReadIfPosted(c)
  PROVE  Read1(o, c, t) /\ MiscOK(p, t) /\ Takes(o, t, q) /\ Parked(o, t, q)
BY ReadDone DEF ReadIfPosted

LEMMA ParkedIs ==
  ASSUME NEW p \in Peer, NEW o \in Peer, NEW c, NEW q, Live(p, o, c, q)
  PROVE  Parked(o, c, q) /\ Takes(o, c, q) /\ MiscOK(p, c) /\ Full(c) /\ c.state # "CLOSED"
<1>1. Takes(o, c, q) /\ MiscOK(p, c) /\ Full(c) /\ c.state # "CLOSED" /\ RecvTypes(c)
      /\ RecvOrder(o, c, q)
  BY DEF Live, MiscOK, Recvs, Takes, Connected
<1>2. c.adv = <<>> \/ Ahead(o, c, q)
  BY DEF Live, Recvs
<1>3. Pos(o, c.advseq) \in Int /\ Pos(o, c.RCV) \in Int /\ Pos(o, c.LO) \in Int
  BY <1>1, PosType DEF RecvTypes
<1>4. Ahead(o, c, q) => Pos(o, c.advseq) > Pos(o, c.RCV)
  BY DEF Ahead
<1>5. Ahead(o, c, q) => 1 <= Pos(o, c.advseq)
  BY <1>3, <1>4, PosType, <1>1 DEF RecvTypes
<1>6. Parked(o, c, q)
  BY <1>2, <1>5 DEF Parked, Ahead
<1> QED
  BY <1>1, <1>6

LEMMA LiveFdRead ==
  ASSUME NEW p \in Peer, NEW o \in Peer, NEW c, NEW q, Live(p, o, c, q), Room(p, q),
         NEW t, t = c \/ (c.reading /\ t = tcp_fd_read(c))
  PROVE  Moves(p, o, c, t, q)
<1>1. Parked(o, c, q) /\ Takes(o, c, q) /\ MiscOK(p, c) /\ Full(c) /\ c.state # "CLOSED"
  BY ParkedIs
<1>2. Read1(o, c, t) /\ MiscOK(p, t) /\ Takes(o, t, q) /\ Parked(o, t, q)
  BY <1>1, ReadDone
<1>3. Keeps(c, t, ReadFields)
  BY <1>2 DEF Read1
<1>4. t.adv = c.adv /\ t.advseq = c.advseq /\ t.RCV = c.RCV
  BY <1>3 DEF Keeps, ReadFields, ReplyReadFields, Names
<1>5. Recvs(o, t, q)
  BY <1>2, <1>4 DEF Live, Recvs, Ahead, Parked
<1>6. Pos(o, c.RCV) <= Pos(o, t.RCV)
  BY <1>4, LiveTypes
<1>7. ReadFields \cap (SendFields \cup {"state", "connected"}) = {}
  BY DEF ReadFields, ReplyReadFields, SendFields
<1> QED
  BY <1>2, <1>3, <1>5, <1>6, <1>7, TakeStep DEF Read1

LEMMA LiveReadIfPosted ==
  ASSUME NEW p \in Peer, NEW o \in Peer, NEW c, NEW q, Live(p, o, c, q), Room(p, q),
         NEW t, t = ReadIfPosted(c)
  PROVE  Moves(p, o, c, t, q)
BY LiveFdRead DEF ReadIfPosted

\* What a segment of p says of p's block c: its place, its data, its FIN, and
\* an acknowledgement of no more of the stream of o than p has received.
Spoken(p, s, c) ==
  LET S == Pos(p, s.seq)  e == S + Len(s.data)
  IN /\ e <= c.sent + 1 + One(c.ended)
     /\ s.data # <<>> => 1 <= S /\ e <= c.sent + 1 /\ s.data = Run(S - 1, e - 1)
     /\ Has(s, "SYN") => s.seq = ISS[p] /\ s.data = <<>> /\ ~Has(s, "FIN")
     /\ Has(s, "FIN") => c.ended /\ e = c.sent + 1

\* What a segment of p may say; a reset says nothing of the streams.
Truth(p, o, s, c) ==
  ~Has(s, "RST") =>
    /\ Spoken(p, s, c)
    /\ Has(s, "ACK") => 1 <= Pos(o, s.ack) /\ Pos(o, s.ack) <= Heard(o, c)

(* The place of a segment's data. *)
LEMMA TextPlaces ==
  ASSUME NEW p \in Peer, NEW o \in Peer, NEW q, Room(p, q), NEW s \in Segment, Spoken(o, s, q),
         NEW S, S = Pos(o, s.seq), NEW hi, hi = Add(s.seq, Len(s.data))
  PROVE  /\ S \in Int /\ 0 <= S /\ Near(o, s.seq) /\ Len(s.data) \in Nat
         /\ s.data \in Seq(Nat) /\ (s.data # <<>> => Len(s.data) >= 1)
         /\ Near(o, hi) /\ Pos(o, hi) = S + Len(s.data)
         /\ S + Len(s.data) <= q.sent + 1 + One(q.ended) /\ q.sent \in Nat
         /\ s.data # <<>> => 1 <= S /\ S + Len(s.data) <= q.sent + 1
<1>1. s.seq \in Num /\ s.data \in Seq(Nat)
  BY DEF Segment, Num
<1> DEFINE len == Len(s.data)
<1>2. len \in Nat /\ (s.data # <<>> => len >= 1)
  BY <1>1
<1>3. S \in Int /\ 0 <= S
  BY <1>1, PosType
<1>4. q.sent \in Nat /\ 2 * (q.sent + RCV_WND + 4) <= SeqSpace
  BY DEF Room
<1>5. /\ S + len <= q.sent + 1 + One(q.ended)
      /\ s.data # <<>> => 1 <= S /\ S + len <= q.sent + 1
  BY DEF Spoken
<1> HIDE DEF len
<1>6. /\ 2 * S < SeqSpace /\ 2 * (S + len) < SeqSpace /\ len <= SeqSpace /\ - SeqSpace <= len
      /\ 0 <= S + len /\ S + len < SeqSpace
  <2>1. One(q.ended) = 0 \/ One(q.ended) = 1
    BY DEF One
  <2>2. S + len <= q.sent + 2
    BY <1>2, <1>3, <1>4, <1>5, <2>1
  <2>3. SeqSpace \in Int /\ RCV_WND \in Int /\ 0 <= RCV_WND
    BY Space
  <2> QED
    BY <1>2, <1>3, <1>4, <2>2, <2>3, SMTT(20)
<1>7. hi \in Num /\ Pos(o, hi) = S + len
  BY <1>1, <1>2, <1>3, <1>6, PosAdd DEF len
<1>8. Near(o, s.seq) /\ Near(o, hi)
  BY <1>1, <1>6, <1>7 DEF Near
<1> QED
  BY <1>1, <1>2, <1>3, <1>4, <1>5, <1>7, <1>8 DEF len

(* tcp_recv.c: the part of a segment that is new and fits the window. *)
LEMMA AppendTakes ==
  ASSUME NEW p \in Peer, NEW o \in Peer, NEW c, NEW q, Live(p, o, c, q), Room(p, q),
         NEW s \in Segment, Spoken(o, s, q), s.data # <<>>, LEmod4G(s.seq, c.RCV),
         Pos(o, s.seq) + Len(s.data) > Pos(o, c.RCV), Pos(o, c.RCV) < Pos(o, c.HI),
         NEW t, t = Append_data(c, s)
  PROVE  /\ Takes(o, t, q) /\ Parked(o, t, q) /\ MiscOK(p, t)
         /\ Keeps(c, t, {"rcvd", "push", "RCV", "finrecv"})
         /\ Pos(o, c.RCV) <= Pos(o, t.RCV)
<1> DEFINE l == Pos(o, c.LO)
           r == Pos(o, c.RCV)
           h == Pos(o, c.HI)
           S == Pos(o, s.seq)
           len == Len(s.data)
           skip == Diff(c.RCV, s.seq)
           hi == Add(s.seq, Len(s.data))
           cut == Gmod4G(hi, c.HI)
           upto == IF cut THEN c.HI ELSE hi
           fin == Has(s, "FIN") /\ ~cut /\ ~c.finrecv /\ Lmod4G(upto, c.HI)
<1>1. Parked(o, c, q) /\ Takes(o, c, q) /\ MiscOK(p, c) /\ Full(c) /\ RecvTypes(c)
  BY ParkedIs DEF Takes
<1>2. /\ l \in Int /\ r \in Int /\ h \in Int /\ q.sent \in Nat
      /\ 1 <= l /\ l <= r - One(c.finrecv) /\ r <= h /\ h <= l + RCV_WND
      /\ c.finrecv => q.ended /\ r = q.sent + 2
      /\ ~c.finrecv => r <= q.sent + 1
      /\ Near(o, c.RCV) /\ Near(o, c.HI)
  BY <1>1, TakePlaces
<1>3. /\ S \in Int /\ 0 <= S /\ Near(o, s.seq) /\ len \in Nat
      /\ Near(o, hi) /\ Pos(o, hi) = S + len
      /\ 1 <= S /\ S + len <= q.sent + 1
  BY TextPlaces
<1> DEFINE e == S + len
<1>4. s.data = Run(S - 1, e - 1) /\ (Has(s, "FIN") => q.ended /\ e = q.sent + 1)
  BY DEF Spoken
<1>5. S <= r /\ r < S + len /\ r < h
  BY <1>2, <1>3, Compare
<1>6. c.got = Run(0, l - 1) /\ c.rcvd = Run(l - 1, r - 1 - One(c.finrecv))
  BY <1>1 DEF Takes
<1>7. c.finrecv \in BOOLEAN
  BY <1>1 DEF RecvTypes
<1>8. skip = r - S
  <2>1. Pos(o, c.RCV) >= Pos(o, s.seq) => Diff(c.RCV, s.seq) = Pos(o, c.RCV) - Pos(o, s.seq)
    BY <1>2, <1>3, Compare
  <2> QED
    BY <1>2, <1>3, <1>5, <2>1
<1>9. cut <=> S + len > h
  BY <1>2, <1>3, Compare
<1> DEFINE x == IF S + len > h THEN h ELSE S + len
<1>10. Near(o, upto) /\ Pos(o, upto) = x /\ upto \in Num
  BY <1>2, <1>3, <1>9 DEF Near
<1>11. Lmod4G(upto, c.HI) <=> x < h
  BY <1>2, <1>10, Compare
<1>12. Diff(upto, c.RCV) = x - r
  <2>1. Pos(o, upto) >= Pos(o, c.RCV) => Diff(upto, c.RCV) = Pos(o, upto) - Pos(o, c.RCV)
    BY <1>2, <1>10, Compare
  <2> HIDE DEF l, r, h, S, len, upto
  <2>2. x >= r
    BY <1>2, <1>3, <1>5
  <2> QED
    BY <1>10, <2>1, <2>2 DEF r
<1>13. t = [c EXCEPT !.rcvd = @ \o SubSeq(s.data, skip + 1, skip + Diff(upto, c.RCV)),
                     !.push = @ \/ Has(s, "PSH"),
                     !.RCV = Add(upto, IF fin THEN 1 ELSE 0),
                     !.finrecv = @ \/ fin]
  BY DEF Append_data
<1>14. fin <=> Has(s, "FIN") /\ ~cut /\ ~c.finrecv /\ x < h
  BY <1>11
<1> HIDE DEF l, r, h, S, len, skip, hi, cut, upto, x, fin, e
<1>15. ~c.finrecv
  BY <1>2, <1>3, <1>5
<1> DEFINE w == IF fin THEN 1 ELSE 0
<1>16. /\ x \in Int /\ r < x /\ x <= h /\ x <= S + len /\ x <= q.sent + 1
       /\ fin => x = q.sent + 1 /\ x < h /\ q.ended
  BY <1>2, <1>3, <1>4, <1>5, <1>9, <1>14 DEF x, e
<1>17. Add(upto, w) \in Num /\ Pos(o, Add(upto, w)) = x + w
  <2>1. 2 * (q.sent + RCV_WND + 4) <= SeqSpace
    BY DEF Room
  <2>2. w \in Int /\ (w = 0 \/ w = 1)
    OBVIOUS
  <2> HIDE DEF w
  <2>3. x \in Int /\ 0 <= x /\ x <= q.sent + 1 /\ q.sent \in Nat
    BY <1>2, <1>15, <1>16 DEF One
  <2>4. 0 <= x + w /\ x + w < SeqSpace /\ - SeqSpace <= w /\ w <= SeqSpace
    BY <2>1, <2>2, <2>3, Space
  <2> QED
    BY <1>10, <2>2, <2>4, PosAdd
<1>18. Keeps(c, t, {"rcvd", "push", "RCV", "finrecv"})
  BY <1>1, <1>13 DEF Full, Keeps
<1>19. /\ t.rcvd = c.rcvd \o SubSeq(s.data, skip + 1, skip + Diff(upto, c.RCV))
       /\ t.RCV = Add(upto, w) /\ t.finrecv = (c.finrecv \/ fin)
  BY <1>1, <1>13 DEF Full, Names
<1>20. /\ t.LO = c.LO /\ t.HI = c.HI /\ t.advseq = c.advseq /\ t.got = c.got /\ t.adv = c.adv
  BY <1>18 DEF Keeps, Names
<1>21. t.finrecv = fin /\ One(t.finrecv) = w /\ fin \in BOOLEAN
  BY <1>14, <1>15, <1>19 DEF One
<1>22. RecvTypes(t)
  BY <1>1, <1>17, <1>19, <1>20, <1>21 DEF RecvTypes
<1>23. Pos(o, t.LO) = l /\ Pos(o, t.RCV) = x + w /\ Pos(o, t.HI) = h
  BY <1>17, <1>19, <1>20 DEF l, h
<1>24. /\ l <= x /\ x + w <= h /\ r <= x + w
       /\ fin => x + w = q.sent + 2 /\ q.ended
       /\ ~fin => x + w <= q.sent + 1
       /\ x + w - w = x /\ x + w - 1 - w = x - 1
  BY <1>2, <1>15, <1>16 DEF One
<1>25. RecvOrder(o, t, q)
  <2>1. w \in Int /\ x \in Int
    BY <1>16
  <2>2. 1 <= l /\ h <= l + RCV_WND
    BY <1>2
  <2>3. l <= x + w - w
    BY <1>24
  <2> HIDE DEF w
  <2> QED
    BY <1>21, <1>23, <1>24, <2>1, <2>2, <2>3 DEF RecvOrder
<1>26. t.rcvd = Run(l - 1, x - 1)
  <2> DEFINE a == S - 1
             b == S + len - 1
             i == r - S + 1
             j == r - S + (x - r)
             y == l - 1
             z == r - 1
             v == x - 1
  <2>1. /\ a \in Nat /\ b \in Nat /\ a <= b /\ i \in Nat \ {0} /\ j \in Nat
        /\ i <= j + 1 /\ j <= b - a
    <3>1. S \in Int /\ len \in Nat /\ r \in Int /\ x \in Int /\ 1 <= S /\ S <= r /\ r < x /\ x <= S + len
      BY <1>2, <1>3, <1>5, <1>16
    <3> QED
      BY <3>1
  <2>2. a + i - 1 = z /\ a + j = v
    BY <1>2, <1>3, <1>16
  <2>3. y \in Nat /\ z \in Nat /\ v \in Nat /\ y <= z /\ z <= v
    BY <1>2, <1>15, <1>16 DEF One
  <2>4. c.rcvd = Run(y, z)
    <3>1. r - 1 - One(c.finrecv) = z
      BY <1>2, <1>15 DEF One
    <3> QED
      BY <1>6, <3>1
  <2>5. t.rcvd = Run(y, z) \o SubSeq(Run(a, b), i, j)
    <3>1. s.data = Run(a, b)
      <4>1. S - 1 = a /\ e - 1 = b
        BY <1>3 DEF e
      <4> HIDE DEF a, b
      <4> QED
        BY <1>4, <4>1
    <3>2. skip + 1 = i /\ skip + Diff(upto, c.RCV) = j
      BY <1>8, <1>12
    <3> HIDE DEF a, b, i, j, y, z, v
    <3> QED
      BY <1>19, <2>4, <3>1, <3>2
  <2> HIDE DEF a, b, i, j, y, z, v
  <2>6. SubSeq(Run(a, b), i, j) = Run(a + i - 1, a + j)
    BY <2>1, RunPart
  <2>7. Run(y, z) \o Run(z, v) = Run(y, v)
    BY <2>3, RunNext
  <2> QED
    BY <2>2, <2>5, <2>6, <2>7 DEF y, v
<1>27. Takes(o, t, q)
  <2>1. t.got = Run(0, Pos(o, t.LO) - 1)
    BY <1>6, <1>20, <1>23
  <2>2. Pos(o, t.LO) - 1 = l - 1 /\ Pos(o, t.RCV) - 1 - One(t.finrecv) = x - 1
    <3>1. x + w - 1 - w = x - 1
      BY <1>24
    <3>2. l \in Int /\ x \in Int /\ w \in Int
      BY <1>2, <1>16
    <3> HIDE DEF w
    <3> QED
      BY <1>21, <1>23, <3>1, <3>2
  <2> QED
    BY <1>22, <1>25, <1>26, <2>1, <2>2 DEF Takes
<1>28. MiscOK(p, t)
  <2>1. {"rcvd", "push", "RCV", "finrecv"} \cap MiscFields = {}
    BY DEF MiscFields
  <2> QED
    BY <1>1, <1>18, <2>1, MiscFrame
<1>29. Parked(o, t, q)
  BY <1>1, <1>20 DEF Parked
<1>30. Pos(o, c.RCV) <= Pos(o, t.RCV)
  BY <1>23, <1>24 DEF r
<1> QED
  BY <1>18, <1>27, <1>28, <1>29, <1>30

(* Data held in advance that RCV has reached joins what was received. *)
Joined(c) ==
  LET skip == Diff(c.RCV, c.advseq)
  IN [[c EXCEPT !.adv = <<>>] EXCEPT !.rcvd = @ \o SubSeq(c.adv, skip + 1, Len(c.adv)),
                                     !.RCV = Add(@, Len(c.adv) - skip)]

LEMMA AdvancedJoins ==
  ASSUME NEW p \in Peer, NEW o \in Peer, NEW c, NEW q, MiscOK(p, c), Takes(o, c, q),
         Parked(o, c, q), Room(p, q), c.state # "CLOSED", c.adv # <<>>,
         ~Gmod4G(c.advseq, c.RCV),
         Diff(c.RCV, c.advseq) < Len(c.adv), NEW u, u = Joined(c)
  PROVE  /\ Takes(o, u, q) /\ Parked(o, u, q) /\ MiscOK(p, u)
         /\ Keeps(c, u, {"adv", "rcvd", "RCV"}) /\ u.adv = <<>>
         /\ Pos(o, c.RCV) <= Pos(o, u.RCV)
<1> DEFINE l == Pos(o, c.LO)
           r == Pos(o, c.RCV)
           h == Pos(o, c.HI)
           v == Pos(o, c.advseq)
           e == v + Len(c.adv)
           skip == Diff(c.RCV, c.advseq)
<1>1. Full(c) /\ RecvTypes(c)
  BY DEF MiscOK, Takes
<1>2. /\ l \in Int /\ r \in Int /\ h \in Int /\ q.sent \in Nat
      /\ 1 <= l /\ l <= r - One(c.finrecv) /\ r <= h /\ h <= l + RCV_WND
      /\ c.finrecv => q.ended /\ r = q.sent + 2
      /\ ~c.finrecv => r <= q.sent + 1
      /\ Near(o, c.RCV) /\ Near(o, c.HI) /\ c.got \in Seq(Nat)
  BY TakePlaces
<1>3. v \in Int /\ 0 <= v
  BY <1>1, PosType DEF RecvTypes
<1>4. /\ 1 <= v /\ e <= q.sent + 1 /\ e <= h /\ c.adv \in Seq(Nat) /\ c.adv = Run(v - 1, e - 1)
  BY DEF Parked
<1>5. Len(c.adv) \in Nat
  BY <1>4
<1>6. Near(o, c.advseq)
  <2>1. 2 * (q.sent + RCV_WND + 4) <= SeqSpace
    BY DEF Room
  <2>2. v <= q.sent + 1
    BY <1>2, <1>3, <1>4, <1>5, SMTT(20)
  <2>3. 2 * v < SeqSpace
    <3> HIDE DEF l, r, h, v, e
    <3> QED
      BY <1>2, <1>3, <2>1, <2>2, Space
  <2> QED
    BY <1>1, <2>3 DEF Near, RecvTypes
<1>7. v <= r /\ skip = r - v
  <2>1. Gmod4G(c.advseq, c.RCV) <=> v > r
    BY <1>2, <1>6, Compare
  <2>2. v <= r
    BY <1>2, <1>3, <2>1
  <2>3. Pos(o, c.RCV) >= Pos(o, c.advseq) => Diff(c.RCV, c.advseq) = Pos(o, c.RCV) - Pos(o, c.advseq)
    BY <1>2, <1>6, Compare
  <2> QED
    BY <1>2, <1>3, <2>2, <2>3
<1> DEFINE n == Len(c.adv)
           k == n - skip
<1>8. u = [c EXCEPT !.adv = <<>>, !.rcvd = @ \o SubSeq(c.adv, skip + 1, n), !.RCV = Add(@, k)]
  BY <1>1 DEF Joined, Full, Names
<1>9. Keeps(c, u, {"adv", "rcvd", "RCV"}) /\ u.adv = <<>> /\ u.RCV = Add(c.RCV, k)
      /\ u.rcvd = c.rcvd \o SubSeq(c.adv, skip + 1, n)
  <2> HIDE DEF k, skip, n
  <2> QED
    BY <1>1, <1>8 DEF Full, Keeps, Names
<1> HIDE DEF l, r, h, v, skip, k, n, e
<1>10. /\ n \in Nat /\ e = v + n /\ k = n - skip /\ skip < n
  BY <1>5 DEF n, e, k, skip
<1>11. r < e /\ r + k = e /\ k \in Int /\ 0 <= k /\ k <= n
  BY <1>2, <1>3, <1>7, <1>10
<1>12. ~c.finrecv
  BY <1>2, <1>3, <1>4, <1>10, <1>11, SMTT(20)
<1>13. Add(c.RCV, k) \in Num /\ Pos(o, Add(c.RCV, k)) = e
  <2>1. 2 * (q.sent + RCV_WND + 4) <= SeqSpace
    BY DEF Room
  <2>2. e \in Int /\ 0 <= e /\ e <= q.sent + 1 /\ n <= e
    BY <1>3, <1>4, <1>10
  <2>3. 0 <= r + k /\ r + k < SeqSpace /\ - SeqSpace <= k /\ k <= SeqSpace
    <3>1. r + k = e /\ k \in Int /\ 0 <= k /\ k <= e /\ q.sent \in Nat
      BY <1>2, <1>10, <1>11, <2>2
    <3> QED
      BY <2>1, <2>2, <3>1, Space
  <2>4. c.RCV \in Num
    BY <1>1 DEF RecvTypes
  <2> QED
    BY <1>11, <2>3, <2>4, PosAdd DEF r
<1>14. /\ u.LO = c.LO /\ u.HI = c.HI /\ u.advseq = c.advseq /\ u.finrecv = c.finrecv
       /\ u.got = c.got /\ u.state = c.state
  BY <1>9 DEF Keeps, Names
<1>15. RecvTypes(u)
  BY <1>1, <1>9, <1>13, <1>14 DEF RecvTypes
<1>16. Pos(o, u.LO) = l /\ Pos(o, u.RCV) = e /\ Pos(o, u.HI) = h /\ One(u.finrecv) = 0
  BY <1>9, <1>12, <1>13, <1>14 DEF l, h, One
<1>17. e \in Int /\ l <= e /\ e <= q.sent + 1 /\ e <= h /\ r <= e /\ e - 0 = e /\ e - 1 - 0 = e - 1
  BY <1>2, <1>3, <1>4, <1>10, <1>11, <1>12 DEF One
<1>18. RecvOrder(o, u, q)
  <2>1. 1 <= l /\ h <= l + RCV_WND
    BY <1>2
  <2>2. l <= e - 0
    BY <1>17
  <2> QED
    BY <1>12, <1>14, <1>16, <1>17, <2>1, <2>2 DEF RecvOrder
<1>19. u.rcvd = Run(l - 1, e - 1)
  <2> DEFINE a == v - 1
             b == e - 1
             i == skip + 1
             y == l - 1
             z == r - 1
  <2>1. /\ a \in Nat /\ b \in Nat /\ a <= b /\ i \in Nat \ {0} /\ n \in Nat
        /\ i <= n + 1 /\ n <= b - a
    BY <1>2, <1>3, <1>4, <1>7, <1>10, <1>11
  <2>2. a + i - 1 = z /\ a + n = b
    BY <1>2, <1>3, <1>7, <1>10
  <2>3. y \in Nat /\ z \in Nat /\ y <= z /\ z <= b
    BY <1>2, <1>12, <1>17 DEF One
  <2>4. c.rcvd = Run(y, z)
    <3>1. r - 1 - One(c.finrecv) = z
      BY <1>2, <1>12 DEF One
    <3>2. c.rcvd = Run(l - 1, r - 1 - One(c.finrecv))
      BY DEF Takes, l, r
    <3> QED
      BY <3>1, <3>2
  <2>5. u.rcvd = Run(y, z) \o SubSeq(Run(a, b), i, n)
    BY <1>4, <1>9, <2>4
  <2> HIDE DEF a, b, i, y, z
  <2>6. SubSeq(Run(a, b), i, n) = Run(a + i - 1, a + n)
    BY <2>1, RunPart
  <2>7. Run(y, z) \o Run(z, b) = Run(y, b)
    BY <2>1, <2>3, RunNext
  <2> QED
    BY <2>2, <2>5, <2>6, <2>7 DEF y, b
<1>20. Takes(o, u, q)
  <2>1. u.got = Run(0, Pos(o, u.LO) - 1)
    BY <1>14 DEF Takes
  <2>2. Pos(o, u.LO) - 1 = l - 1 /\ Pos(o, u.RCV) - 1 - One(u.finrecv) = e - 1
    BY <1>16, <1>17
  <2> QED
    BY <1>15, <1>18, <1>19, <2>1, <2>2 DEF Takes
<1>21. MiscOK(p, u)
  <2>1. {"adv", "rcvd", "RCV"} \cap MiscFields = {}
    BY DEF MiscFields
  <2> QED
    BY <1>9, <2>1, MiscFrame
<1>22. Parked(o, u, q) /\ Full(u) /\ u.state # "CLOSED"
  BY <1>9, <1>14 DEF Parked, Keeps
<1> QED
  BY <1>9, <1>16, <1>17, <1>20, <1>21, <1>22 DEF r

(* The data held in advance follows, or is behind by now. *)
LEMMA AdvancedTakes ==
  ASSUME NEW p \in Peer, NEW o \in Peer, NEW c, NEW q, MiscOK(p, c), Takes(o, c, q),
         Parked(o, c, q), Room(p, q), c.state # "CLOSED", NEW fin, NEW t, t = UseAdvanced(c, fin)
  PROVE  /\ Recvs(o, t, q) /\ MiscOK(p, t)
         /\ Keeps(c, t, ReadFields \cup {"adv", "RCV"}) /\ Len(c.got) <= Len(t.got)
         /\ Pos(o, c.HI) <= Pos(o, t.HI) /\ Pos(o, c.RCV) <= Pos(o, t.RCV)
<1> DEFINE l == Pos(o, c.LO)
           r == Pos(o, c.RCV)
           h == Pos(o, c.HI)
           v == Pos(o, c.advseq)
           e == v + Len(c.adv)
           skip == Diff(c.RCV, c.advseq)
           taken == [c EXCEPT !.adv = <<>>]
           u == [taken EXCEPT !.rcvd = @ \o SubSeq(c.adv, skip + 1, Len(c.adv)),
                              !.RCV = Add(@, Len(c.adv) - skip)]
           S == ReadFields \cup {"adv", "RCV"}
<1>1. Full(c) /\ RecvTypes(c)
  BY DEF MiscOK, Takes
<1>2. /\ l \in Int /\ r \in Int /\ h \in Int /\ q.sent \in Nat
      /\ 1 <= l /\ l <= r - One(c.finrecv) /\ r <= h /\ h <= l + RCV_WND
      /\ c.finrecv => q.ended /\ r = q.sent + 2
      /\ ~c.finrecv => r <= q.sent + 1
      /\ Near(o, c.RCV) /\ Near(o, c.HI) /\ c.got \in Seq(Nat)
  BY TakePlaces
<1>3. v \in Int /\ 0 <= v
  BY <1>1, PosType DEF RecvTypes
<1>4. t = c \/ t = taken \/ (t = ReadIfPosted(u) /\ c.adv # <<>> /\ ~Gmod4G(c.advseq, c.RCV)
                             /\ skip < Len(c.adv))
  <2>1. c.adv # <<>> => c.adv \in Seq(Nat)
    BY DEF Parked
  <2>2. c.adv # <<>> => Len(c.adv) \in Nat
    BY <2>1
  <2>3. skip \in Num /\ skip \in Int
    <3>1. c.RCV \in Num /\ c.advseq \in Num
      BY <1>1 DEF RecvTypes
    <3>2. skip \in Num
      BY <3>1, DiffIs
    <3> QED
      BY <3>2, Space DEF Num
  <2> HIDE DEF skip, taken, u
  <2>4. skip >= Len(c.adv) \/ skip < Len(c.adv) \/ c.adv = <<>>
    BY <2>2, <2>3
  <2> QED
    BY <2>4 DEF UseAdvanced, skip, taken, u
<1>5. t = c => c.adv = <<>> \/ Gmod4G(c.advseq, c.RCV)
  <2>1. CASE c.adv # <<>> /\ ~Gmod4G(c.advseq, c.RCV) /\ t = c
    <3>1. t = taken \/ t = ReadIfPosted(u)
      BY <2>1 DEF UseAdvanced
    <3>2. taken.adv = <<>> /\ u.adv = <<>> /\ Full(u)
      BY <1>1 DEF Full, Names
    <3>3. ReadIfPosted(u).adv = <<>>
      <4> HIDE DEF u
      <4>1. Keeps(u, ReadIfPosted(u), ReadFields)
        BY <3>2, FrameReadIfPosted
      <4> QED
        BY <3>2, <4>1 DEF Keeps, ReadFields, ReplyReadFields, Names
    <3> QED
      BY <2>1, <3>1, <3>2, <3>3
  <2> QED
    BY <2>1
<1>6. Pos(o, c.HI) <= Pos(o, c.HI) /\ Pos(o, c.RCV) <= Pos(o, c.RCV) /\ Len(c.got) <= Len(c.got)
  BY <1>2
<1>7. CASE t = c
  <2>1. Recvs(o, c, q)
    <3>1. CASE c.adv = <<>>
      BY <3>1 DEF Recvs
    <3>2. CASE c.adv # <<>>
      <4>1. Gmod4G(c.advseq, c.RCV)
        BY <1>5, <1>7, <3>2
      <4>2. /\ e <= q.sent + 1 /\ e <= h /\ c.adv \in Seq(Nat) /\ c.adv = Run(v - 1, e - 1)
        BY <3>2 DEF Parked
      <4>3. 2 * v < SeqSpace
        <5>1. Len(c.adv) \in Nat /\ 2 * (q.sent + RCV_WND + 4) <= SeqSpace
          BY <4>2 DEF Room
        <5> HIDE DEF l, r, h, v
        <5> QED
          BY <1>2, <1>3, <4>2, <5>1, Space, SMTT(20)
      <4>4. Near(o, c.advseq)
        BY <1>1, <4>3 DEF Near, RecvTypes
      <4>5. v > r
        BY <1>2, <4>1, <4>4, Compare
      <4> QED
        BY <4>2, <4>5 DEF Recvs, Ahead
    <3> QED
      BY <3>1, <3>2
  <2>2. Keeps(c, c, S)
    BY <1>1, KeepsSelf
  <2> QED
    BY <1>6, <1>7, <2>1, <2>2
<1>8. Keeps(c, taken, {"adv"}) /\ taken.adv = <<>>
  BY <1>1 DEF Full, Keeps, Names
<1>9. MiscOK(p, taken) /\ Takes(o, taken, q)
  <2>1. {"adv"} \cap MiscFields = {} /\ {"adv"} \cap TakeFields = {}
    BY DEF MiscFields, TakeFields
  <2> HIDE DEF taken
  <2> QED
    BY <1>8, <2>1, MiscFrame, TakesFrame
<1>10. CASE t = taken
  <2>1. Recvs(o, taken, q)
    BY <1>8, <1>9 DEF Recvs
  <2>2. taken.HI = c.HI /\ taken.RCV = c.RCV /\ taken.got = c.got
    BY <1>8 DEF Keeps, Names
  <2>3. Keeps(c, taken, S)
    BY <1>8 DEF Keeps
  <2> HIDE DEF taken
  <2> QED
    BY <1>6, <1>9, <1>10, <2>1, <2>2, <2>3
<1>11. CASE t = ReadIfPosted(u) /\ c.adv # <<>> /\ ~Gmod4G(c.advseq, c.RCV) /\ skip < Len(c.adv)
  <2>1. /\ Takes(o, u, q) /\ Parked(o, u, q) /\ MiscOK(p, u)
        /\ Keeps(c, u, {"adv", "rcvd", "RCV"}) /\ u.adv = <<>>
        /\ Pos(o, c.RCV) <= Pos(o, u.RCV)
    BY <1>11, AdvancedJoins DEF Joined
  <2> HIDE DEF u, l, r, h, v, skip, e
  <2>2. u.HI = c.HI /\ u.got = c.got /\ u.state # "CLOSED" /\ Full(u)
    BY <2>1 DEF Keeps, Names
  <2>20. Read1(o, u, t) /\ MiscOK(p, t) /\ Takes(o, t, q)
    BY <1>11, <2>1, <2>2, ReadHere
  <2>21. t.adv = <<>> /\ t.RCV = u.RCV
    BY <2>1, <2>20 DEF Read1, Keeps, ReadFields, ReplyReadFields, Names
  <2>22. Recvs(o, t, q)
    BY <2>20, <2>21 DEF Recvs
  <2>23. Keeps(c, t, S)
    BY <2>1, <2>20 DEF Read1, Keeps, ReadFields
  <2>24. Len(c.got) <= Len(t.got) /\ Pos(o, c.HI) <= Pos(o, t.HI) /\ Pos(o, c.RCV) <= Pos(o, t.RCV)
    BY <2>1, <2>2, <2>20, <2>21 DEF Read1
  <2> QED
    BY <2>20, <2>22, <2>23, <2>24
<1> HIDE DEF u, taken
<1> QED
  BY <1>4, <1>7, <1>10, <1>11

\* A segment whose data is at most at RCV.
LEMMA LiveData ==
  ASSUME NEW p \in Peer, NEW o \in Peer, NEW c, NEW q, Live(p, o, c, q), Room(p, q),
         NEW s \in Segment, Spoken(o, s, q), s.data # <<>>, LEmod4G(s.seq, c.RCV),
         Pos(o, s.seq) + Len(s.data) > Pos(o, c.RCV), Pos(o, c.RCV) < Pos(o, c.HI),
         NEW u, u = process_data(c, s)
  PROVE  Moves(p, o, c, u, q)
<1> DEFINE t == Append_data(c, s)
           r == ReadIfPosted(t)
           fin == Has(s, "FIN") /\ LEmod4G(Add(s.seq, Len(s.data)), c.HI)
           S == ReadFields \cup {"adv", "RCV", "finrecv"}
<1>1. /\ Takes(o, t, q) /\ Parked(o, t, q) /\ MiscOK(p, t)
      /\ Keeps(c, t, {"rcvd", "push", "RCV", "finrecv"})
      /\ Pos(o, c.RCV) <= Pos(o, t.RCV)
  BY AppendTakes
<1> HIDE DEF t
<1>2. t.state = c.state /\ t.got = c.got /\ t.HI = c.HI /\ Full(t)
  BY <1>1 DEF Keeps, Names
<1>3. Full(c) /\ c.state # "CLOSED"
  BY DEF Live, MiscOK, Connected
<1>4. Read1(o, t, r) /\ MiscOK(p, r) /\ Takes(o, r, q) /\ Parked(o, r, q)
  BY <1>1, <1>2, <1>3, ReadHere
<1> HIDE DEF r
<1>5. r.state = t.state /\ r.RCV = t.RCV
  BY <1>4 DEF Read1, Keeps, ReadFields, ReplyReadFields, Names
<1>6. u = UseAdvanced(r, fin)
  BY DEF process_data, t, r
<1> HIDE DEF fin
<1>7. /\ Recvs(o, u, q) /\ MiscOK(p, u)
      /\ Keeps(r, u, ReadFields \cup {"adv", "RCV"}) /\ Len(r.got) <= Len(u.got)
      /\ Pos(o, r.HI) <= Pos(o, u.HI) /\ Pos(o, r.RCV) <= Pos(o, u.RCV)
  BY <1>2, <1>3, <1>4, <1>5, <1>6, AdvancedTakes
<1>8. Keeps(c, u, S)
  BY <1>1, <1>4, <1>7 DEF Keeps, Read1, ReadFields
<1>9. S \cap (SendFields \cup {"state", "connected"}) = {}
  BY DEF ReadFields, ReplyReadFields, SendFields
<1> HIDE DEF S
<1>10. Len(c.got) <= Len(u.got) /\ Pos(o, c.HI) <= Pos(o, u.HI) /\ Pos(o, c.RCV) <= Pos(o, u.RCV)
  <2>1. Len(c.got) <= Len(r.got) /\ Pos(o, c.HI) <= Pos(o, r.HI) /\ Pos(o, c.RCV) <= Pos(o, r.RCV)
    BY <1>1, <1>2, <1>4, <1>5 DEF Read1
  <2>2. c.got \in Seq(Nat) /\ r.got \in Seq(Nat) /\ u.got \in Seq(Nat)
    BY <1>4, <1>7, LiveTypes, TakePlaces DEF Recvs
  <2>3. Len(c.got) \in Int /\ Len(r.got) \in Int /\ Len(u.got) \in Int
    BY <2>2
  <2>4. /\ c.HI \in Num /\ r.HI \in Num /\ u.HI \in Num /\ c.RCV \in Num /\ r.RCV \in Num /\ u.RCV \in Num
    BY <1>4, <1>7, LiveTypes DEF Recvs, Takes, RecvTypes
  <2>5. /\ Pos(o, c.HI) \in Int /\ Pos(o, r.HI) \in Int /\ Pos(o, u.HI) \in Int
        /\ Pos(o, c.RCV) \in Int /\ Pos(o, r.RCV) \in Int /\ Pos(o, u.RCV) \in Int
    BY <2>4, PosType
  <2> QED
    BY <1>7, <2>1, <2>3, <2>5
<1> QED
  BY <1>7, <1>8, <1>9, <1>10, TakeStep

LEMMA LiveAckBack ==
  ASSUME NEW p \in Peer, NEW o \in Peer, NEW c, NEW q, Live(p, o, c, q)
  PROVE  Moves(p, o, c, AckBack(c), q)
<1>1. Keeps(c, AckBack(c), {"more", "sendack"})
  BY FrameAckBack DEF Live, MiscOK
<1> QED
  BY <1>1, LiveFrame DEF LiveFields, MiscFields, SendFields, RecvFields, TakeFields

(* Data ahead of RCV is kept if it makes one run with what is held. *)
LEMMA LiveAdvanced ==
  ASSUME NEW p \in Peer, NEW o \in Peer, NEW c, NEW q, Live(p, o, c, q), Room(p, q),
         NEW s \in Segment, Spoken(o, s, q), s.data # <<>>, Gmod4G(s.seq, c.RCV),
         NEW t, t = process_advanced_data(c, s)
  PROVE  Moves(p, o, c, t, q)
<1> DEFINE r == Pos(o, c.RCV)
           h == Pos(o, c.HI)
           S == Pos(o, s.seq)
           hi == Add(s.seq, Len(s.data))
           x == S + Len(s.data)
           ack == AckBack(c)
           pushed == [ack EXCEPT !.push = @ \/ Has(s, "PSH")]
           v == Pos(o, c.advseq)
           e == v + Len(c.adv)
           F == {"more", "sendack", "push", "adv", "advseq"}
<1>1. Takes(o, c, q) /\ MiscOK(p, c) /\ Full(c) /\ RecvTypes(c)
  BY ParkedIs DEF Takes
<1>2. /\ r \in Int /\ h \in Int /\ q.sent \in Nat /\ r <= h /\ Near(o, c.RCV) /\ Near(o, c.HI)
      /\ 1 <= r
  <2>1. /\ r \in Int /\ h \in Int /\ q.sent \in Nat /\ r <= h /\ Near(o, c.RCV) /\ Near(o, c.HI)
        /\ 1 <= Pos(o, c.LO) /\ Pos(o, c.LO) <= r - One(c.finrecv) /\ Pos(o, c.LO) \in Int
    BY <1>1, TakePlaces
  <2> QED
    BY <2>1 DEF One
<1>3. /\ S \in Int /\ 0 <= S /\ Near(o, s.seq) /\ Len(s.data) \in Nat /\ s.data \in Seq(Nat)
      /\ Near(o, hi) /\ Pos(o, hi) = x /\ Len(s.data) >= 1
      /\ 1 <= S /\ x <= q.sent + 1
  BY TextPlaces
<1>4. s.data = Run(S - 1, x - 1)
  BY DEF Spoken
<1>5. S > r
  BY <1>2, <1>3, Compare
<1>6. Gmod4G(hi, c.HI) <=> x > h
  BY <1>2, <1>3, Compare
<1>7. Keeps(c, pushed, {"more", "sendack", "push"})
  <2>1. Keeps(c, ack, {"more", "sendack"})
    BY <1>1, FrameAckBack
  <2> HIDE DEF ack
  <2> QED
    BY <2>1 DEF Full, Keeps
<1> DEFINE t1 == [pushed EXCEPT !.adv = s.data, !.advseq = s.seq]
           t2 == [pushed EXCEPT !.adv = s.data \o @, !.advseq = s.seq]
           t3 == [pushed EXCEPT !.adv = @ \o s.data]
<1>8. \/ t = pushed
      \/ t = t1 /\ x <= h /\ c.adv = <<>>
      \/ t = t2 /\ x <= h /\ c.adv # <<>> /\ hi = c.advseq
      \/ t = t3 /\ x <= h /\ c.adv # <<>> /\ Add(c.advseq, Len(c.adv)) = s.seq
  <2>1. ~Gmod4G(hi, c.HI) => x <= h
    BY <1>2, <1>3, <1>6
  <2> HIDE DEF pushed
  <2> QED
    BY <2>1 DEF process_advanced_data, pushed, ack
<1> HIDE DEF ack
<1>9. pushed.adv = c.adv /\ pushed.advseq = c.advseq /\ Full(pushed)
  BY <1>7 DEF Keeps, Names
<1> HIDE DEF pushed
<1>10. /\ Keeps(c, t1, F) /\ Keeps(c, t2, F) /\ Keeps(c, t3, F) /\ Keeps(c, pushed, F)
  BY <1>7 DEF Full, Keeps
<1>11. /\ t1.adv = s.data /\ t1.advseq = s.seq
       /\ t2.adv = s.data \o c.adv /\ t2.advseq = s.seq
       /\ t3.adv = c.adv \o s.data /\ t3.advseq = c.advseq
  BY <1>9 DEF Full, Names
<1>12. Keeps(c, t, F)
  BY <1>8, <1>10
<1>13. c.adv # <<>> => /\ v > r /\ e <= q.sent + 1 /\ e <= h
                       /\ c.adv \in Seq(Nat) /\ c.adv = Run(v - 1, e - 1)
  BY DEF Live, Recvs, Ahead
<1>14. v \in Int /\ 0 <= v
  BY <1>1, PosType DEF RecvTypes
<1>15. t.HI = c.HI /\ t.RCV = c.RCV /\ t.LO = c.LO /\ t.finrecv = c.finrecv /\ t.got = c.got
       /\ t.rcvd = c.rcvd
  BY <1>12 DEF Keeps, Names
<1> HIDE DEF t1, t2, t3, r, h, S, hi, x, v, e
<1> DEFINE y == Pos(o, t.advseq)
           z == y + Len(t.adv)
<1>16. t.adv = <<>> \/ /\ y > r /\ z <= q.sent + 1 /\ z <= h
                       /\ t.adv \in Seq(Nat) /\ t.adv = Run(y - 1, z - 1)
  <2>1. CASE t = pushed
    BY <1>9, <1>13, <2>1 DEF v, e
  <2>2. CASE t = t1 /\ x <= h
    BY <1>3, <1>4, <1>5, <1>11, <2>2 DEF S, x
  <2>3. CASE t = t2 /\ x <= h /\ c.adv # <<>> /\ hi = c.advseq
    <3>1. x = v
      BY <1>3, <2>3 DEF v
    <3> DEFINE a == S - 1
               b == x - 1
               d == e - 1
    <3>2. Len(c.adv) \in Nat /\ e = v + Len(c.adv) /\ x = S + Len(s.data)
      BY <1>13, <2>3 DEF e, x
    <3>3. a \in Nat /\ b \in Nat /\ d \in Nat /\ a <= b /\ b <= d /\ a <= d
      <4>1. S \in Int /\ 1 <= S /\ Len(s.data) \in Nat /\ v \in Int
        BY <1>3, <1>14
      <4> DEFINE m == Len(s.data)
                 k == Len(c.adv)
      <4>2. m \in Nat /\ k \in Nat /\ x = S + m /\ e = v + k
        BY <3>2, <4>1
      <4> HIDE DEF m, k
      <4>3. x \in Int /\ S <= x
        BY <4>1, <4>2
      <4>4. e \in Int /\ x <= e
        <5>1. e = v + k /\ v \in Int /\ k \in Nat
          BY <4>1, <4>2
        <5>2. e \in Int /\ v <= e
          BY <5>1
        <5> QED
          BY <3>1, <5>2
      <4> QED
        BY <4>1, <4>3, <4>4
    <3>4. s.data = Run(a, b) /\ c.adv = Run(b, d)
      BY <1>4, <1>13, <2>3, <3>1
    <3> HIDE DEF a, b, d
    <3>5. Run(a, b) \o Run(b, d) = Run(a, d)
      BY <3>3, RunNext
    <3>6. t.adv = Run(a, d)
      BY <1>11, <2>3, <3>4, <3>5
    <3>7. y = S
      BY <1>11, <2>3 DEF S
    <3>8. t.adv \in Seq(Nat) /\ Len(t.adv) = d - a
      BY <3>3, <3>6, RunIs
    <3>9. z = e
      <4>1. S \in Int /\ v \in Int /\ e \in Int
        BY <1>3, <1>14, <3>2
      <4> HIDE DEF y
      <4> QED
        BY <3>7, <3>8, <4>1 DEF a, d
    <3> HIDE DEF y, z
    <3> QED
      BY <1>5, <1>13, <2>3, <3>6, <3>7, <3>8, <3>9 DEF a, d
  <2>4. CASE t = t3 /\ x <= h /\ c.adv # <<>> /\ Add(c.advseq, Len(c.adv)) = s.seq
    <3>1. Len(c.adv) \in Nat /\ e = v + Len(c.adv) /\ x = S + Len(s.data)
      BY <1>13, <2>4 DEF e, x
    <3>2. e = S
      <4>1. 2 * (q.sent + RCV_WND + 4) <= SeqSpace
        BY DEF Room
      <4>2. e <= q.sent + 1 /\ Len(c.adv) <= e
        BY <1>13, <1>14, <2>4, <3>1
      <4> DEFINE k == Len(c.adv)
      <4> HIDE DEF k
      <4>3. k \in Int /\ 0 <= v + k /\ v + k < SeqSpace /\ k <= SeqSpace /\ - SeqSpace <= k
        BY <1>2, <1>14, <3>1, <4>1, <4>2, Space, SMTT(20) DEF k
      <4>4. c.advseq \in Num
        BY <1>1 DEF RecvTypes
      <4>5. Pos(o, Add(c.advseq, k)) = v + k
        BY <4>3, <4>4, PosAdd DEF v
      <4> QED
        BY <2>4, <3>1, <4>5 DEF k, S
    <3> DEFINE a == v - 1
               b == S - 1
               d == x - 1
    <3>3. a \in Nat /\ b \in Nat /\ d \in Nat /\ a <= b /\ b <= d /\ a <= d
      <4>1. v > r
        BY <1>13, <2>4
      <4> QED
        BY <1>2, <1>3, <1>14, <3>1, <3>2, <4>1
    <3>4. c.adv = Run(a, b) /\ s.data = Run(b, d)
      BY <1>4, <1>13, <2>4, <3>2
    <3> HIDE DEF a, b, d
    <3>5. Run(a, b) \o Run(b, d) = Run(a, d)
      BY <3>3, RunNext
    <3>6. t.adv = Run(a, d)
      BY <1>11, <2>4, <3>4, <3>5
    <3>7. y = v
      BY <1>11, <2>4 DEF v
    <3>8. t.adv \in Seq(Nat) /\ Len(t.adv) = d - a
      BY <3>3, <3>6, RunIs
    <3>9. z = x
      <4>1. S \in Int /\ v \in Int /\ x \in Int
        BY <1>3, <1>14, <3>1
      <4> HIDE DEF y
      <4> QED
        BY <3>7, <3>8, <4>1 DEF a, d
    <3> HIDE DEF y, z
    <3> QED
      BY <1>3, <1>13, <2>4, <3>6, <3>7, <3>8, <3>9 DEF a, d
  <2> QED
    BY <1>8, <2>1, <2>2, <2>3, <2>4
<1>17. t.advseq \in Num
  <2>1. t.advseq = c.advseq \/ t.advseq = s.seq
    BY <1>8, <1>9, <1>11
  <2> QED
    BY <1>1, <1>3, <2>1 DEF RecvTypes, Near
<1>18. Recvs(o, t, q)
  <2>1. RecvTypes(t) /\ RecvOrder(o, t, q)
    BY <1>1, <1>15, <1>17 DEF Takes, RecvTypes, RecvOrder
  <2>2. Takes(o, t, q)
    BY <1>1, <1>15, <2>1 DEF Takes
  <2>3. t.adv = <<>> \/ Ahead(o, t, q)
    BY <1>15, <1>16 DEF Ahead, r, h
  <2> QED
    BY <2>2, <2>3 DEF Recvs
<1>19. MiscOK(p, t)
  <2>1. F \cap MiscFields = {}
    BY DEF MiscFields
  <2> QED
    BY <1>1, <1>12, <2>1, MiscFrame
<1>20. F \cap (SendFields \cup {"state", "connected"}) = {}
  BY DEF SendFields
<1>21. Len(c.got) <= Len(t.got) /\ Pos(o, c.RCV) <= Pos(o, t.RCV) /\ Pos(o, c.HI) <= Pos(o, t.HI)
  BY <1>15, LiveTypes
<1> HIDE DEF F
<1> QED
  BY <1>12, <1>18, <1>19, <1>20, <1>21, TakeStep

(* An acceptable segment with data has some of it in the window. *)
LEMMA AcceptedData ==
  ASSUME NEW p \in Peer, NEW o \in Peer, NEW c, NEW q, Takes(o, c, q), Room(p, q),
         NEW s \in Segment, Spoken(o, s, q), s.data # <<>>, Acceptable(c, s)
  PROVE  Pos(o, s.seq) + Len(s.data) > Pos(o, c.RCV) /\ Pos(o, c.RCV) < Pos(o, c.HI)
<1> DEFINE r == Pos(o, c.RCV)
           h == Pos(o, c.HI)
           S == Pos(o, s.seq)
           len == Len(s.data)
           last == Add(s.seq, len - 1)
<1>1. r \in Int /\ h \in Int /\ Near(o, c.RCV) /\ Near(o, c.HI)
  BY TakePlaces
<1>2. /\ S \in Int /\ 0 <= S /\ Near(o, s.seq) /\ len \in Nat /\ len >= 1
      /\ S + len <= q.sent + 1 /\ q.sent \in Nat
  BY TextPlaces
<1>3. last \in Num /\ Pos(o, last) = S + (len - 1) /\ Near(o, last)
  <2> DEFINE k == len - 1
  <2>1. 2 * (q.sent + RCV_WND + 4) <= SeqSpace
    BY DEF Room
  <2> HIDE DEF len, S
  <2>2. /\ k \in Int /\ 0 <= S + k /\ S + k < SeqSpace /\ 2 * (S + k) < SeqSpace
        /\ - SeqSpace <= k /\ k <= SeqSpace
    BY <1>2, <2>1, Space
  <2>3. s.seq \in Num
    BY <1>2 DEF Near
  <2> HIDE DEF k
  <2>4. Add(s.seq, k) \in Num /\ Pos(o, Add(s.seq, k)) = S + k
    BY <2>2, <2>3, PosAdd DEF S
  <2> QED
    BY <2>2, <2>4 DEF k, Near
<1>4. /\ Gmod4G(c.HI, c.RCV)
      /\ LEmod4G(c.RCV, s.seq) \/ LEmod4G(c.RCV, last)
  BY <1>2 DEF Acceptable
<1>5. /\ Gmod4G(c.HI, c.RCV) <=> h > r
      /\ LEmod4G(c.RCV, s.seq) <=> r <= S
  BY <1>1, <1>2, Compare
<1>6. LEmod4G(c.RCV, last) <=> r <= Pos(o, last)
  BY <1>1, <1>3, Compare
<1> HIDE DEF r, h, S, len, last
<1>7. r < S + len /\ r < h
  BY <1>1, <1>2, <1>3, <1>4, <1>5, <1>6
<1> QED
  BY <1>7 DEF r, h, S, len

(* A FIN without data is taken once everything before it has been. *)
LEMMA LiveFin ==
  ASSUME NEW p \in Peer, NEW o \in Peer, NEW c, NEW q, Live(p, o, c, q), Room(p, q),
         NEW s \in Segment, Spoken(o, s, q), s.data = <<>>, Has(s, "FIN"), LEmod4G(s.seq, c.RCV),
         NEW t, t = [c EXCEPT !.RCV = IF ~c.finrecv /\ Lmod4G(c.RCV, c.HI) THEN Add(@, 1) ELSE @,
                              !.finrecv = @ \/ (~c.finrecv /\ Lmod4G(c.RCV, c.HI))]
  PROVE  Moves(p, o, c, t, q)
<1> DEFINE new == ~c.finrecv /\ Lmod4G(c.RCV, c.HI)
           l == Pos(o, c.LO)
           r == Pos(o, c.RCV)
           h == Pos(o, c.HI)
           S == Pos(o, s.seq)
           F == {"RCV", "finrecv"}
<1>1. Takes(o, c, q) /\ MiscOK(p, c) /\ Full(c) /\ RecvTypes(c)
  BY ParkedIs DEF Takes
<1>2. /\ l \in Int /\ r \in Int /\ h \in Int /\ q.sent \in Nat
      /\ 1 <= l /\ l <= r - One(c.finrecv) /\ r <= h /\ h <= l + RCV_WND
      /\ ~c.finrecv => r <= q.sent + 1
      /\ Near(o, c.RCV) /\ Near(o, c.HI)
  BY <1>1, TakePlaces
<1>3. S \in Int /\ Near(o, s.seq) /\ Len(s.data) = 0
  BY TextPlaces
<1>4. q.ended /\ S = q.sent + 1
  <2>1. q.ended /\ S + Len(s.data) = q.sent + 1
    BY DEF Spoken
  <2> QED
    BY <1>3, <2>1
<1>5. S <= r
  BY <1>2, <1>3, Compare
<1>6. Keeps(c, t, F) /\ t.RCV = (IF new THEN Add(c.RCV, 1) ELSE c.RCV) /\ t.finrecv = (c.finrecv \/ new)
  BY <1>1 DEF Full, Keeps, Names
<1>7. CASE ~new
  <2>1. t.RCV = c.RCV /\ t.finrecv = c.finrecv
    BY <1>1, <1>6, <1>7 DEF RecvTypes
  <2>2. Keeps(c, t, {})
    BY <1>6, <2>1 DEF Keeps, Names
  <2> QED
    BY <2>2, LiveFrame
<1>8. CASE new
  <2>1. ~c.finrecv /\ r < h
    BY <1>2, <1>8, Compare
  <2>2. r = q.sent + 1 /\ l <= r
    BY <1>2, <1>4, <1>5, <2>1 DEF One
  <2>3. Add(c.RCV, 1) \in Num /\ Pos(o, Add(c.RCV, 1)) = r + 1
    <3>1. 2 * (q.sent + RCV_WND + 4) <= SeqSpace
      BY DEF Room
    <3>2. q.sent \in Nat /\ r \in Int /\ r = q.sent + 1
      BY <1>2, <2>2
    <3>3. c.RCV \in Num
      BY <1>1 DEF RecvTypes
    <3> DEFINE one == 1
    <3>4. one \in Int /\ 0 <= r + one /\ r + one < SeqSpace /\ - SeqSpace <= one /\ one <= SeqSpace
      <4> DEFINE sent == q.sent
      <4>1. sent \in Nat /\ r \in Int /\ r = sent + 1 /\ 2 * (sent + RCV_WND + 4) <= SeqSpace
        BY <3>1, <3>2
      <4> HIDE DEF r, sent
      <4>2. r + 1 <= sent + RCV_WND + 4 /\ 0 <= r + 1 /\ r + 1 < SeqSpace
        BY <4>1, Space, SMTT(20)
      <4>3. SeqSpace \in Nat \ {0}
        BY Space
      <4> QED
        BY <4>2, <4>3
    <3> HIDE DEF one
    <3>5. Add(c.RCV, one) \in Num /\ Pos(o, Add(c.RCV, one)) = r + one
      BY <3>3, <3>4, PosAdd
    <3> QED
      BY <3>5 DEF one
  <2>4. t.RCV = Add(c.RCV, 1) /\ t.finrecv = TRUE
    BY <1>6, <1>8
  <2>5. /\ t.LO = c.LO /\ t.HI = c.HI /\ t.advseq = c.advseq /\ t.got = c.got /\ t.adv = c.adv
        /\ t.rcvd = c.rcvd
    BY <1>6 DEF Keeps, Names
  <2>6. RecvTypes(t)
    BY <1>1, <2>3, <2>4, <2>5 DEF RecvTypes
  <2>7. Pos(o, t.LO) = l /\ Pos(o, t.RCV) = r + 1 /\ Pos(o, t.HI) = h /\ One(t.finrecv) = 1
    BY <2>3, <2>4, <2>5 DEF One
  <2> HIDE DEF l, r, h, S, new
  <2>8. /\ 1 <= l /\ l <= r + 1 - 1 /\ r + 1 <= h /\ h <= l + RCV_WND /\ r + 1 = q.sent + 2
        /\ r + 1 - 1 - 1 = r - 1 /\ r <= r + 1
    BY <1>2, <2>1, <2>2
  <2>50. r \in Int /\ l \in Int /\ h \in Int
    BY <1>2 DEF l, r, h
  <2>9. RecvOrder(o, t, q)
    <3>1. q.ended /\ t.finrecv
      BY <1>4, <2>4
    <3>2. /\ 1 <= l /\ l <= r + 1 - 1 /\ r + 1 <= h /\ h <= l + RCV_WND /\ r + 1 = q.sent + 2
      BY <2>8
    <3> QED
      BY <2>7, <2>50, <3>1, <3>2 DEF RecvOrder
  <2>10. Takes(o, t, q)
    <3>1. t.got = Run(0, Pos(o, t.LO) - 1)
      BY <1>1, <2>5 DEF Takes
    <3>2. c.rcvd = Run(l - 1, r - 1 - 0)
      BY <1>1, <2>1 DEF Takes, l, r, One
    <3>3. r - 1 - 0 = r - 1
      BY <1>2
    <3>5. Pos(o, t.LO) - 1 = l - 1 /\ Pos(o, t.RCV) - 1 - One(t.finrecv) = r - 1
      BY <2>7, <2>50
    <3>4. t.rcvd = Run(Pos(o, t.LO) - 1, Pos(o, t.RCV) - 1 - One(t.finrecv))
      BY <2>5, <3>2, <3>3, <3>5
    <3> QED
      BY <2>6, <2>9, <3>1, <3>4 DEF Takes
  <2>11. t.adv = <<>>
    <3>1. CASE c.adv # <<>>
      <4> DEFINE v == Pos(o, c.advseq)
                 e == v + Len(c.adv)
      <4>1. v > r /\ e <= q.sent + 1 /\ c.adv \in Seq(Nat)
        BY <3>1 DEF Live, Recvs, Ahead, r
      <4>2. Len(c.adv) \in Nat /\ v \in Int
        BY <1>1, <4>1, PosType DEF RecvTypes
      <4> HIDE DEF v
      <4> QED
        BY <1>2, <2>2, <4>1, <4>2
    <3> QED
      BY <2>5, <3>1
  <2>12. Recvs(o, t, q)
    BY <2>10, <2>11 DEF Recvs
  <2>13. MiscOK(p, t)
    <3>1. F \cap MiscFields = {}
      BY DEF MiscFields
    <3> QED
      BY <1>1, <1>6, <3>1, MiscFrame
  <2>14. F \cap (SendFields \cup {"state", "connected"}) = {}
    BY DEF SendFields
  <2>15. Len(c.got) <= Len(t.got) /\ Pos(o, c.RCV) <= Pos(o, t.RCV) /\ Pos(o, c.HI) <= Pos(o, t.HI)
    <3>1. Len(c.got) \in Nat
      BY LiveTypes
    <3> QED
      BY <1>2, <2>5, <2>7, <2>8, <3>1 DEF r, h
  <2> HIDE DEF F
  <2> QED
    BY <1>6, <2>12, <2>13, <2>14, <2>15, TakeStep
<1> QED
  BY <1>7, <1>8

LEMMA LiveText ==
  ASSUME NEW p \in Peer, NEW o \in Peer, NEW c, NEW q, Live(p, o, c, q), Room(p, q),
         NEW s \in Segment, Spoken(o, s, q), Acceptable(c, s)
  PROVE  Moves(p, o, c, ProcessText(c, s), q)
<1> DEFINE new == ~c.finrecv /\ Lmod4G(c.RCV, c.HI)
           d == [c EXCEPT !.RCV = IF new THEN Add(@, 1) ELSE @, !.finrecv = @ \/ new]
           b == AckBack(d)
           x == process_data(c, s)
           y == process_advanced_data(c, s)
<1>1. Takes(o, c, q)
  BY ParkedIs
<1>2. CASE s.data # <<>> /\ LEmod4G(s.seq, c.RCV)
  <2>1. ProcessText(c, s) = AckBack(x)
    BY <1>2 DEF ProcessText
  <2>2. Moves(p, o, c, x, q)
    BY <1>1, <1>2, AcceptedData, LiveData
  <2> HIDE DEF x
  <2>3. Moves(p, o, x, AckBack(x), q)
    BY <2>2, LiveAckBack DEF Moves
  <2> QED
    BY <2>1, <2>2, <2>3, MovesTrans
<1>3. CASE s.data # <<>> /\ ~LEmod4G(s.seq, c.RCV)
  <2>1. ProcessText(c, s) = AckBack(y)
    BY <1>3 DEF ProcessText
  <2>2. Gmod4G(s.seq, c.RCV)
    BY <1>3 DEF LEmod4G, Gmod4G
  <2>3. Moves(p, o, c, y, q)
    BY <1>3, <2>2, LiveAdvanced
  <2> HIDE DEF y
  <2>4. Moves(p, o, y, AckBack(y), q)
    BY <2>3, LiveAckBack DEF Moves
  <2> QED
    BY <2>1, <2>3, <2>4, MovesTrans
<1>4. CASE s.data = <<>> /\ Has(s, "FIN") /\ LEmod4G(s.seq, c.RCV)
  <2>1. ProcessText(c, s) = ReadIfPosted(b)
    BY <1>4 DEF ProcessText
  <2>2. Moves(p, o, c, d, q)
    BY <1>4, LiveFin
  <2> HIDE DEF d
  <2>3. Moves(p, o, d, b, q)
    BY <2>2, LiveAckBack DEF Moves
  <2> HIDE DEF b
  <2>4. Moves(p, o, b, ReadIfPosted(b), q)
    BY <2>3, LiveReadIfPosted DEF Moves
  <2>5. Moves(p, o, c, b, q)
    BY <2>2, <2>3, MovesTrans
  <2> QED
    BY <2>1, <2>4, <2>5, MovesTrans
<1>5. CASE s.data = <<>> /\ ~(Has(s, "FIN") /\ LEmod4G(s.seq, c.RCV))
  BY <1>5, MovesSelf DEF ProcessText
<1> QED
  BY <1>2, <1>3, <1>4, <1>5

(* tcp_release_retrans() leaves the receiving side alone unless it ends the
   connection. *)
AckFields == {"stt", "cwnd", "TRM", "more"} \cup RelFields \cup WriteFields

LEMMA FrameProcessAck ==
  ASSUME NEW c, Full(c), NEW s, NEW t, t = ProcessAck(c, s)
  PROVE  Keeps(c, t, AckFields) \/ t.state = "CLOSED"
<1> DEFINE alive == IF c.state = "CLOSING" THEN c ELSE [c EXCEPT !.stt = FALSE]
           wnd == IF s.wnd > 2 * MSS THEN 2 * MSS ELSE s.wnd
           opened == tcp_conn_write([alive EXCEPT !.cwnd = Add(c.UNA, wnd)])
           shut == [alive EXCEPT !.cwnd = c.UNA, !.TRM = c.UNA]
           b == BackInWindow(Released(alive, s.ack, s.wnd))
           r == Refill(b)
           e == EndOrSend(r)
<1>1. t \in {alive, opened, shut, e}
  BY DEF ProcessAck, tcp_release_retrans
<1>2. Keeps(c, alive, {"stt"})
  BY DEF Full, Keeps
<1> HIDE DEF alive
<1>3. Keeps(alive, opened, {"cwnd", "more"}) /\ Keeps(alive, shut, {"cwnd", "TRM"})
  BY <1>2 DEF tcp_conn_write, Keeps, Full
<1>4. Keeps(alive, b, RelFields)
  BY <1>2, FrameReleased DEF Keeps
<1> HIDE DEF opened, shut, b
<1>5. Keeps(b, r, WriteFields)
  <2>1. Keeps(b, b, WriteFields) /\ Keeps(b, tcp_fd_write(b), WriteFields)
    BY <1>4, KeepsSelf, FrameFdWrite DEF Keeps
  <2> QED
    BY <2>1 DEF Refill
<1> HIDE DEF r
<1>6. Keeps(r, e, {"more"}) \/ e.state = "CLOSED"
  <2>1. Full(r)
    BY <1>5 DEF Keeps
  <2>2. Keeps(r, r, {"more"}) /\ Keeps(r, tcp_conn_write(r), {"more"})
        /\ tcp_close_connection(r, "ENOTCONN").state = "CLOSED"
    BY <2>1, KeepsSelf, FrameWrite, FrameClose
  <2>3. e \in {r, tcp_conn_write(r), tcp_close_connection(r, "ENOTCONN")}
    <3>1. CASE ~r.fd /\ r.UNA = r.NXT
      BY <3>1 DEF EndOrSend
    <3>2. CASE ~(~r.fd /\ r.UNA = r.NXT) /\ r.cwnd # r.TRM /\ r.NXT # r.TRM
      BY <3>2 DEF EndOrSend
    <3>3. CASE ~(~r.fd /\ r.UNA = r.NXT) /\ ~(r.cwnd # r.TRM /\ r.NXT # r.TRM)
      BY <3>3 DEF EndOrSend
    <3> QED
      BY <3>1, <3>2, <3>3
  <2> HIDE DEF e
  <2> QED
    BY <2>2, <2>3
<1> HIDE DEF e
<1>7. /\ Keeps(c, alive, AckFields) /\ Keeps(c, opened, AckFields) /\ Keeps(c, shut, AckFields)
      /\ Keeps(c, r, AckFields)
  BY <1>2, <1>3, <1>4, <1>5 DEF Keeps, AckFields
<1>8. Keeps(r, e, {"more"}) => Keeps(c, e, AckFields)
  BY <1>7 DEF Keeps, AckFields
<1> QED
  BY <1>1, <1>6, <1>7, <1>8

LEMMA SettledIs ==
  ASSUME NEW p \in Peer, NEW o \in Peer, NEW c, NEW t, NEW q, Settles(p, o, c, t, q)
  PROVE  \/ t.state = "CLOSED" /\ Over(p, o, t, q)
         \/ t.state # "CLOSED" /\ Moves(p, o, c, t, q)
BY DEF Settles, Live, Over, Moves, Connected

LEMMA LiveRest ==
  ASSUME NEW p \in Peer, NEW o \in Peer, NEW c, NEW q, Live(p, o, c, q), Room(p, q),
         NEW s \in Segment, Spoken(o, s, q), Acceptable(c, s)
  PROVE  Moves(p, o, c, ProcessRest(c, s), q)
<1>1. c.state # "CLOSED"
  BY DEF Live, Connected
<1>2. CASE Gmod4G(s.ack, c.NXT)
  <2>1. ProcessRest(c, s) = AckBack(c)
    BY <1>1, <1>2 DEF ProcessRest, LEmod4G, Gmod4G
  <2> QED
    BY <2>1, LiveAckBack
<1>3. CASE ~Gmod4G(s.ack, c.NXT)
  <2>1. ProcessRest(c, s) = ProcessText(c, s)
    BY <1>1, <1>3 DEF ProcessRest, LEmod4G, Gmod4G
  <2> QED
    BY <2>1, LiveText
<1> QED
  BY <1>2, <1>3

LEMMA LiveSegment ==
  ASSUME NEW p \in Peer, NEW o \in Peer, NEW c, NEW q, Live(p, o, c, q), Room(p, q),
         NEW s \in Segment, Truth(o, p, s, q)
  PROVE  Settles(p, o, c, InEstablished(c, s), q)
<1> DEFINE clean == c.finsent /\ c.finrecv /\ c.sendq = <<>>
           a == ProcessAck(c, s)
<1>1. Full(c)
  BY DEF Live, MiscOK
<1>2. CASE ~Acceptable(c, s)
  <2> DEFINE b == AckBack(c)
             d == [b EXCEPT !.push = TRUE]
  <2>1. InEstablished(c, s) = Unacceptable(c, s)
    BY <1>2 DEF InEstablished
  <2>2. Unacceptable(c, s) \in {c, b, ReadIfPosted(d)}
    BY DEF Unacceptable
  <2>3. Moves(p, o, c, b, q)
    BY LiveAckBack
  <2>4. Moves(p, o, c, d, q)
    <3>1. Keeps(c, b, {"more", "sendack"})
      BY <1>1, FrameAckBack
    <3> HIDE DEF b
    <3>2. Keeps(c, d, {"more", "sendack", "push"})
      BY <3>1 DEF Full, Keeps
    <3> QED
      BY <3>2, LiveFrame DEF LiveFields, MiscFields, SendFields, RecvFields, TakeFields
  <2> HIDE DEF b, d
  <2>5. Moves(p, o, d, ReadIfPosted(d), q)
    BY <2>4, LiveReadIfPosted DEF Moves
  <2>6. Moves(p, o, c, ReadIfPosted(d), q)
    BY <2>4, <2>5, MovesTrans
  <2> QED
    BY <2>1, <2>2, <2>3, <2>6, MovesSelf, MovesSettle
<1>3. CASE Acceptable(c, s) /\ (Has(s, "RST") \/ (Has(s, "SYN") /\ GEmod4G(s.seq, c.RCV)))
  <2>1. \/ InEstablished(c, s) = tcp_close_connection(c, "OK")
        \/ InEstablished(c, s) = tcp_close_connection(c, "ECONNRESET")
    BY <1>3 DEF InEstablished
  <2> QED
    BY <2>1, LiveCloses
<1>4. CASE Acceptable(c, s) /\ ~Has(s, "RST") /\ ~(Has(s, "SYN") /\ GEmod4G(s.seq, c.RCV)) /\ ~Has(s, "ACK")
  BY <1>4, MovesSelf, MovesSettle DEF InEstablished
<1>5. CASE Acceptable(c, s) /\ ~Has(s, "RST") /\ ~(Has(s, "SYN") /\ GEmod4G(s.seq, c.RCV)) /\ Has(s, "ACK")
  <2>1. InEstablished(c, s) = ProcessRest(a, s)
    BY <1>5 DEF InEstablished
  <2>2. s.ack \in Num /\ s.wnd \in 0 .. RCV_WND
    BY DEF Segment, Num
  <2>3. Pos(p, s.ack) <= Heard(p, q) /\ Spoken(o, s, q)
    BY <1>5 DEF Truth
  <2>4. Settles(p, o, c, a, q)
    BY <2>2, <2>3, LiveProcessAck
  <2>5. Keeps(c, a, AckFields) \/ a.state = "CLOSED"
    BY <1>1, FrameProcessAck
  <2> HIDE DEF a
  <2>6. CASE a.state = "CLOSED"
    <3>1. ProcessRest(a, s) = a
      BY <2>6 DEF ProcessRest
    <3> QED
      BY <2>1, <2>4, <3>1
  <2>7. CASE a.state # "CLOSED"
    <3>1. Moves(p, o, c, a, q) /\ Live(p, o, a, q)
      BY <2>4, <2>7, SettledIs DEF Moves
    <3>2. a.RCV = c.RCV /\ a.HI = c.HI
      BY <2>5, <2>7 DEF Keeps, AckFields, RelFields, WriteFields, FinFields, ReplyWriteFields,
             ReplyIoctlFields, CopyInFields, Names
    <3>3. Acceptable(a, s)
      BY <1>5, <3>2 DEF Acceptable
    <3>4. Moves(p, o, a, ProcessRest(a, s), q)
      BY <2>3, <3>1, <3>3, LiveRest
    <3> QED
      BY <2>1, <3>1, <3>4, MovesTrans, MovesSettle
  <2> QED
    BY <2>6, <2>7
<1> QED
  BY <1>2, <1>3, <1>4, <1>5
==============================================================================
