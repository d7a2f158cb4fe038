-------------------------- MODULE InetChannelProofs --------------------------
(***************************************************************************)
(* Proofs about InetChannel, for every number and size of requests, of     *)
(* signals and of data, and of channels opened one after the other.        *)
(*                                                                         *)
(* The daemon's helpers pass on the two FIFOs, the channel and the layer   *)
(* as one record, so the invariant is stated of such a record, and each    *)
(* lemma says what one helper makes of a good one.                         *)
(***************************************************************************)
EXTENDS InetChannel, NatLemmas

Ops == Suspendable \cup {"OPEN", "CLOSE", "CANCEL"}

(* What each kind of request says. *)
Meant(r) ==
  /\ r.op \notin {"WRITE", "IOCTL"} => r.dlen = 0
  /\ r.op = "OPEN" => r.what \in Devices
  /\ r.op = "READ" => r.count \in 1 .. ICHAN_HOLD
  /\ r.op = "WRITE" => r.count = r.dlen
  /\ r.op = "IOCTL" => r.what \in IoctlKinds
  /\ r.op = "CANCEL" => r.what \in Suspendable
  /\ r.op = "payload" => r = Payload

Kinds == {""} \cup Devices \cup IoctlKinds \cup Suspendable

Items ==
  {r \in [op : Ops \cup {"payload"}, count : Nat, what : Kinds, dlen : Nat] :
     Meant(r)}

Units == (1 .. MaxData) \cup {"conf"}

Replies == [rop : Ops, status : Int, data : Seq(Units)]

Chans == [inuse : BOOLEAN, open : BOOLEAN, pend : [Suspendable -> BOOLEAN],
          curop : Ops, avail : Nat, dataok : BOOLEAN, replied : BOOLEAN]

Layers ==
  [dev : {"none"} \cup Devices, conn : {"no", "yes", "dead"},
   rd : 0 .. ICHAN_HOLD, wr : BOOLEAN, left : Nat, off : Nat, io : BOOLEAN,
   seq : 0 .. MaxData, rcvd : Seq(1 .. MaxData), push : BOOLEAN, fin : BOOLEAN,
   stale : 0 .. ICHAN_HOLD, strayed : BOOLEAN]

Clients ==
  [pc : {"idle", "opening", "app", "await", "cancel", "stuck"},
   want : Suspendable \cup {"OPEN"}, max : Nat, posted : BOOLEAN,
   hold : Seq(Units), tries : Nat, ioposted : BOOLEAN]

Worlds == [req : Seq(Items), rep : Seq(Replies), ch : Chans, lay : Layers]

(* A record is followed by its payload, and by no more than that. *)
FramedAt(q, k) ==
  q[k].op # "payload" =>
    /\ k + q[k].dlen <= Len(q)
    /\ \A j \in k + 1 .. k + q[k].dlen : q[j].op = "payload"
    /\ k + q[k].dlen < Len(q) => q[k + q[k].dlen + 1].op # "payload"

Framed(q) == \A k \in 1 .. Len(q) : FramedAt(q, k)

(* The FIFO starts with a units of payload and a record after them. *)
Lead(q, a) ==
  /\ a <= Len(q)
  /\ \A k \in 1 .. a : q[k].op = "payload"
  /\ a < Len(q) => q[a + 1].op # "payload"

(* The daemon is between two records, or in the payload of the last one. *)
Fit(s) ==
  /\ s \in Worlds
  /\ Framed(s.req) /\ Lead(s.req, s.ch.avail)
  /\ ~s.ch.dataok

Asks(s, op) == Cardinality({k \in 1 .. Len(s.req) : s.req[k].op = op})

Tells(s, op) == Cardinality({k \in 1 .. Len(s.rep) : s.rep[k].rop = op})

Holds(s, op) == IF op \in Suspendable /\ s.ch.pend[op] THEN 1 ELSE 0

Owed(s, op) == Asks(s, op) + Tells(s, op) + Holds(s, op)

Busy(s, op) == Asks(s, op) + Holds(s, op)

One(b) == IF b THEN 1 ELSE 0

(* One request of a kind at a time, a READ more once one has been answered that
   was not asked for, and nothing but an NWR_OPEN for a channel that is not
   open. *)
OneEach(s) ==
  /\ Asks(s, "OPEN") <= 1
  /\ Asks(s, "OPEN") = 1 => ~s.ch.open
  /\ ~s.ch.open => \A op \in Suspendable : ~s.ch.pend[op]
  /\ Busy(s, "READ") <= 1 + One(s.lay.strayed)
  /\ Busy(s, "WRITE") + Busy(s, "IOCTL") <= 1

(* What is suspended is what the layer holds, and the units the daemon may
   still read of a record are the ones a suspended WRITE has to fetch. *)
Matched(s) ==
  /\ \A op \in Suspendable : s.ch.pend[op] <=> InProgress(s.lay, op)
  /\ s.ch.avail > 0 => s.lay.wr /\ s.lay.left = s.ch.avail

(* A pseudo-IP device is connected from the start, and is the only one that
   keeps a former channel's READ and may answer it. *)
Proper(l) ==
  /\ l.dev = "psip" => l.conn = "yes" /\ ~l.io
  /\ l.strayed => l.dev = "psip"
  /\ Haunted(l) => ~l.strayed

(* Until it does, no READ of the channel's own has come to the device. *)
Leftover(s) ==
  /\ Proper(s.lay)
  /\ s.ch.open => s.lay.dev \in Devices
  /\ ~s.ch.open => ~s.lay.strayed /\ Owed(s, "READ") = 0
  /\ Haunted(s.lay) => Tells(s, "READ") = 0 /\ ~s.ch.pend["READ"]

Sound(s) == Fit(s) /\ OneEach(s) /\ Matched(s) /\ Leftover(s)

(* The client waits for its channel to be opened. *)
Opening(s) ==
  /\ \A op \in Ops \ {"READ"} : Owed(s, op) = IF op = "OPEN" THEN 1 ELSE 0
  /\ Owed(s, "READ") <= One(s.lay.strayed)
  /\ \A k \in 1 .. Len(s.rep) : s.rep[k].status >= 0 => s.ch.open
  /\ Len(s.rep) > 0 => s.rep[1].rop = "OPEN"

(* The NWR_CANCEL is the last request, and nothing that it cancels comes after
   the reply to it: not a former channel's READ either, which would have come
   before this one's, or been forgotten for it. *)
Ordered(s, w) ==
  /\ \A k \in 1 .. Len(s.req) :
       s.req[k].op = "CANCEL" => k = Len(s.req) /\ s.req[k].what = w
  /\ Tells(s, "CANCEL") > 0 => Busy(s, w) = 0
  /\ \A j, k \in 1 .. Len(s.rep) :
       s.rep[j].rop = "CANCEL" /\ s.rep[k].rop = w => k < j
  /\ w = "READ" /\ Haunted(s.lay) => Asks(s, "READ") > 0

(* Of READs it may be one more. *)
Reading(s, c) ==
  Owed(s, "READ") \in One(c.posted) .. One(c.posted) + One(s.lay.strayed)

(* What is outstanding is what the client believes to be. *)
Counted(s, c) ==
  /\ Owed(s, "OPEN") = 0 /\ Owed(s, "CLOSE") = 0
  /\ Reading(s, c)
  /\ Owed(s, "CANCEL") = One(c.pc = "cancel")
  /\ c.pc = "app" => /\ Owed(s, "WRITE") = 0
                     /\ Owed(s, "IOCTL") = One(c.ioposted)
  /\ c.pc = "await" => /\ Owed(s, "WRITE") = One(c.want = "WRITE")
                       /\ Owed(s, "IOCTL") = One(c.want = "IOCTL")
  /\ c.pc = "cancel" => /\ Owed(s, "WRITE") <= One(c.want = "WRITE")
                        /\ Owed(s, "IOCTL") <= One(c.want = "IOCTL")

AtWork(s, c) ==
  /\ s.ch.open
  /\ Counted(s, c)
  /\ c.pc \in {"await", "cancel"} => ~c.ioposted /\ c.want \in Suspendable
  /\ c.pc = "await" /\ c.want = "READ" => c.posted
  /\ c.pc = "cancel" => Ordered(s, c.want)

(* The client of a channel that the daemon has. *)
Attended(s, c) ==
  /\ c.pc \in {"opening", "stuck"} => Opening(s)
  /\ c.pc \in {"app", "await", "cancel"} => AtWork(s, c)
  /\ c.pc # "app" /\ c.pc # "await" /\ c.pc # "cancel" =>
       c.hold = <<>> /\ ~c.posted /\ ~c.ioposted

(* And of one that the daemon has not. *)
Unserved(s, c) ==
  /\ s.lay = [NoLayer EXCEPT !.stale = s.lay.stale]
  /\ c.pc \in {"idle", "opening", "stuck"}
  /\ c.pc # "idle" => /\ \E dev \in Devices : s.req = <<Request("OPEN", 0, dev, 0)>>
                      /\ s.rep = <<>>
                      /\ c.hold = <<>> /\ ~c.posted /\ ~c.ioposted

IInv ==
  /\ ch \in Chans /\ lay \in Layers
  /\ cl \in Clients /\ Len(cl.hold) <= ICHAN_HOLD
  /\ ch.inuse => Sound(Served) /\ Attended(Served, cl)
  /\ ~ch.inuse => Unserved(Served, cl) /\ ~misparsed
  /\ misparsed \in BOOLEAN
  /\ misparsed => lay.wr /\ lay.left > 0

(* The replies that may come before the one to an NWR_CANCEL. *)
Debt(s) == Owed(s, "READ") + Owed(s, "WRITE") + Owed(s, "IOCTL")

(* Each of them uses up one of the tries of ichan_cancel(), and so does each
   signal. *)
Patient ==
  cl.pc = "cancel" =>
    cl.tries + Debt(Served) <= sigs + 1 + One(Served.lay.strayed)

-----------------------------------------------------------------------------
(* Counting.  Each kind is counted by the set of its records. *)
AskSet(op) == {x \in Items : x.op = op}

TellSet(op) == {x \in Replies : x.rop = op}

LEMMA AsksHits ==
  ASSUME NEW s \in Worlds, NEW op
  PROVE  Asks(s, op) = Hits(s.req, AskSet(op)) /\ Asks(s, op) \in Nat
<1>1. s.req \in Seq(Items)
  BY DEF Worlds
<1>2. Len(s.req) \in Nat /\ \A k \in 1 .. Len(s.req) : s.req[k] \in Items
  BY <1>1, LenProperties, ElementOfSeq
<1>3. {k \in 1 .. Len(s.req) : s.req[k].op = op} = HitSet(s.req, AskSet(op))
  BY <1>2 DEF HitSet, AskSet
<1> QED
  BY <1>1, <1>3, HitsType DEF Asks, Hits

LEMMA TellsHits ==
  ASSUME NEW s \in Worlds, NEW op
  PROVE  Tells(s, op) = Hits(s.rep, TellSet(op)) /\ Tells(s, op) \in Nat
<1>1. s.rep \in Seq(Replies)
  BY DEF Worlds
<1>2. Len(s.rep) \in Nat /\ \A k \in 1 .. Len(s.rep) : s.rep[k] \in Replies
  BY <1>1, LenProperties, ElementOfSeq
<1>3. {k \in 1 .. Len(s.rep) : s.rep[k].rop = op} = HitSet(s.rep, TellSet(op))
  BY <1>2 DEF HitSet, TellSet
<1> QED
  BY <1>1, <1>3, HitsType DEF Tells, Hits

LEMMA Counts ==
  ASSUME NEW s \in Worlds, NEW op
  PROVE  /\ Asks(s, op) \in Nat /\ Tells(s, op) \in Nat /\ Holds(s, op) \in {0, 1}
         /\ Owed(s, op) \in Nat /\ Busy(s, op) \in Nat
<1>1. Asks(s, op) \in Nat /\ Tells(s, op) \in Nat
  BY AsksHits, TellsHits
<1>2. Holds(s, op) \in {0, 1}
  BY DEF Holds
<1> QED
  BY <1>1, <1>2 DEF Owed, Busy

(* What is asked is somewhere in the FIFO, and what is told in the other. *)
LEMMA AskedSomewhere ==
  ASSUME NEW s \in Worlds, NEW op, NEW k \in 1 .. Len(s.req), s.req[k].op = op
  PROVE  Asks(s, op) > 0
<1>1. s.req \in Seq(Items)
  BY DEF Worlds
<1>2. s.req[k] \in AskSet(op)
  BY <1>1, ElementOfSeq DEF AskSet
<1>3. Hits(s.req, AskSet(op)) # 0
  BY <1>1, <1>2, HitsType
<1> QED
  BY <1>3, AsksHits

LEMMA ToldSomewhere ==
  ASSUME NEW s \in Worlds, NEW op, NEW k \in 1 .. Len(s.rep), s.rep[k].rop = op
  PROVE  Tells(s, op) > 0
<1>1. s.rep \in Seq(Replies)
  BY DEF Worlds
<1>2. s.rep[k] \in TellSet(op)
  BY <1>1, ElementOfSeq DEF TellSet
<1>3. Hits(s.rep, TellSet(op)) # 0
  BY <1>1, <1>2, HitsType
<1> QED
  BY <1>3, TellsHits

-----------------------------------------------------------------------------
(* The two FIFOs. *)

(* q is what is left of p. *)
Later(p, q) ==
  /\ Len(q) <= Len(p)
  /\ \A k \in 1 .. Len(q) : q[k] = p[Len(p) - Len(q) + k]

Rest(q, n) == SubSeq(q, n + 1, Len(q))

LEMMA RestIs ==
  ASSUME NEW S, NEW q \in Seq(S), NEW n \in 0 .. Len(q)
  PROVE  /\ Rest(q, n) \in Seq(S) /\ Len(q) \in Nat
         /\ Len(Rest(q, n)) = Len(q) - n
         /\ \A k \in 1 .. Len(q) - n : Rest(q, n)[k] = q[k + n]
         /\ Later(q, Rest(q, n))
<1>1. Len(q) \in Nat /\ n \in Nat /\ \A k \in 1 .. Len(q) : q[k] \in S
  BY LenProperties, ElementOfSeq
<1>2. /\ Rest(q, n) \in Seq(S) /\ Len(Rest(q, n)) = Len(q) - n
      /\ \A k \in 1 .. Len(q) - n : Rest(q, n)[k] = q[n + 1 + k - 1]
  BY <1>1, SubSeqProperties DEF Rest
<1>3. \A k \in 1 .. Len(q) - n : Rest(q, n)[k] = q[k + n]
  BY <1>1, <1>2
<1>4. Later(q, Rest(q, n))
  BY <1>1, <1>2, <1>3 DEF Later
<1> QED
  BY <1>1, <1>2, <1>3, <1>4

LEMMA FramedRest ==
  ASSUME NEW q \in Seq(Items), NEW n \in 0 .. Len(q), Framed(q)
  PROVE  Framed(Rest(q, n))
<1> DEFINE p == Rest(q, n)
<1>1. /\ Len(q) \in Nat /\ Len(p) = Len(q) - n
      /\ \A k \in 1 .. Len(q) - n : p[k] = q[k + n]
  BY RestIs
<1>2. \A k \in 1 .. Len(q) : q[k].dlen \in Nat
  BY ElementOfSeq DEF Items
<1> HIDE DEF p
<1> SUFFICES ASSUME NEW k \in 1 .. Len(p), p[k].op # "payload"
             PROVE  /\ k + p[k].dlen <= Len(p)
                    /\ \A j \in k + 1 .. k + p[k].dlen : p[j].op = "payload"
                    /\ k + p[k].dlen < Len(p) => p[k + p[k].dlen + 1].op # "payload"
  BY DEF Framed, FramedAt, p
<1> DEFINE d == p[k].dlen
<1>3. /\ d \in Nat /\ d = q[k + n].dlen /\ k + n \in 1 .. Len(q)
      /\ q[k + n].op # "payload"
  BY <1>1, <1>2
<1>4. /\ k + n + d <= Len(q)
      /\ \A j \in k + n + 1 .. k + n + d : q[j].op = "payload"
      /\ k + n + d < Len(q) => q[k + n + d + 1].op # "payload"
  BY <1>3 DEF Framed, FramedAt
<1> HIDE DEF d
<1>5. k + d <= Len(p)
  BY <1>1, <1>3, <1>4
<1>6. ASSUME NEW j \in k + 1 .. k + d PROVE p[j].op = "payload"
  <2>1. j \in 1 .. Len(q) - n /\ j + n \in k + n + 1 .. k + n + d
    BY <1>1, <1>3, <1>5
  <2>2. p[j] = q[j + n]
    BY <1>1, <2>1
  <2> QED
    BY <1>4, <2>1, <2>2
<1>7. ASSUME k + d < Len(p) PROVE p[k + d + 1].op # "payload"
  <2> DEFINE l == Len(p)
  <2>3. /\ Len(q) \in Nat /\ d \in Nat /\ l \in Int /\ l = Len(q) - n
        /\ n \in Int /\ k \in Nat \ {0} /\ k + d < l
    BY <1>1, <1>3, <1>7
  <2> HIDE DEF l
  <2>0. k + d + 1 \in 1 .. Len(q) - n /\ k + n + d < Len(q)
    BY <2>3
  <2>1. p[k + d + 1] = q[(k + d + 1) + n] /\ k + n + d < Len(q)
    BY <1>1, <2>0
  <2>2. (k + d + 1) + n = k + n + d + 1
    BY <1>1, <1>3
  <2> QED
    BY <1>4, <2>1, <2>2
<1> QED
  BY <1>5, <1>6, <1>7 DEF d

LEMMA LeadRest ==
  ASSUME NEW q \in Seq(Items), NEW a \in Nat, Lead(q, a), NEW n \in 0 .. a
  PROVE  n \in 0 .. Len(q) /\ Lead(Rest(q, n), a - n)
<1>1. n \in 0 .. Len(q) /\ Len(q) \in Nat /\ a <= Len(q)
  BY LenProperties DEF Lead
<1>2. /\ Len(Rest(q, n)) = Len(q) - n
      /\ \A k \in 1 .. Len(q) - n : Rest(q, n)[k] = q[k + n]
  BY <1>1, RestIs
<1>3. \A k \in 1 .. a - n : Rest(q, n)[k].op = "payload"
  BY <1>1, <1>2 DEF Lead
<1>4. ASSUME a - n < Len(q) - n PROVE Rest(q, n)[a - n + 1].op # "payload"
  <2>1. Rest(q, n)[a - n + 1] = q[a + 1] /\ a < Len(q)
    <3>1. a - n + 1 \in 1 .. Len(q) - n /\ (a - n + 1) + n = a + 1
      BY <1>1, <1>4
    <3> QED
      BY <1>1, <1>2, <1>4, <3>1
  <2> QED
    BY <2>1 DEF Lead
<1> QED
  BY <1>1, <1>2, <1>3, <1>4 DEF Lead

LEMMA LaterTwice ==
  ASSUME NEW S, NEW p \in Seq(S), NEW q \in Seq(S), NEW r \in Seq(S),
         Later(p, q), Later(q, r)
  PROVE  Later(p, r)
<1>1. Len(p) \in Nat /\ Len(q) \in Nat /\ Len(r) \in Nat
  BY LenProperties
<1>2. ASSUME NEW k \in 1 .. Len(r) PROVE r[k] = p[Len(p) - Len(r) + k]
  <2>1. r[k] = q[Len(q) - Len(r) + k] /\ Len(q) - Len(r) + k \in 1 .. Len(q)
    BY <1>1 DEF Later
  <2>2. q[Len(q) - Len(r) + k] = p[Len(p) - Len(q) + (Len(q) - Len(r) + k)]
    BY <2>1 DEF Later
  <2>3. Len(p) - Len(q) + (Len(q) - Len(r) + k) = Len(p) - Len(r) + k
    BY <1>1
  <2> QED
    BY <2>1, <2>2, <2>3
<1> QED
  BY <1>1, <1>2 DEF Later

LEMMA LongerTwice ==
  ASSUME NEW S, NEW p \in Seq(S), NEW q \in Seq(S), NEW r \in Seq(S),
         Longer(p, q), Longer(q, r)
  PROVE  Longer(p, r)
<1>1. Len(p) \in Nat /\ Len(q) \in Nat /\ Len(r) \in Nat
  BY LenProperties
<1> QED
  BY <1>1 DEF Longer

(* Dropping payload drops no request. *)
LEMMA AsksDrop ==
  ASSUME NEW s \in Worlds, NEW t \in Worlds, Lead(s.req, s.ch.avail),
         NEW n \in 0 .. s.ch.avail, t.req = Rest(s.req, n), NEW op \in Ops
  PROVE  Asks(t, op) = Asks(s, op)
<1>1. s.req \in Seq(Items) /\ s.ch.avail \in Nat
  BY DEF Worlds, Chans
<1>2. n \in 0 .. Len(s.req)
  BY <1>1, LeadRest
<1>3. op # "payload"
  BY DEF Ops, Suspendable
<1>4. \A k \in 1 .. n : s.req[k] \notin AskSet(op)
  BY <1>1, <1>3 DEF Lead, AskSet
<1>5. Hits(SubSeq(s.req, n + 1, Len(s.req)), AskSet(op)) = Hits(s.req, AskSet(op))
  BY <1>1, <1>2, <1>4, HitsDrop
<1> QED
  BY <1>5, AsksHits DEF Rest

-----------------------------------------------------------------------------
(* A reply: the rest of the request's payload goes, the reply is put behind
   the others, and its operation is no longer suspended. *)
Told(s, t, r) ==
  /\ t.req = Rest(s.req, s.ch.avail)
  /\ t.rep = Append(s.rep, r)
  /\ t.ch.inuse = s.ch.inuse /\ t.ch.open = s.ch.open /\ t.ch.curop = s.ch.curop
  /\ \A op \in Suspendable : t.ch.pend[op] <=> s.ch.pend[op] /\ op # r.rop
  /\ t.ch.avail = 0 /\ ~t.ch.dataok /\ t.ch.replied

(* What it does to the counts. *)
Tally(s, t, rop) ==
  \A op \in Ops :
    /\ Asks(t, op) = Asks(s, op)
    /\ Tells(t, op) = Tells(s, op) + One(op = rop)
    /\ Holds(t, op) = IF op = rop THEN 0 ELSE Holds(s, op)

(* Nothing is put back, or taken back, and the channel stays. *)
Passes(s, t) ==
  Later(s.req, t.req) /\ Longer(s.rep, t.rep) /\ t.ch.inuse = s.ch.inuse

LEMMA LongerAppend ==
  ASSUME NEW S, NEW q \in Seq(S), NEW x \in S
  PROVE  Longer(q, Append(q, x)) /\ Longer(q, q)
BY AppendProperties, LenProperties DEF Longer

LEMMA LaterSame ==
  ASSUME NEW S, NEW q \in Seq(S)
  PROVE  Later(q, q)
BY LenProperties DEF Later

LEMMA ToldFit ==
  ASSUME NEW s, Fit(s), NEW t \in Worlds, NEW r \in Replies, Told(s, t, r)
  PROVE  Fit(t) /\ Tally(s, t, r.rop) /\ Passes(s, t)
<1>1. /\ s \in Worlds /\ s.req \in Seq(Items) /\ s.rep \in Seq(Replies)
      /\ s.ch.avail \in Nat /\ Lead(s.req, s.ch.avail) /\ Framed(s.req)
  BY DEF Fit, Worlds, Chans
<1>2. s.ch.avail \in 0 .. Len(s.req) /\ Lead(t.req, s.ch.avail - s.ch.avail)
  BY <1>1, LeadRest DEF Told
<1>3. Framed(t.req) /\ Later(s.req, t.req)
  BY <1>1, <1>2, FramedRest, RestIs DEF Told
<1>4. Fit(t)
  <2>1. s.ch.avail - s.ch.avail = 0
    BY <1>1
  <2> QED
    BY <1>2, <1>3, <2>1 DEF Fit, Told
<1>5. ASSUME NEW op \in Ops
      PROVE  /\ Asks(t, op) = Asks(s, op)
             /\ Tells(t, op) = Tells(s, op) + One(op = r.rop)
             /\ Holds(t, op) = IF op = r.rop THEN 0 ELSE Holds(s, op)
  <2>1. Asks(t, op) = Asks(s, op)
    BY <1>1, AsksDrop DEF Told
  <2>2. Hits(Append(s.rep, r), TellSet(op))
          = Hits(s.rep, TellSet(op)) + (IF r \in TellSet(op) THEN 1 ELSE 0)
    BY <1>1, HitsAppend
  <2>3. r \in TellSet(op) <=> op = r.rop
    BY DEF TellSet
  <2>4. Tells(t, op) = Tells(s, op) + One(op = r.rop)
    BY <1>1, <2>2, <2>3, TellsHits DEF Told, One
  <2>5. Holds(t, op) = IF op = r.rop THEN 0 ELSE Holds(s, op)
    BY DEF Holds, Told
  <2> QED
    BY <2>1, <2>4, <2>5
<1>6. Longer(s.rep, t.rep)
  BY <1>1, LongerAppend DEF Told
<1> QED
  BY <1>3, <1>4, <1>5, <1>6 DEF Tally, Passes, Told

-----------------------------------------------------------------------------
(* The daemon's replies. *)
LEMMA RestWorld ==
  ASSUME NEW s, Fit(s)
  PROVE  Rest(s.req, s.ch.avail) \in Seq(Items)
<1>1. s.req \in Seq(Items) /\ s.ch.avail \in Nat /\ Lead(s.req, s.ch.avail)
  BY DEF Fit, Worlds, Chans
<1> QED
  BY <1>1, LeadRest, RestIs

LEMMA DrainIs ==
  ASSUME NEW s, Fit(s)
  PROVE  LET t == sr_drain(s)
         IN  /\ t \in Worlds
             /\ t.req = Rest(s.req, s.ch.avail) /\ t.rep = s.rep /\ t.lay = s.lay
             /\ t.ch = [s.ch EXCEPT !.avail = 0]
<1> DEFINE c == [s.ch EXCEPT !.avail = 0]
<1>1. s \in Worlds /\ s.ch \in Chans /\ Rest(s.req, s.ch.avail) \in Seq(Items)
  BY RestWorld DEF Fit, Worlds
<1>2. c \in Chans
  BY <1>1 DEF Chans
<1>3. sr_drain(s) = [s EXCEPT !.req = Rest(s.req, s.ch.avail), !.ch = c]
  BY <1>1 DEF sr_drain, Rest, Worlds
<1> HIDE DEF c
<1>4. [s EXCEPT !.req = Rest(s.req, s.ch.avail), !.ch = c] \in Worlds
  BY <1>1, <1>2 DEF Worlds
<1>5. LET t == [s EXCEPT !.req = Rest(s.req, s.ch.avail), !.ch = c]
      IN  /\ t.req = Rest(s.req, s.ch.avail) /\ t.rep = s.rep
          /\ t.lay = s.lay /\ t.ch = c
  BY <1>1 DEF Worlds
<1> QED
  BY <1>3, <1>4, <1>5 DEF c

LEMMA ReplyIs ==
  ASSUME NEW rop \in Ops, NEW status \in Int, NEW data \in Seq(Units)
  PROVE  /\ Reply(rop, status, data) \in Replies
         /\ Reply(rop, status, data).rop = rop
         /\ Reply(rop, status, data).status = status
BY DEF Reply, Replies

LEMMA NoData == <<>> \in Seq(Units)
BY EmptySeq

(* sr_send_reply() *)
LEMMA SendReplyIs ==
  ASSUME NEW s, Fit(s), NEW status \in Int, NEW rop \in Ops
  PROVE  LET t == sr_send_reply(s, status, rop)
         IN  /\ t \in Worlds
             /\ t.req = Rest(s.req, s.ch.avail)
             /\ t.rep = Append(s.rep, Reply(rop, status, <<>>))
             /\ t.lay = s.lay
             /\ t.ch = [s.ch EXCEPT !.avail = 0, !.replied = TRUE]
<1> DEFINE d == sr_drain(s)
           c == [d.ch EXCEPT !.replied = TRUE]
           p == Append(d.rep, Reply(rop, status, <<>>))
<1>1. /\ d \in Worlds /\ d.req = Rest(s.req, s.ch.avail) /\ d.rep = s.rep
      /\ d.lay = s.lay /\ d.ch = [s.ch EXCEPT !.avail = 0]
  BY DrainIs
<1>2. sr_send_reply(s, status, rop) = [d EXCEPT !.ch = c, !.rep = p]
  BY <1>1 DEF sr_send_reply, Worlds
<1> HIDE DEF d
<1>3. d.ch \in Chans /\ d.rep \in Seq(Replies)
  BY <1>1 DEF Worlds
<1>4. c \in Chans
  BY <1>3 DEF Chans
<1>5. p \in Seq(Replies)
  BY <1>3, ReplyIs, NoData, AppendProperties
<1>6. c = [s.ch EXCEPT !.avail = 0, !.replied = TRUE]
  BY <1>1
<1>7. p = Append(s.rep, Reply(rop, status, <<>>))
  BY <1>1
<1> HIDE DEF c, p
<1>8. [d EXCEPT !.ch = c, !.rep = p] \in Worlds
  BY <1>1, <1>4, <1>5 DEF Worlds
<1>9. LET t == [d EXCEPT !.ch = c, !.rep = p]
      IN  t.req = d.req /\ t.rep = p /\ t.lay = d.lay /\ t.ch = c
  BY <1>1 DEF Worlds
<1> QED
  BY <1>1, <1>2, <1>6, <1>7, <1>8, <1>9

(* A reply to a request that is not suspended. *)
LEMMA SendTold ==
  ASSUME NEW s, Fit(s), NEW status \in Int, NEW rop \in Ops,
         rop \in Suspendable => ~s.ch.pend[rop]
  PROVE  LET t == sr_send_reply(s, status, rop)
         IN  /\ t \in Worlds /\ t.lay = s.lay
             /\ Told(s, t, Reply(rop, status, <<>>))
<1> DEFINE t == sr_send_reply(s, status, rop)
<1>1. /\ t \in Worlds
      /\ t.req = Rest(s.req, s.ch.avail)
      /\ t.rep = Append(s.rep, Reply(rop, status, <<>>))
      /\ t.lay = s.lay
      /\ t.ch = [s.ch EXCEPT !.avail = 0, !.replied = TRUE]
  BY SendReplyIs
<1>2. s.ch \in Chans /\ ~s.ch.dataok
  BY DEF Fit, Worlds
<1>3. Reply(rop, status, <<>>).rop = rop
  BY ReplyIs, NoData
<1> HIDE DEF t
<1>4. /\ t.ch.inuse = s.ch.inuse /\ t.ch.open = s.ch.open
      /\ t.ch.curop = s.ch.curop /\ t.ch.pend = s.ch.pend
      /\ t.ch.avail = 0 /\ ~t.ch.dataok /\ t.ch.replied
  BY <1>1, <1>2 DEF Chans
<1> QED
  BY <1>1, <1>3, <1>4 DEF Told, t

(* sr_pendclr() *)
Cleared(s, t, rop) ==
  /\ t \in Worlds /\ t.req = s.req /\ t.rep = s.rep /\ t.lay = s.lay
  /\ t.ch.inuse = s.ch.inuse /\ t.ch.open = s.ch.open
  /\ t.ch.curop = s.ch.curop /\ t.ch.avail = s.ch.avail
  /\ t.ch.dataok = s.ch.dataok /\ t.ch.replied = s.ch.replied
  /\ \A op \in Suspendable : t.ch.pend[op] <=> s.ch.pend[op] /\ op # rop

LEMMA PendclrIs ==
  ASSUME NEW s \in Worlds, NEW rop \in Ops
  PROVE  Cleared(s, sr_pendclr(s, rop), rop)
<1> DEFINE p == [s.ch.pend EXCEPT ![rop] = FALSE]
           c == [s.ch EXCEPT !.pend = p]
<1>1. s.ch \in Chans /\ s.ch.pend \in [Suspendable -> BOOLEAN]
  BY DEF Worlds, Chans
<1>2. CASE rop \in Suspendable
  <2>1. sr_pendclr(s, rop) = [s EXCEPT !.ch = c]
    BY <1>1, <1>2 DEF sr_pendclr, Worlds
  <2>2. /\ p \in [Suspendable -> BOOLEAN]
        /\ \A op \in Suspendable : p[op] <=> s.ch.pend[op] /\ op # rop
    BY <1>1, <1>2
  <2> HIDE DEF p
  <2>3. /\ c \in Chans /\ c.pend = p /\ c.inuse = s.ch.inuse /\ c.open = s.ch.open
        /\ c.curop = s.ch.curop /\ c.avail = s.ch.avail
        /\ c.dataok = s.ch.dataok /\ c.replied = s.ch.replied
    BY <1>1, <2>2 DEF Chans
  <2> HIDE DEF c
  <2>4. [s EXCEPT !.ch = c] \in Worlds
    BY <2>3 DEF Worlds
  <2>5. LET t == [s EXCEPT !.ch = c]
        IN  t.req = s.req /\ t.rep = s.rep /\ t.lay = s.lay /\ t.ch = c
    BY DEF Worlds
  <2> QED
    BY <2>1, <2>2, <2>3, <2>4, <2>5 DEF Cleared
<1>3. CASE rop \notin Suspendable
  BY <1>1, <1>3 DEF sr_pendclr, Cleared
<1> QED
  BY <1>2, <1>3

(* The completion of a request, by get_reply() and put_reply(). *)
LEMMA CompleteTold ==
  ASSUME NEW s, Fit(s), NEW status \in Int, NEW rop \in Ops
  PROVE  LET t == Complete(s, status, rop)
         IN  /\ t \in Worlds /\ t.lay = s.lay
             /\ Told(s, t, Reply(rop, status, <<>>))
<1> DEFINE u == sr_send_reply(s, status, rop)
           t == sr_pendclr(u, rop)
<1>1. Complete(s, status, rop) = t
  BY DEF Complete, Fit
<1>2. /\ u \in Worlds
      /\ u.req = Rest(s.req, s.ch.avail)
      /\ u.rep = Append(s.rep, Reply(rop, status, <<>>))
      /\ u.lay = s.lay
      /\ u.ch = [s.ch EXCEPT !.avail = 0, !.replied = TRUE]
  BY SendReplyIs
<1>3. s.ch \in Chans /\ ~s.ch.dataok
  BY DEF Fit, Worlds
<1>4. Reply(rop, status, <<>>).rop = rop
  BY ReplyIs, NoData
<1> HIDE DEF u
<1>5. /\ u.ch.inuse = s.ch.inuse /\ u.ch.open = s.ch.open
      /\ u.ch.curop = s.ch.curop /\ u.ch.pend = s.ch.pend
      /\ u.ch.avail = 0 /\ ~u.ch.dataok /\ u.ch.replied
  BY <1>2, <1>3 DEF Chans
<1>6. Cleared(u, t, rop)
  BY <1>2, PendclrIs
<1> HIDE DEF t
<1>7. Told(s, t, Reply(rop, status, <<>>))
  BY <1>2, <1>4, <1>5, <1>6 DEF Told, Cleared
<1> QED
  BY <1>1, <1>2, <1>6, <1>7 DEF Cleared

(* The data of a READ, or of an ioctl, and the completion after it. *)
LEMMA PutTold ==
  ASSUME NEW s, Fit(s), NEW status \in Int, NEW data \in Seq(Units),
         NEW for_ioctl \in BOOLEAN, NEW rop \in Ops,
         rop = sr_whichop(s, for_ioctl, TRUE)
  PROVE  LET t == put_reply(sr_put_userdata(s, data, for_ioctl), status, for_ioctl)
         IN  /\ t \in Worlds /\ t.lay = s.lay
             /\ Told(s, t, Reply(rop, Len(data), data))
<1> DEFINE d == sr_drain(s)
           r == Reply(rop, Len(data), data)
           c == [d.ch EXCEPT !.dataok = TRUE, !.replied = TRUE]
           p == Append(d.rep, r)
           u == [d EXCEPT !.rep = p, !.ch = c]
           v == sr_pendclr(u, rop)
           e == [v.ch EXCEPT !.dataok = FALSE]
           w == [v EXCEPT !.ch = e]
           t == sr_pendclr(w, rop)
<1>1. /\ d \in Worlds /\ d.req = Rest(s.req, s.ch.avail) /\ d.rep = s.rep
      /\ d.lay = s.lay /\ d.ch = [s.ch EXCEPT !.avail = 0]
  BY DrainIs
<1>2. sr_put_userdata(s, data, for_ioctl) = v
  BY <1>1 DEF sr_put_userdata, Worlds
<1>3. s.ch \in Chans
  BY DEF Fit, Worlds
<1>4. r \in Replies /\ r.rop = rop
  <2> DEFINE n == Len(data)
  <2>1. n \in Int
    BY LenProperties
  <2> HIDE DEF n
  <2>2. Reply(rop, n, data) \in Replies /\ Reply(rop, n, data).rop = rop
    BY <2>1 DEF Reply, Replies
  <2> QED
    BY <2>2 DEF n
<1> HIDE DEF d, r
<1>5. d.ch \in Chans /\ d.rep \in Seq(Replies)
  BY <1>1 DEF Worlds
<1>6. p \in Seq(Replies) /\ p = Append(s.rep, r)
  BY <1>1, <1>4, <1>5, AppendProperties
<1>7. /\ c \in Chans /\ c.inuse = s.ch.inuse /\ c.open = s.ch.open
      /\ c.curop = s.ch.curop /\ c.pend = s.ch.pend
      /\ c.avail = 0 /\ c.dataok /\ c.replied
  BY <1>1, <1>3, <1>5 DEF Chans
<1> HIDE DEF c, p
<1>8. u \in Worlds /\ u.ch = c /\ u.rep = p /\ u.req = d.req /\ u.lay = d.lay
  BY <1>1, <1>6, <1>7 DEF Worlds
<1> HIDE DEF u
<1>9. Cleared(u, v, rop)
  BY <1>8, PendclrIs
<1>10. v.ch.dataok
  BY <1>7, <1>8, <1>9 DEF Cleared
<1>11. sr_whichop(v, for_ioctl, TRUE) = rop
  BY DEF sr_whichop
<1>12. put_reply(v, status, for_ioctl) = t
  <2>1. w = [v EXCEPT !.ch.dataok = FALSE]
    BY <1>9 DEF Worlds, Cleared
  <2> HIDE DEF v, w
  <2> QED
    BY <1>10, <1>11, <2>1 DEF put_reply, Complete
<1> HIDE DEF v
<1>13. /\ e \in Chans /\ e.inuse = v.ch.inuse /\ e.open = v.ch.open
       /\ e.curop = v.ch.curop /\ e.avail = v.ch.avail /\ e.replied = v.ch.replied
       /\ e.pend = v.ch.pend /\ ~e.dataok
  BY <1>9 DEF Chans, Worlds, Cleared
<1> HIDE DEF e
<1>14. w \in Worlds /\ w.ch = e /\ w.rep = v.rep /\ w.req = v.req /\ w.lay = v.lay
  BY <1>9, <1>13 DEF Worlds, Cleared
<1> HIDE DEF w
<1>15. Cleared(w, t, rop)
  BY <1>14, PendclrIs
<1> HIDE DEF t
<1>16. Told(s, t, r)
  <2>1. \A op \in Suspendable : t.ch.pend[op] <=> s.ch.pend[op] /\ op # r.rop
    BY <1>4, <1>7, <1>8, <1>9, <1>13, <1>14, <1>15 DEF Cleared
  <2>2. t.req = Rest(s.req, s.ch.avail) /\ t.rep = Append(s.rep, r)
    BY <1>1, <1>6, <1>8, <1>9, <1>14, <1>15 DEF Cleared
  <2> QED
    BY <1>7, <1>8, <1>9, <1>13, <1>14, <1>15, <2>1, <2>2 DEF Told, Cleared
<1>17. t \in Worlds /\ t.lay = s.lay
  BY <1>1, <1>8, <1>9, <1>14, <1>15 DEF Cleared
<1> QED
  BY <1>2, <1>12, <1>16, <1>17 DEF r

-----------------------------------------------------------------------------
(* The layer. *)

(* Nothing but the layer has changed. *)
Relaid(s, u) == u \in Worlds /\ u.req = s.req /\ u.rep = s.rep /\ u.ch = s.ch

(* And nothing in it but a READ and the data for one. *)
Others(l, m) ==
  /\ m.dev = l.dev /\ m.conn = l.conn /\ m.io = l.io
  /\ m.wr = l.wr /\ m.left = l.left /\ m.off = l.off

(* The layer is still of the same device, and what a former channel has left
   there is as it was, or gone without having been answered. *)
Fades(l, m) ==
  /\ m.dev = l.dev
  /\ l.dev = "psip" => m.conn = l.conn /\ (m.io => l.io)
  /\ m.stale \in {0, l.stale} /\ m.strayed = l.strayed

LEMMA Relay ==
  ASSUME NEW s \in Worlds, NEW l \in Layers
  PROVE  Relaid(s, [s EXCEPT !.lay = l]) /\ [s EXCEPT !.lay = l].lay = l
BY DEF Relaid, Worlds

LEMMA RelaidFit ==
  ASSUME NEW s, Fit(s), NEW u, Relaid(s, u)
  PROVE  Fit(u)
BY DEF Fit, Relaid

LEMMA ToldAcross ==
  ASSUME NEW s, NEW u, NEW t, NEW r, Relaid(s, u), Told(u, t, r)
  PROVE  Told(s, t, r)
BY DEF Relaid, Told

ReadTold(s, t) == \E r \in Replies : r.rop = "READ" /\ Told(s, t, r)

(* The READ in progress has been answered, or nothing has happened to it. *)
Gave(s, t) ==
  /\ t \in Worlds /\ Others(s.lay, t.lay) /\ Fades(s.lay, t.lay)
  /\ \/ Relaid(s, t) /\ t.lay.rd = s.lay.rd
     \/ s.lay.rd > 0 /\ t.lay.rd = 0 /\ ReadTold(s, t)

(* A former channel's READ has been answered to this one. *)
Strays(s, t) ==
  /\ Haunted(s.lay) /\ s.lay.rd = 0
  /\ t \in Worlds /\ Others(s.lay, t.lay) /\ ReadTold(s, t)
  /\ t.lay.rd = 0 /\ t.lay.stale = 0 /\ t.lay.strayed

LEMMA FadesIs ==
  ASSUME NEW l, NEW m, Fades(l, m)
  PROVE  /\ Proper(l) => Proper(m)
         /\ Haunted(m) => Haunted(l)
         /\ m.strayed = l.strayed
         /\ \A n : Fades(m, n) => Fades(l, n)
BY DEF Fades, Proper, Haunted

LEMMA GaveNothing ==
  ASSUME NEW s \in Worlds
  PROVE  Gave(s, s)
BY DEF Gave, Relaid, Others, Fades

(* Answering it, with data or without. *)
LEMMA ReadPut ==
  ASSUME NEW s, Fit(s), NEW u, Relaid(s, u), NEW data \in Seq(Units),
         NEW status \in Int
  PROVE  LET t == put_reply(sr_put_userdata(u, data, FALSE), status, FALSE)
         IN  t \in Worlds /\ t.lay = u.lay /\ ReadTold(s, t)
<1> DEFINE t == put_reply(sr_put_userdata(u, data, FALSE), status, FALSE)
           r == Reply("READ", Len(data), data)
<1>1. Fit(u)
  BY RelaidFit
<1>2. "READ" \in Ops /\ "READ" = sr_whichop(u, FALSE, TRUE)
  BY DEF Ops, Suspendable, sr_whichop
<1>3. t \in Worlds /\ t.lay = u.lay /\ Told(u, t, r)
  BY <1>1, <1>2, PutTold
<1>4. r \in Replies /\ r.rop = "READ"
  <2>1. Len(data) \in Int
    BY LenProperties
  <2> QED
    BY <1>2, <2>1 DEF Reply, Replies
<1> HIDE DEF t, r
<1>5. Told(s, t, r)
  BY <1>3, ToldAcross
<1>6. t \in Worlds /\ t.lay = u.lay /\ ReadTold(s, t)
  BY <1>3, <1>4, <1>5 DEF ReadTold
<1> QED
  BY <1>6 DEF t

LEMMA GavePut ==
  ASSUME NEW s, Fit(s), NEW u, Relaid(s, u), Others(s.lay, u.lay),
         Fades(s.lay, u.lay),
         s.lay.rd > 0, u.lay.rd = 0, NEW data \in Seq(Units), NEW status \in Int
  PROVE  Gave(s, put_reply(sr_put_userdata(u, data, FALSE), status, FALSE))
<1> DEFINE t == put_reply(sr_put_userdata(u, data, FALSE), status, FALSE)
<1>1. t \in Worlds /\ t.lay = u.lay /\ ReadTold(s, t)
  BY ReadPut
<1> HIDE DEF t
<1>2. Gave(s, t)
  BY <1>1 DEF Gave
<1> QED
  BY <1>2 DEF t

LEMMA GaveEnd ==
  ASSUME NEW s, Fit(s), NEW u, Relaid(s, u), Others(s.lay, u.lay),
         Fades(s.lay, u.lay), s.lay.rd > 0, u.lay.rd = 0, NEW status \in Int
  PROVE  Gave(s, put_reply(u, status, FALSE))
<1> DEFINE t == put_reply(u, status, FALSE)
           r == Reply("READ", status, <<>>)
<1>1. Fit(u)
  BY RelaidFit
<1>2. "READ" \in Ops /\ t = Complete(u, status, "READ")
  BY DEF Ops, Suspendable, sr_whichop, put_reply
<1>3. t \in Worlds /\ t.lay = u.lay /\ Told(u, t, r)
  BY <1>1, <1>2, CompleteTold
<1>4. r \in Replies /\ r.rop = "READ"
  BY <1>2, NoData DEF Reply, Replies
<1> HIDE DEF t, r
<1>5. Told(s, t, r)
  BY <1>3, ToldAcross
<1>6. Gave(s, t)
  BY <1>3, <1>4, <1>5 DEF Gave, ReadTold
<1> QED
  BY <1>6 DEF t

LEMMA UnitSeq ==
  ASSUME NEW q \in Seq(1 .. MaxData)
  PROVE  q \in Seq(Units)
BY SeqMonotonic DEF Units

LEMMA FdReadGave ==
  ASSUME NEW s, Fit(s)
  PROVE  Gave(s, tcp_fd_read(s))
<1> DEFINE l == s.lay
           n == IF l.rd < Len(l.rcvd) THEN l.rd ELSE Len(l.rcvd)
           rest == SubSeq(l.rcvd, n + 1, Len(l.rcvd))
           data == SubSeq(l.rcvd, 1, n)
           m == [l EXCEPT !.rd = 0, !.rcvd = rest,
                          !.push = l.push /\ rest # <<>>]
           done == [s EXCEPT !.lay = m]
           m0 == [l EXCEPT !.rd = 0]
           over == [s EXCEPT !.lay = m0]
<1>1. s \in Worlds /\ l \in Layers
  BY DEF Fit, Worlds
<1>2. l.rcvd \in Seq(1 .. MaxData) /\ l.rd \in Nat /\ l.push \in BOOLEAN
  BY <1>1 DEF Layers
<1>3. Len(l.rcvd) \in Nat /\ \A k \in 1 .. Len(l.rcvd) : l.rcvd[k] \in 1 .. MaxData
  BY <1>2, LenProperties, ElementOfSeq
<1>4. n \in Nat /\ n <= Len(l.rcvd)
  BY <1>2, <1>3
<1> HIDE DEF n
<1>5. rest \in Seq(1 .. MaxData) /\ data \in Seq(1 .. MaxData)
  BY <1>3, <1>4, SubSeqProperties
<1>6. data \in Seq(Units)
  BY <1>5, UnitSeq
<1> HIDE DEF rest, data
<1>7. /\ m \in Layers /\ Others(l, m) /\ Fades(l, m) /\ m.rd = 0
      /\ m0 \in Layers /\ Others(l, m0) /\ Fades(l, m0) /\ m0.rd = 0
  <2>1. (l.push /\ rest # <<>>) \in BOOLEAN
    OBVIOUS
  <2>2. 0 \in 0 .. ICHAN_HOLD
    BY HoldAssumption
  <2>3. m \in Layers /\ m0 \in Layers
    BY <1>1, <1>2, <1>5, <2>1, <2>2 DEF Layers
  <2>4. /\ Others(l, m) /\ m.rd = 0 /\ Others(l, m0) /\ m0.rd = 0
        /\ Fades(l, m) /\ Fades(l, m0)
    BY <1>1 DEF Layers, Others, Fades
  <2> QED
    BY <2>3, <2>4
<1>8. tcp_fd_read(s)
        = IF l.rd = 0 THEN s
          ELSE IF n > 0 /\ (n = l.rd \/ l.push \/ l.fin)
               THEN put_reply(sr_put_userdata(done, data, FALSE), n, FALSE)
          ELSE IF n = 0 /\ l.fin THEN put_reply(over, 0, FALSE)
          ELSE s
  <2>1. /\ done = [s EXCEPT !.lay.rd = 0, !.lay.rcvd = rest,
                            !.lay.push = l.push /\ rest # <<>>]
        /\ over = [s EXCEPT !.lay.rd = 0]
    BY <1>1 DEF Worlds, Layers
  <2> HIDE DEF done, over, m, m0
  <2> QED
    BY <2>1 DEF tcp_fd_read, n, rest, data
<1> HIDE DEF m, m0
<1>9. /\ Relaid(s, done) /\ done.lay = m
      /\ Relaid(s, over) /\ over.lay = m0
  BY <1>1, <1>7, Relay
<1> HIDE DEF done, over
<1>10. CASE l.rd = 0
  BY <1>1, <1>8, <1>10, GaveNothing
<1>11. CASE l.rd # 0
  <2>1. s.lay.rd > 0 /\ n \in Int
    BY <1>2, <1>4, <1>11
  <2>5. /\ Others(s.lay, done.lay) /\ Fades(s.lay, done.lay) /\ done.lay.rd = 0
        /\ Others(s.lay, over.lay) /\ Fades(s.lay, over.lay) /\ over.lay.rd = 0
    BY <1>7, <1>9
  <2>2. Gave(s, put_reply(sr_put_userdata(done, data, FALSE), n, FALSE))
    BY <1>6, <1>9, <2>1, <2>5, GavePut
  <2>3. Gave(s, put_reply(over, 0, FALSE))
    <3> DEFINE z == 0
    <3>1. z \in Int
      OBVIOUS
    <3> HIDE DEF z
    <3>2. Gave(s, put_reply(over, z, FALSE))
      BY <1>9, <2>1, <2>5, <3>1, GaveEnd
    <3> QED
      BY <3>2 DEF z
  <2>4. Gave(s, s)
    BY <1>1, GaveNothing
  <2> QED
    BY <1>8, <1>11, <2>2, <2>3, <2>4, Zenon
<1> QED
  BY <1>10, <1>11

LEMMA PsipSendGave ==
  ASSUME NEW s, Fit(s), s.lay.dev = "psip"
  PROVE  Gave(s, psip_send(s)) \/ Strays(s, psip_send(s))
<1> DEFINE l == s.lay
           m == [l EXCEPT !.rd = 0, !.stale = 0, !.rcvd = Tail(@),
                          !.strayed = @ \/ l.rd = 0]
           done == [s EXCEPT !.lay = m]
           data == <<Head(l.rcvd)>>
           z == 1
           t == put_reply(sr_put_userdata(done, data, FALSE), z, FALSE)
<1>1. s \in Worlds /\ l \in Layers
  BY DEF Fit, Worlds
<1>2. /\ l.rcvd \in Seq(1 .. MaxData) /\ l.rd \in Nat /\ l.stale \in Nat
      /\ l.strayed \in BOOLEAN
  BY <1>1 DEF Layers
<1>3. CASE l.rcvd = <<>> \/ (l.rd = 0 /\ l.stale = 0)
  BY <1>1, <1>3, GaveNothing DEF psip_send
<1>4. CASE ~(l.rcvd = <<>> \/ (l.rd = 0 /\ l.stale = 0))
  <2>1. Head(l.rcvd) \in 1 .. MaxData /\ Tail(l.rcvd) \in Seq(1 .. MaxData)
    BY <1>2, <1>4, HeadTailProperties
  <2>2. data \in Seq(1 .. MaxData)
    BY <2>1
  <2>3. data \in Seq(Units)
    BY <2>2, UnitSeq
  <2>10. z \in Int
    OBVIOUS
  <2>4. /\ m \in Layers /\ Others(l, m) /\ m.rd = 0 /\ m.stale = 0
        /\ m.strayed <=> l.strayed \/ l.rd = 0
    <3>1. 0 \in 0 .. ICHAN_HOLD /\ (l.strayed \/ l.rd = 0) \in BOOLEAN
      BY HoldAssumption
    <3>2. m \in Layers
      BY <1>1, <2>1, <3>1 DEF Layers
    <3>3. /\ Others(l, m) /\ m.rd = 0 /\ m.stale = 0
          /\ m.strayed <=> l.strayed \/ l.rd = 0
      BY <1>1 DEF Layers, Others
    <3> QED
      BY <3>2, <3>3
  <2>5. psip_send(s) = t
    BY <1>4, Zenon DEF psip_send
  <2> HIDE DEF m, data, z
  <2>6. Relaid(s, done) /\ done.lay = m
    BY <1>1, <2>4, Relay
  <2> HIDE DEF done
  <2>7. t \in Worlds /\ t.lay = m /\ ReadTold(s, t)
    BY <2>3, <2>6, <2>10, ReadPut
  <2> HIDE DEF t
  <2>8. CASE l.rd > 0
    <3>1. m.strayed = l.strayed
      BY <1>2, <2>4, <2>8 DEF Layers
    <3>2. Fades(l, m)
      BY <2>4, <3>1 DEF Fades, Others
    <3> QED
      BY <2>4, <2>5, <2>7, <2>8, <3>2 DEF Gave
  <2>9. CASE ~(l.rd > 0)
    <3>1. l.rd = 0 /\ l.stale > 0
      BY <1>2, <1>4, <2>9
    <3>2. Strays(s, t)
      BY <2>4, <2>7, <3>1 DEF Strays, Haunted
    <3> QED
      BY <2>5, <3>2
  <2> QED
    BY <2>8, <2>9
<1> QED
  BY <1>3, <1>4

LEMMA DeliverGave ==
  ASSUME NEW s, Fit(s), s.lay.dev \in Devices
  PROVE  Gave(s, Deliver(s)) \/ Strays(s, Deliver(s))
<1>1. s.lay.dev # "tcp" => s.lay.dev = "psip"
  BY DevicesAssumption
<1> QED
  BY <1>1, FdReadGave, PsipSendGave DEF Deliver

LEMMA GaveAcross ==
  ASSUME NEW s, NEW u, Relaid(s, u), Others(s.lay, u.lay), Fades(s.lay, u.lay),
         u.lay.rd = s.lay.rd, NEW t
  PROVE  /\ Gave(u, t) => Gave(s, t)
         /\ Strays(u, t) => Strays(s, t)
<1>1. ASSUME Gave(u, t) PROVE Gave(s, t)
  <2>1. Others(s.lay, t.lay) /\ Fades(s.lay, t.lay) /\ t \in Worlds
    BY <1>1, FadesIs DEF Gave, Others
  <2>2. CASE Relaid(u, t) /\ t.lay.rd = u.lay.rd
    BY <2>1, <2>2 DEF Gave, Relaid
  <2>3. CASE u.lay.rd > 0 /\ t.lay.rd = 0 /\ ReadTold(u, t)
    <3>1. ReadTold(s, t)
      BY <2>3, ToldAcross DEF ReadTold
    <3> QED
      BY <2>1, <2>3, <3>1 DEF Gave
  <2> QED
    BY <1>1, <2>2, <2>3 DEF Gave
<1>2. ASSUME Strays(u, t) PROVE Strays(s, t)
  <2>1. ReadTold(s, t)
    BY <1>2, ToldAcross DEF Strays, ReadTold
  <2>2. Haunted(s.lay) /\ Others(s.lay, t.lay)
    BY <1>2, FadesIs DEF Strays, Others
  <2> QED
    BY <1>2, <2>1, <2>2 DEF Strays
<1> QED
  BY <1>1, <1>2

(* Something from the peer. *)
LEMMA NewDataGave ==
  ASSUME NEW s, Fit(s), s.lay.dev \in Devices, s.lay.seq < MaxData,
         NEW push \in BOOLEAN
  PROVE  Gave(s, NewData(s, push)) \/ Strays(s, NewData(s, push))
<1> DEFINE l == s.lay
           m == [l EXCEPT !.seq = @ + 1, !.rcvd = Append(@, l.seq + 1),
                          !.push = @ \/ push]
           u == [s EXCEPT !.lay = m]
<1>1. s \in Worlds /\ l \in Layers
  BY DEF Fit, Worlds
<1>2. /\ l.rcvd \in Seq(1 .. MaxData) /\ l.push \in BOOLEAN
      /\ l.seq + 1 \in 1 .. MaxData /\ l.seq + 1 \in 0 .. MaxData
  BY <1>1, BoundsAssumption DEF Layers
<1>3. Append(l.rcvd, l.seq + 1) \in Seq(1 .. MaxData)
  BY <1>2, AppendProperties
<1>4. m \in Layers /\ Others(l, m) /\ Fades(l, m) /\ m.rd = l.rd
  BY <1>1, <1>2, <1>3 DEF Layers, Others, Fades
<1>5. NewData(s, push) = Deliver(u)
  <2>1. u = [s EXCEPT !.lay.seq = @ + 1, !.lay.rcvd = Append(@, s.lay.seq + 1),
                      !.lay.push = @ \/ push]
    BY <1>1 DEF Worlds, Layers
  <2> QED
    BY <2>1, Zenon DEF NewData
<1> HIDE DEF m
<1>6. Relaid(s, u) /\ u.lay = m
  BY <1>1, <1>4, Relay
<1> HIDE DEF u
<1>7. Gave(u, Deliver(u)) \/ Strays(u, Deliver(u))
  BY <1>4, <1>6, RelaidFit, DeliverGave DEF Others
<1> QED
  BY <1>4, <1>5, <1>6, <1>7, GaveAcross

-----------------------------------------------------------------------------
(* What the daemon owes.  A reply pays what is suspended, or a request that
   has just been taken. *)
Moved(s, t, x) ==
  /\ Fit(t) /\ Passes(s, t)
  /\ t.ch.open = s.ch.open /\ t.ch.curop = s.ch.curop
  /\ \A op \in Ops : /\ Asks(t, op) = Asks(s, op)
                     /\ Owed(t, op) = Owed(s, op) + One(op = x)

SamePend(s, t) == \A op \in Suspendable : t.ch.pend[op] <=> s.ch.pend[op]

Still(s, t) == Moved(s, t, "none") /\ SamePend(s, t)

Ended(s, t, rop) ==
  /\ Moved(s, t, IF rop \in Suspendable /\ s.ch.pend[rop] THEN "none" ELSE rop)
  /\ \A op \in Suspendable : t.ch.pend[op] <=> s.ch.pend[op] /\ op # rop
  /\ t.ch.avail = 0 /\ t.ch.replied

LEMMA WorldSeqs ==
  ASSUME NEW s \in Worlds
  PROVE  /\ s.req \in Seq(Items) /\ s.rep \in Seq(Replies)
         /\ s.ch \in Chans /\ s.lay \in Layers
BY DEF Worlds

LEMMA PassesTwice ==
  ASSUME NEW s \in Worlds, NEW u \in Worlds, NEW t \in Worlds,
         Passes(s, u), Passes(u, t)
  PROVE  Passes(s, t)
<1>1. Later(s.req, t.req)
  BY WorldSeqs, LaterTwice DEF Passes
<1>2. Longer(s.rep, t.rep)
  BY WorldSeqs, LongerTwice DEF Passes
<1> QED
  BY <1>1, <1>2 DEF Passes

LEMMA PassesSame ==
  ASSUME NEW s \in Worlds, NEW t, t.req = s.req, t.rep = s.rep,
         t.ch.inuse = s.ch.inuse
  PROVE  Passes(s, t)
<1>1. Later(s.req, s.req) /\ Longer(s.rep, s.rep)
  <2>1. s.req \in Seq(Items) /\ s.rep \in Seq(Replies)
    BY WorldSeqs
  <2> QED
    BY <2>1, LenProperties DEF Later, Longer
<1> QED
  BY <1>1 DEF Passes

LEMMA SameCounts ==
  ASSUME NEW s \in Worlds, NEW t \in Worlds, t.req = s.req, t.rep = s.rep,
         SamePend(s, t), NEW op
  PROVE  /\ Asks(t, op) = Asks(s, op) /\ Tells(t, op) = Tells(s, op)
         /\ Holds(t, op) = Holds(s, op)
         /\ Owed(t, op) = Owed(s, op) /\ Busy(t, op) = Busy(s, op)
<1>1. Holds(t, op) = Holds(s, op)
  BY DEF Holds, SamePend
<1>2. Asks(t, op) = Asks(s, op) /\ Tells(t, op) = Tells(s, op)
  BY DEF Asks, Tells
<1> QED
  BY <1>1, <1>2 DEF Owed, Busy

LEMMA StillRelaid ==
  ASSUME NEW s, Fit(s), NEW u, Relaid(s, u)
  PROVE  Fit(u) /\ Still(s, u)
<1>1. Fit(u) /\ s \in Worlds /\ u \in Worlds
  BY RelaidFit DEF Fit
<1>2. SamePend(s, u) /\ Passes(s, u)
  BY <1>1, PassesSame DEF SamePend, Relaid
<1>3. ASSUME NEW op \in Ops
      PROVE  Asks(u, op) = Asks(s, op) /\ Owed(u, op) = Owed(s, op) + One(op = "none")
  <2>1. Asks(u, op) = Asks(s, op) /\ Owed(u, op) = Owed(s, op)
    BY <1>1, <1>2, SameCounts DEF Relaid
  <2>2. One(op = "none") = 0 /\ Owed(s, op) \in Nat
    BY <1>1, Counts DEF Ops, Suspendable, One
  <2> QED
    BY <2>1, <2>2
<1> QED
  BY <1>1, <1>2, <1>3 DEF Still, Moved, Relaid

LEMMA ToldEnded ==
  ASSUME NEW s, Fit(s), NEW t \in Worlds, NEW r \in Replies, Told(s, t, r)
  PROVE  Ended(s, t, r.rop)
<1> DEFINE x == IF r.rop \in Suspendable /\ s.ch.pend[r.rop] THEN "none" ELSE r.rop
<1>1. Fit(t) /\ Tally(s, t, r.rop) /\ Passes(s, t) /\ s \in Worlds
  BY ToldFit DEF Fit
<1>2. r.rop \in Ops
  BY DEF Replies
<1>3. ASSUME NEW op \in Ops
      PROVE  Asks(t, op) = Asks(s, op) /\ Owed(t, op) = Owed(s, op) + One(op = x)
  <2>1. /\ Asks(t, op) = Asks(s, op)
        /\ Tells(t, op) = Tells(s, op) + One(op = r.rop)
        /\ Holds(t, op) = IF op = r.rop THEN 0 ELSE Holds(s, op)
    BY <1>1 DEF Tally
  <2>2. Asks(s, op) \in Nat /\ Tells(s, op) \in Nat /\ Holds(s, op) \in {0, 1}
    BY <1>1, Counts
  <2>3. CASE op = r.rop
    <3>1. CASE r.rop \in Suspendable /\ s.ch.pend[r.rop]
      <4>1. Holds(s, op) = 1 /\ One(op = x) = 0 /\ One(op = r.rop) = 1
        BY <2>3, <3>1 DEF Holds, One, Suspendable
      <4> QED
        BY <2>1, <2>2, <2>3, <4>1 DEF Owed
    <3>2. CASE ~(r.rop \in Suspendable /\ s.ch.pend[r.rop])
      <4>1. Holds(s, op) = 0 /\ One(op = x) = 1 /\ One(op = r.rop) = 1
        BY <2>3, <3>2 DEF Holds, One
      <4> QED
        BY <2>1, <2>2, <2>3, <4>1 DEF Owed
    <3> QED
      BY <3>1, <3>2
  <2>4. CASE op # r.rop
    <3>1. One(op = x) = 0 /\ One(op = r.rop) = 0
      BY <2>4 DEF One, Ops, Suspendable
    <3> QED
      BY <2>1, <2>2, <2>4, <3>1 DEF Owed
  <2> QED
    BY <2>3, <2>4
<1> HIDE DEF x
<1>4. Moved(s, t, x)
  BY <1>1, <1>3 DEF Moved, Told
<1> QED
  BY <1>4 DEF Ended, Told, x

LEMMA MovedAfter ==
  ASSUME NEW s \in Worlds, NEW u, NEW t, NEW x,
         Moved(s, u, "none"), Moved(u, t, x)
  PROVE  Moved(s, t, x)
<1>1. u \in Worlds /\ t \in Worlds /\ Fit(t)
  BY DEF Moved, Fit
<1>2. Passes(s, t)
  BY <1>1, PassesTwice DEF Moved
<1>3. ASSUME NEW op \in Ops
      PROVE  Asks(t, op) = Asks(s, op) /\ Owed(t, op) = Owed(s, op) + One(op = x)
  <2>1. /\ Asks(u, op) = Asks(s, op) /\ Owed(u, op) = Owed(s, op) + One(op = "none")
        /\ Asks(t, op) = Asks(u, op) /\ Owed(t, op) = Owed(u, op) + One(op = x)
    BY DEF Moved
  <2>2. One(op = "none") = 0 /\ Owed(s, op) \in Nat /\ One(op = x) \in Nat
    BY Counts DEF Ops, Suspendable, One
  <2> QED
    BY <2>1, <2>2
<1> QED
  BY <1>1, <1>2, <1>3 DEF Moved

LEMMA MovedBefore ==
  ASSUME NEW s \in Worlds, NEW u, NEW t, NEW x,
         Moved(s, u, x), Moved(u, t, "none")
  PROVE  Moved(s, t, x)
<1>1. u \in Worlds /\ t \in Worlds /\ Fit(t)
  BY DEF Moved, Fit
<1>2. Passes(s, t)
  BY <1>1, PassesTwice DEF Moved
<1>3. ASSUME NEW op \in Ops
      PROVE  Asks(t, op) = Asks(s, op) /\ Owed(t, op) = Owed(s, op) + One(op = x)
  <2>1. /\ Asks(u, op) = Asks(s, op) /\ Owed(u, op) = Owed(s, op) + One(op = x)
        /\ Asks(t, op) = Asks(u, op) /\ Owed(t, op) = Owed(u, op) + One(op = "none")
    BY DEF Moved
  <2>2. One(op = "none") = 0 /\ Owed(s, op) \in Nat /\ One(op = x) \in Nat
    BY Counts DEF Ops, Suspendable, One
  <2> QED
    BY <2>1, <2>2
<1> QED
  BY <1>1, <1>2, <1>3 DEF Moved

LEMMA StillEnded ==
  ASSUME NEW s \in Worlds, NEW u, NEW t, NEW rop, Still(s, u), Ended(u, t, rop)
  PROVE  Ended(s, t, rop)
<1> DEFINE y == IF rop \in Suspendable /\ u.ch.pend[rop] THEN "none" ELSE rop
<1>1. Moved(s, u, "none") /\ Moved(u, t, y) /\ SamePend(s, u)
  BY DEF Still, Ended
<1>3. y = IF rop \in Suspendable /\ s.ch.pend[rop] THEN "none" ELSE rop
  BY <1>1 DEF SamePend
<1> HIDE DEF y
<1>2. Moved(s, t, y)
  BY <1>1, MovedAfter
<1> QED
  BY <1>1, <1>2, <1>3 DEF Ended, SamePend

LEMMA StillTwice ==
  ASSUME NEW s \in Worlds, NEW u, NEW t, Still(s, u), Still(u, t)
  PROVE  Still(s, t)
<1>1. Moved(s, t, "none")
  BY MovedAfter DEF Still
<1> QED
  BY <1>1 DEF Still, SamePend

(* Fetching units of payload. *)
LEMMA FetchIs ==
  ASSUME NEW s, Fit(s), NEW n \in 0 .. s.ch.avail
  PROVE  LET t == sr_get_userdata(s, n)
         IN  /\ Fit(t) /\ Still(s, t) /\ t.lay = s.lay /\ t.rep = s.rep
             /\ t.ch.avail = s.ch.avail - n /\ t.ch.replied = s.ch.replied
<1> DEFINE c == [s.ch EXCEPT !.avail = @ - n]
           t == [s EXCEPT !.req = Rest(s.req, n), !.ch = c]
<1>1. /\ s \in Worlds /\ s.req \in Seq(Items) /\ s.ch \in Chans /\ s.ch.avail \in Nat
      /\ Lead(s.req, s.ch.avail) /\ Framed(s.req) /\ ~s.ch.dataok
  BY DEF Fit, Worlds, Chans
<1>2. n \in 0 .. Len(s.req) /\ Lead(Rest(s.req, n), s.ch.avail - n)
  BY <1>1, LeadRest
<1>3. /\ Rest(s.req, n) \in Seq(Items) /\ Framed(Rest(s.req, n))
      /\ Later(s.req, Rest(s.req, n))
  BY <1>1, <1>2, RestIs, FramedRest
<1>4. s.ch.avail - n \in Nat
  BY <1>1
<1>5. /\ c \in Chans /\ c.avail = s.ch.avail - n /\ c.replied = s.ch.replied
      /\ c.pend = s.ch.pend /\ ~c.dataok
      /\ c.inuse = s.ch.inuse /\ c.open = s.ch.open /\ c.curop = s.ch.curop
  BY <1>1, <1>4 DEF Chans
<1>6. sr_get_userdata(s, n) = t
  BY <1>1 DEF sr_get_userdata, Rest, Worlds
<1> HIDE DEF c
<1>7. /\ t \in Worlds /\ t.req = Rest(s.req, n) /\ t.rep = s.rep
      /\ t.ch = c /\ t.lay = s.lay
  BY <1>1, <1>3, <1>5 DEF Worlds
<1> HIDE DEF t
<1>8. Fit(t)
  BY <1>2, <1>3, <1>5, <1>7 DEF Fit
<1>9. Longer(s.rep, t.rep)
  BY <1>1, <1>7, WorldSeqs, LongerAppend, LenProperties DEF Longer
<1>10. ASSUME NEW op \in Ops
       PROVE  Asks(t, op) = Asks(s, op) /\ Owed(t, op) = Owed(s, op) + One(op = "none")
  <2>1. Asks(t, op) = Asks(s, op)
    BY <1>1, <1>7, AsksDrop
  <2>2. Tells(t, op) = Tells(s, op) /\ Holds(t, op) = Holds(s, op)
    BY <1>5, <1>7 DEF Tells, Holds
  <2>3. One(op = "none") = 0 /\ Owed(s, op) \in Nat
    BY <1>1, Counts DEF Ops, Suspendable, One
  <2> QED
    BY <2>1, <2>2, <2>3 DEF Owed
<1>11. Still(s, t)
  BY <1>3, <1>5, <1>7, <1>8, <1>9, <1>10 DEF Still, Moved, Passes, SamePend
<1> QED
  BY <1>5, <1>6, <1>7, <1>8, <1>11

-----------------------------------------------------------------------------
(* What is suspended is what the layer holds. *)
PendLay(s) ==
  /\ s.ch.pend["READ"] <=> s.lay.rd > 0
  /\ s.ch.pend["WRITE"] <=> s.lay.wr
  /\ s.ch.pend["IOCTL"] <=> s.lay.io

AvailLay(s) == s.ch.avail > 0 => s.lay.wr /\ s.lay.left = s.ch.avail

LEMMA InProgressIs ==
  ASSUME NEW l
  PROVE  /\ InProgress(l, "READ") <=> l.rd > 0
         /\ InProgress(l, "WRITE") <=> l.wr
         /\ InProgress(l, "IOCTL") <=> l.io
BY Zenon DEF InProgress

LEMMA MatchedIs ==
  ASSUME NEW s
  PROVE  Matched(s) <=> PendLay(s) /\ AvailLay(s)
<1>1. Suspendable = {"READ", "WRITE", "IOCTL"}
  BY DEF Suspendable
<1>2. (\A op \in Suspendable : s.ch.pend[op] <=> InProgress(s.lay, op)) <=> PendLay(s)
  BY <1>1, InProgressIs DEF PendLay
<1> QED
  BY <1>2 DEF Matched, AvailLay

(* get_reply() and put_reply(), as the layers use them. *)
LEMMA CompleteEnded ==
  ASSUME NEW s, Fit(s), NEW status, status \in Int, NEW rop, rop \in Ops
  PROVE  Ended(s, Complete(s, status, rop), rop) /\ Complete(s, status, rop).lay = s.lay
<1> DEFINE t == Complete(s, status, rop)
           r == Reply(rop, status, <<>>)
<1>1. t \in Worlds /\ t.lay = s.lay /\ Told(s, t, r)
  BY CompleteTold
<1>2. r \in Replies /\ r.rop = rop
  BY NoData DEF Reply, Replies
<1> HIDE DEF t, r
<1>3. Ended(s, t, r.rop)
  BY <1>1, <1>2, ToldEnded
<1> QED
  BY <1>1, <1>2, <1>3 DEF t

LEMMA RepliesEnded ==
  ASSUME NEW s, Fit(s), NEW status, status \in Int
  PROVE  /\ Ended(s, get_reply(s, status, FALSE), "WRITE")
         /\ get_reply(s, status, FALSE).lay = s.lay
         /\ Ended(s, get_reply(s, status, TRUE), "IOCTL")
         /\ get_reply(s, status, TRUE).lay = s.lay
         /\ Ended(s, put_reply(s, status, FALSE), "READ")
         /\ put_reply(s, status, FALSE).lay = s.lay
<1>1. "READ" \in Ops /\ "WRITE" \in Ops /\ "IOCTL" \in Ops
  BY DEF Ops, Suspendable
<1>2. /\ get_reply(s, status, FALSE) = Complete(s, status, "WRITE")
      /\ get_reply(s, status, TRUE) = Complete(s, status, "IOCTL")
      /\ put_reply(s, status, FALSE) = Complete(s, status, "READ")
  BY DEF get_reply, put_reply, sr_whichop
<1>3. /\ Ended(s, Complete(s, status, "WRITE"), "WRITE")
      /\ Complete(s, status, "WRITE").lay = s.lay
  BY <1>1, CompleteEnded
<1>4. /\ Ended(s, Complete(s, status, "IOCTL"), "IOCTL")
      /\ Complete(s, status, "IOCTL").lay = s.lay
  BY <1>1, CompleteEnded
<1>5. /\ Ended(s, Complete(s, status, "READ"), "READ")
      /\ Complete(s, status, "READ").lay = s.lay
  BY <1>1, CompleteEnded
<1> QED
  BY <1>2, <1>3, <1>4, <1>5

(* The data of an ioctl. *)
LEMMA ConfEnded ==
  ASSUME NEW s, Fit(s)
  PROVE  LET t == put_reply(sr_put_userdata(s, <<"conf">>, TRUE), 0, TRUE)
         IN  Ended(s, t, "IOCTL") /\ t.lay = s.lay
<1> DEFINE data == <<"conf">>
           z == 0
           t == put_reply(sr_put_userdata(s, data, TRUE), z, TRUE)
           r == Reply("IOCTL", Len(data), data)
<1>1. data \in Seq(Units) /\ Len(data) \in Int /\ z \in Int
  BY DEF Units
<1>2. "IOCTL" \in Ops /\ "IOCTL" = sr_whichop(s, TRUE, TRUE)
  BY DEF Ops, Suspendable, sr_whichop
<1> HIDE DEF data, z
<1>3. t \in Worlds /\ t.lay = s.lay /\ Told(s, t, r)
  BY <1>1, <1>2, PutTold
<1>4. r \in Replies /\ r.rop = "IOCTL"
  BY <1>1, <1>2 DEF Reply, Replies
<1> HIDE DEF t, r
<1>5. Ended(s, t, r.rop)
  BY <1>3, <1>4, ToldEnded
<1> QED
  BY <1>3, <1>4, <1>5 DEF t, data, z

(* A READ in progress is answered, if it is. *)
Went(s, t) ==
  /\ Moved(s, t, "none") /\ Others(s.lay, t.lay) /\ Fades(s.lay, t.lay)
  /\ t.ch.pend["READ"] <=> t.lay.rd > 0
  /\ t.ch.pend["WRITE"] <=> s.ch.pend["WRITE"]
  /\ t.ch.pend["IOCTL"] <=> s.ch.pend["IOCTL"]
  /\ t.ch.avail = s.ch.avail \/ t.ch.avail = 0

LEMMA GaveWent ==
  ASSUME NEW s, Fit(s), s.ch.pend["READ"] <=> s.lay.rd > 0, NEW t, Gave(s, t)
  PROVE  Went(s, t)
<1>1. s \in Worlds /\ Others(s.lay, t.lay) /\ Fades(s.lay, t.lay) /\ t \in Worlds
  BY DEF Fit, Gave
<1>2. CASE Relaid(s, t) /\ t.lay.rd = s.lay.rd
  <2>1. Still(s, t)
    BY <1>2, StillRelaid
  <2> QED
    BY <1>1, <1>2, <2>1 DEF Still, Went, Relaid
<1>3. CASE s.lay.rd > 0 /\ t.lay.rd = 0 /\ ReadTold(s, t)
  <2>1. PICK r \in Replies : r.rop = "READ" /\ Told(s, t, r)
    BY <1>3 DEF ReadTold
  <2>2. Ended(s, t, "READ")
    BY <1>1, <2>1, ToldEnded
  <2>3. Moved(s, t, "none")
    BY <1>3, <2>2 DEF Ended, Suspendable
  <2>4. t.ch.avail = 0 /\ \A op \in Suspendable : t.ch.pend[op] <=> s.ch.pend[op] /\ op # "READ"
    BY <2>2 DEF Ended
  <2> QED
    BY <1>1, <1>3, <2>3, <2>4 DEF Went, Suspendable
<1> QED
  BY <1>2, <1>3 DEF Gave

LEMMA WentMatched ==
  ASSUME NEW s, PendLay(s), AvailLay(s), NEW t, Went(s, t)
  PROVE  PendLay(t) /\ AvailLay(t)
BY DEF Went, PendLay, AvailLay, Others

-----------------------------------------------------------------------------
(* The end of sr_chan_req() for a READ, WRITE or IOCTL. *)
LEMMA SettleSets ==
  ASSUME NEW s, Fit(s), NEW op \in Suspendable, InProgress(s.lay, op),
         NEW x, x = IF s.ch.pend[op] THEN "none" ELSE op
  PROVE  LET t == Settle(s, op)
         IN  /\ Moved(s, t, x) /\ t.lay = s.lay /\ t.ch.avail = s.ch.avail
             /\ \A o \in Suspendable : t.ch.pend[o] <=> s.ch.pend[o] \/ o = op
<1> DEFINE p == [s.ch.pend EXCEPT ![op] = TRUE]
           c == [s.ch EXCEPT !.pend = p]
           t == [s EXCEPT !.ch = c]
<1>1. /\ s \in Worlds /\ s.ch \in Chans /\ s.ch.pend \in [Suspendable -> BOOLEAN]
      /\ Framed(s.req) /\ Lead(s.req, s.ch.avail) /\ ~s.ch.dataok
  BY DEF Fit, Worlds, Chans
<1>2. Settle(s, op) = t
  BY <1>1 DEF Settle, Worlds, Chans
<1>3. /\ p \in [Suspendable -> BOOLEAN]
      /\ \A o \in Suspendable : p[o] <=> s.ch.pend[o] \/ o = op
  BY <1>1
<1> HIDE DEF p
<1>4. /\ c \in Chans /\ c.pend = p /\ c.inuse = s.ch.inuse /\ c.open = s.ch.open
      /\ c.curop = s.ch.curop /\ c.avail = s.ch.avail /\ c.dataok = s.ch.dataok
  BY <1>1, <1>3 DEF Chans
<1> HIDE DEF c
<1>5. /\ t \in Worlds /\ t.req = s.req /\ t.rep = s.rep /\ t.lay = s.lay
      /\ t.ch = c
  BY <1>1, <1>4 DEF Worlds
<1> HIDE DEF t
<1>6. Fit(t)
  BY <1>1, <1>4, <1>5 DEF Fit
<1>7. Passes(s, t)
  BY <1>1, <1>4, <1>5, PassesSame
<1>8. ASSUME NEW o \in Ops
      PROVE  Asks(t, o) = Asks(s, o) /\ Owed(t, o) = Owed(s, o) + One(o = x)
  <2>1. Asks(t, o) = Asks(s, o) /\ Tells(t, o) = Tells(s, o)
    BY <1>5 DEF Asks, Tells
  <2>2. Holds(t, o) = Holds(s, o) + One(o = x)
    BY <1>3, <1>4, <1>5 DEF Holds, One, Ops, Suspendable
  <2>3. Asks(s, o) \in Nat /\ Tells(s, o) \in Nat /\ Holds(s, o) \in {0, 1}
    BY <1>1, Counts
  <2>4. One(o = x) \in {0, 1}
    BY DEF One
  <2> QED
    BY <2>1, <2>2, <2>3, <2>4 DEF Owed
<1>9. Moved(s, t, x)
  BY <1>4, <1>5, <1>6, <1>7, <1>8 DEF Moved
<1> QED
  BY <1>2, <1>3, <1>4, <1>5, <1>9

LEMMA SettleWaits ==
  ASSUME NEW s, Fit(s), NEW op \in Suspendable, InProgress(s.lay, op), ~s.ch.pend[op]
  PROVE  LET t == Settle(s, op)
         IN  /\ Moved(s, t, op) /\ t.lay = s.lay /\ t.ch.avail = s.ch.avail
             /\ \A o \in Suspendable : t.ch.pend[o] <=> s.ch.pend[o] \/ o = op
<1>1. op = IF s.ch.pend[op] THEN "none" ELSE op
  OBVIOUS
<1> QED
  BY <1>1, SettleSets

LEMMA SettleDone ==
  ASSUME NEW s, NEW op, ~InProgress(s.lay, op), s.ch.replied
  PROVE  Settle(s, op) = s
BY Zenon DEF Settle

(* A request that has been acted on: answered or suspended. *)
Took(s, t, op) ==
  Moved(s, t, op) /\ PendLay(t) /\ AvailLay(t) /\ Fades(s.lay, t.lay)

(* One that was answered. *)
LEMMA TookEnded ==
  ASSUME NEW s, Fit(s), PendLay(s), NEW op \in Suspendable, ~s.ch.pend[op],
         NEW t, Ended(s, t, op), t.lay.rd = s.lay.rd, t.lay.wr = s.lay.wr,
         t.lay.io = s.lay.io, Fades(s.lay, t.lay)
  PROVE  Took(s, Settle(t, op), op)
<1>1. /\ \A o \in Suspendable : t.ch.pend[o] <=> s.ch.pend[o]
      /\ t.ch.avail = 0 /\ t.ch.replied /\ Moved(s, t, op)
  BY DEF Ended
<1>2. PendLay(t) /\ AvailLay(t)
  BY <1>1 DEF PendLay, AvailLay, Suspendable
<1>3. ~InProgress(t.lay, op)
  <2>1. ~InProgress(t.lay, op) <=> ~t.ch.pend[op]
    BY <1>2, MatchedIs DEF Matched
  <2> QED
    BY <1>1, <2>1
<1>4. Settle(t, op) = t
  BY <1>1, <1>3, SettleDone
<1> QED
  BY <1>1, <1>2, <1>4 DEF Took

(* The error that the layers answer with. *)
LEMMA FailEnded ==
  ASSUME NEW s, Fit(s)
  PROVE  /\ Ended(s, get_reply(s, -1, FALSE), "WRITE")
         /\ get_reply(s, -1, FALSE).lay = s.lay
         /\ Ended(s, get_reply(s, -1, TRUE), "IOCTL")
         /\ get_reply(s, -1, TRUE).lay = s.lay
         /\ Ended(s, put_reply(s, -1, FALSE), "READ")
         /\ put_reply(s, -1, FALSE).lay = s.lay
<1> DEFINE z == -1
<1>1. z \in Int
  OBVIOUS
<1> HIDE DEF z
<1>2. /\ Ended(s, get_reply(s, z, FALSE), "WRITE")
      /\ get_reply(s, z, FALSE).lay = s.lay
      /\ Ended(s, get_reply(s, z, TRUE), "IOCTL")
      /\ get_reply(s, z, TRUE).lay = s.lay
      /\ Ended(s, put_reply(s, z, FALSE), "READ")
      /\ put_reply(s, z, FALSE).lay = s.lay
  BY <1>1, RepliesEnded
<1> QED
  BY <1>2 DEF z

-----------------------------------------------------------------------------
(* NWR_READ.  One that comes while another is suspended takes its place. *)
LEMMA DoReadTook ==
  ASSUME NEW s, Fit(s), PendLay(s), s.ch.avail = 0,
         Proper(s.lay), s.lay.dev \in Devices,
         s.ch.pend["READ"] => s.lay.dev = "psip",
         NEW r, r.count \in 1 .. ICHAN_HOLD, NEW t \in DoRead(s, r),
         NEW x, x = IF s.ch.pend["READ"] THEN "none" ELSE "READ"
  PROVE  Took(s, t, x) /\ ~Haunted(t.lay)
<1>1. s \in Worlds /\ s.lay \in Layers /\ t = Settle(srm_read(s, r.count), "READ")
  BY DEF Fit, Worlds, DoRead
<1>2. "READ" \in Suspendable
  BY DEF Suspendable
<1>3. CASE s.lay.conn = "yes"
  <2> DEFINE k == IF s.lay.dev = "psip" THEN 0 ELSE s.lay.stale
             m == [s.lay EXCEPT !.rd = r.count, !.stale = k]
             u == [s EXCEPT !.lay = m]
             v == Deliver(u)
  <2>1. r.count \in 0 .. ICHAN_HOLD /\ r.count > 0 /\ k \in 0 .. ICHAN_HOLD
    BY <1>1, HoldAssumption DEF Layers
  <2>2. /\ m \in Layers /\ m.rd = r.count /\ Others(s.lay, m)
        /\ m.dev = s.lay.dev /\ m.stale = k /\ m.strayed = s.lay.strayed
    BY <1>1, <2>1 DEF Layers, Others
  <2>3. srm_read(s, r.count) = v
    BY <1>1, <1>3, Zenon DEF srm_read
  <2>10. Fades(s.lay, m) /\ ~Haunted(m)
    BY <2>2, HoldAssumption DEF Fades, Haunted, Others
  <2> HIDE DEF m, k
  <2>4. Relaid(s, u) /\ u.lay = m
    BY <1>1, <2>2, Relay
  <2> HIDE DEF u
  <2>5. Fit(u) /\ Still(s, u)
    BY <2>4, StillRelaid
  <2>6. Gave(u, v)
    <3>1. ~Strays(u, v)
      BY <2>1, <2>2, <2>4 DEF Strays
    <3> QED
      BY <2>2, <2>4, <2>5, <3>1, DeliverGave
  <2> HIDE DEF v
  <2>11. Fades(s.lay, v.lay) /\ Others(s.lay, v.lay) /\ ~Haunted(v.lay)
    <3>1. Fades(m, v.lay) /\ Others(m, v.lay)
      BY <2>4, <2>6 DEF Gave
    <3> QED
      BY <2>2, <2>10, <3>1, FadesIs DEF Others
  <2>7. CASE Relaid(u, v) /\ v.lay.rd = u.lay.rd
    <3>1. Fit(v) /\ Still(u, v)
      BY <2>5, <2>7, StillRelaid
    <3>2. Still(s, v)
      BY <1>1, <2>5, <3>1, StillTwice
    <3>3. InProgress(v.lay, "READ") /\ x = IF v.ch.pend["READ"] THEN "none" ELSE "READ"
      <4>1. v.lay.rd > 0
        BY <2>1, <2>2, <2>4, <2>7
      <4>2. v.ch.pend["READ"] <=> s.ch.pend["READ"]
        BY <1>2, <3>2 DEF Still, SamePend
      <4> QED
        BY <4>1, <4>2, InProgressIs
    <3> DEFINE w == Settle(v, "READ")
    <3>4. /\ Moved(v, w, x) /\ w.lay = v.lay /\ w.ch.avail = v.ch.avail
          /\ \A o \in Suspendable : w.ch.pend[o] <=> v.ch.pend[o] \/ o = "READ"
      BY <1>2, <3>1, <3>3, SettleSets
    <3> HIDE DEF w
    <3>5. Moved(s, w, x)
      BY <1>1, <3>2, <3>4, MovedAfter DEF Still
    <3>6. w.ch.avail = 0 /\ w.lay.rd > 0
      BY <2>1, <2>2, <2>4, <2>7, <3>4 DEF Relaid
    <3>7. Others(s.lay, w.lay) /\ Fades(s.lay, w.lay) /\ ~Haunted(w.lay)
      BY <2>11, <3>4
    <3>8. PendLay(w) /\ AvailLay(w)
      BY <3>2, <3>4, <3>6, <3>7 DEF PendLay, AvailLay, Others, Still, SamePend, Suspendable
    <3> QED
      BY <1>1, <2>3, <3>5, <3>7, <3>8 DEF Took, w
  <2>8. CASE u.lay.rd > 0 /\ v.lay.rd = 0 /\ ReadTold(u, v)
    <3>1. PICK q \in Replies : q.rop = "READ" /\ Told(u, v, q)
      BY <2>8 DEF ReadTold
    <3>2. Ended(u, v, q.rop)
      BY <2>5, <2>6, <3>1, ToldEnded DEF Gave
    <3>3. Ended(s, v, "READ")
      BY <1>1, <2>5, <3>1, <3>2, StillEnded
    <3>4. /\ Moved(s, v, x) /\ v.ch.avail = 0 /\ v.ch.replied
          /\ \A o \in Suspendable : v.ch.pend[o] <=> s.ch.pend[o] /\ o # "READ"
      BY <1>2, <3>3 DEF Ended
    <3>5. PendLay(v) /\ AvailLay(v)
      BY <2>8, <2>11, <3>4 DEF PendLay, AvailLay, Others, Suspendable
    <3>6. Settle(v, "READ") = v
      BY <2>8, <3>4, SettleDone, InProgressIs
    <3> QED
      BY <1>1, <2>3, <2>11, <3>4, <3>5, <3>6 DEF Took
  <2> QED
    BY <2>6, <2>7, <2>8 DEF Gave
<1>4. CASE s.lay.conn # "yes"
  <2> DEFINE v == put_reply(s, -1, FALSE)
  <2>1. srm_read(s, r.count) = v
    BY <1>4 DEF srm_read
  <2>2. Ended(s, v, "READ") /\ v.lay = s.lay
    BY FailEnded
  <2>3. s.lay.dev # "psip"
    BY <1>4 DEF Proper
  <2>4. ~s.ch.pend["READ"] /\ Fades(s.lay, s.lay) /\ ~Haunted(s.lay) /\ x = "READ"
    BY <2>3 DEF Fades, Haunted
  <2> HIDE DEF v
  <2>5. /\ Fades(s.lay, v.lay) /\ v.lay.rd = s.lay.rd /\ v.lay.wr = s.lay.wr
        /\ v.lay.io = s.lay.io
    BY <2>2, <2>4
  <2>6. Took(s, Settle(v, "READ"), "READ")
    BY <1>2, <2>2, <2>4, <2>5, TookEnded
  <2>7. Took(s, t, x)
    BY <1>1, <2>1, <2>4, <2>6
  <2> QED
    BY <2>4, <2>7, FadesIs DEF Took
<1> QED
  BY <1>3, <1>4

-----------------------------------------------------------------------------
(* tcp_fd_write(), with the payload it has to fetch at the head of the FIFO. *)
Wrote(s, t) ==
  /\ t.lay.rd = s.lay.rd /\ t.lay.io = s.lay.io /\ Fades(s.lay, t.lay)
  /\ \/ /\ Fit(t) /\ Still(s, t) /\ t.lay.wr
        /\ t.lay.left = t.ch.avail
     \/ Ended(s, t, "WRITE") /\ ~t.lay.wr

LEMMA FdWriteWrote ==
  ASSUME NEW s, Fit(s), s.lay.wr, s.lay.left = s.ch.avail, NEW w \in Nat
  PROVE  Wrote(s, tcp_fd_write(s, w))
<1> DEFINE n == IF s.lay.left < w THEN s.lay.left ELSE w
           g == sr_get_userdata(s, n)
           m == [g.lay EXCEPT !.left = @ - n, !.off = @ + n]
           t == [g EXCEPT !.lay = m]
           m0 == [m EXCEPT !.wr = FALSE]
           u == [t EXCEPT !.lay = m0]
           v == get_reply(u, t.lay.off, FALSE)
<1>1. s \in Worlds /\ s.ch.avail \in Nat /\ s.lay \in Layers
  BY DEF Fit, Worlds, Chans
<1>2. n \in 0 .. s.ch.avail
  BY <1>1
<1> HIDE DEF n
<1>3. /\ Fit(g) /\ Still(s, g) /\ g.lay = s.lay /\ g.ch.avail = s.ch.avail - n
  BY <1>2, FetchIs
<1>4. tcp_fd_write(s, w) = IF t.lay.left > 0 THEN t ELSE v
  <2>1. g \in Worlds /\ g.lay \in Layers
    BY <1>3 DEF Fit, Worlds
  <2>2. t = [g EXCEPT !.lay.left = @ - n, !.lay.off = @ + n]
    BY <2>1 DEF Worlds, Layers
  <2>3. t.lay = m
    BY <2>1 DEF Worlds
  <2>4. u = [t EXCEPT !.lay.wr = FALSE]
    BY <2>1 DEF Worlds, Layers
  <2> HIDE DEF t, u, g
  <2> QED
    BY <2>2, <2>4 DEF tcp_fd_write, n, g
<1> HIDE DEF g
<1>5. g.lay.left - n \in Nat /\ g.lay.off + n \in Nat /\ g.lay \in Layers
  BY <1>1, <1>2, <1>3 DEF Layers
<1>6. /\ m \in Layers /\ m.left = s.lay.left - n /\ m.wr = s.lay.wr
      /\ m.rd = s.lay.rd /\ m.io = s.lay.io /\ Fades(s.lay, m)
  BY <1>3, <1>5 DEF Layers, Fades
<1>7. /\ m0 \in Layers /\ ~m0.wr /\ m0.rd = s.lay.rd /\ m0.io = s.lay.io
      /\ Fades(s.lay, m0)
  BY <1>6 DEF Layers, Fades
<1> HIDE DEF m, m0
<1>8. Relaid(g, t) /\ t.lay = m /\ t \in Worlds
  <2>1. g \in Worlds
    BY <1>3 DEF Fit
  <2>2. Relaid(g, t) /\ t.lay = m
    BY <2>1, <1>6, Relay
  <2> QED
    BY <2>2 DEF Relaid
<1> HIDE DEF t
<1>9. Fit(t) /\ Still(s, t)
  <2>1. Fit(t) /\ Still(g, t)
    BY <1>3, <1>8, StillRelaid
  <2> QED
    BY <1>1, <1>3, <2>1, StillTwice
<1>10. CASE t.lay.left > 0
  <2>1. t.lay.left = t.ch.avail
    BY <1>3, <1>6, <1>8 DEF Relaid
  <2> QED
    BY <1>4, <1>6, <1>8, <1>9, <1>10, <2>1 DEF Wrote
<1>11. CASE ~(t.lay.left > 0)
  <2>1. Relaid(t, u) /\ u.lay = m0
    BY <1>7, <1>8, Relay
  <2>2. t.lay.off \in Int
    BY <1>8 DEF Worlds, Layers
  <2> HIDE DEF u
  <2>3. Fit(u) /\ Still(t, u)
    BY <1>9, <2>1, StillRelaid
  <2>4. Ended(u, v, "WRITE") /\ v.lay = u.lay
    BY <2>2, <2>3, RepliesEnded
  <2>5. Still(s, u)
    BY <1>1, <1>9, <2>3, StillTwice
  <2>6. Ended(s, v, "WRITE")
    BY <1>1, <2>4, <2>5, StillEnded
  <2> HIDE DEF v
  <2> QED
    BY <1>4, <1>7, <1>11, <2>1, <2>4, <2>6 DEF Wrote
<1> QED
  BY <1>10, <1>11

(* NWR_WRITE, on a connection. *)
LEMMA TcpWriteTook ==
  ASSUME NEW s, Fit(s), PendLay(s), ~s.ch.pend["WRITE"],
         NEW t \in tcp_write(s, s.ch.avail)
  PROVE  Took(s, Settle(t, "WRITE"), "WRITE")
<1>1. s \in Worlds /\ s.lay \in Layers /\ s.ch.avail \in Nat
  BY DEF Fit, Worlds, Chans
<1>2. "WRITE" \in Suspendable
  BY DEF Suspendable
<1>3. CASE s.lay.conn = "yes"
  <2> DEFINE m == [s.lay EXCEPT !.wr = TRUE, !.left = s.ch.avail, !.off = 0]
             u == [s EXCEPT !.lay = m]
  <2>1. PICK w \in Windows(s.ch.avail) : t = tcp_fd_write(u, w)
    <3>1. u = [s EXCEPT !.lay.wr = TRUE, !.lay.left = s.ch.avail, !.lay.off = 0]
      BY <1>1 DEF Worlds, Layers
    <3> HIDE DEF u
    <3> QED
      BY <1>3, <3>1 DEF tcp_write
  <2>2. w \in Nat
    BY <1>1, <2>1 DEF Windows
  <2>3. /\ m \in Layers /\ m.wr /\ m.left = s.ch.avail
        /\ m.rd = s.lay.rd /\ m.io = s.lay.io /\ Fades(s.lay, m)
    BY <1>1 DEF Layers, Fades
  <2> HIDE DEF m
  <2>4. Relaid(s, u) /\ u.lay = m
    BY <1>1, <2>3, Relay
  <2> HIDE DEF u
  <2>5. Fit(u) /\ Still(s, u) /\ u.lay.left = u.ch.avail
    BY <2>3, <2>4, StillRelaid DEF Relaid
  <2>6. Wrote(u, t)
    BY <2>1, <2>2, <2>3, <2>4, <2>5, FdWriteWrote
  <2>9. Fades(s.lay, t.lay)
    BY <2>3, <2>4, <2>6, FadesIs DEF Wrote
  <2>7. CASE Fit(t) /\ Still(u, t) /\ t.lay.wr /\ t.lay.left = t.ch.avail
    <3>1. Still(s, t)
      BY <1>1, <2>5, <2>7, StillTwice
    <3>2. InProgress(t.lay, "WRITE") /\ ~t.ch.pend["WRITE"]
      BY <1>2, <2>7, <3>1, InProgressIs DEF Still, SamePend
    <3> DEFINE v == Settle(t, "WRITE")
    <3>3. /\ Moved(t, v, "WRITE") /\ v.lay = t.lay /\ v.ch.avail = t.ch.avail
          /\ \A o \in Suspendable : v.ch.pend[o] <=> t.ch.pend[o] \/ o = "WRITE"
      BY <1>2, <2>7, <3>2, SettleWaits
    <3> HIDE DEF v
    <3>4. Moved(s, v, "WRITE")
      BY <1>1, <3>1, <3>3, MovedAfter DEF Still
    <3>5. v.lay.rd = s.lay.rd /\ v.lay.io = s.lay.io /\ v.lay.wr /\ v.lay.left = v.ch.avail
      BY <2>3, <2>4, <2>6, <2>7, <3>3 DEF Wrote
    <3>6. PendLay(v) /\ AvailLay(v)
      BY <3>1, <3>3, <3>5 DEF PendLay, AvailLay, Still, SamePend, Suspendable
    <3> QED
      BY <2>9, <3>3, <3>4, <3>6 DEF Took, v
  <2>8. CASE Ended(u, t, "WRITE") /\ ~t.lay.wr
    <3>1. Ended(s, t, "WRITE")
      BY <1>1, <2>5, <2>8, StillEnded
    <3>2. /\ t.lay.rd = s.lay.rd /\ t.lay.io = s.lay.io /\ t.lay.wr = s.lay.wr
      <4>1. t \in Worlds
        BY <3>1 DEF Ended, Moved, Fit
      <4> QED
        BY <1>1, <2>3, <2>4, <2>6, <2>8, <4>1 DEF Wrote, PendLay, Worlds, Layers
    <3> QED
      BY <1>2, <2>9, <3>1, <3>2, TookEnded
  <2> QED
    BY <2>6, <2>7, <2>8 DEF Wrote
<1>4. CASE s.lay.conn # "yes"
  <2>1. t = get_reply(s, -1, FALSE)
    BY <1>4 DEF tcp_write
  <2>2. Ended(s, t, "WRITE") /\ t.lay = s.lay /\ Fades(s.lay, s.lay)
    BY <2>1, FailEnded DEF Fades
  <2> QED
    BY <1>2, <2>2, TookEnded
<1> QED
  BY <1>3, <1>4

(* And on a pseudo-IP device, where a packet may come back at once. *)
LEMMA PsipWriteEnded ==
  ASSUME NEW u, Fit(u), PendLay(u), ~u.ch.pend["WRITE"],
         NEW t, Ended(u, t, "WRITE"), t.lay = u.lay
  PROVE  Took(u, t, "WRITE") /\ Settle(t, "WRITE") = t
<1>1. Ended(u, t, "WRITE") /\ t.lay = u.lay
  OBVIOUS
<1>2. /\ \A o \in Suspendable : t.ch.pend[o] <=> u.ch.pend[o] /\ o # "WRITE"
      /\ t.ch.avail = 0 /\ t.ch.replied /\ Moved(u, t, "WRITE")
  BY <1>1 DEF Ended
<1>3. PendLay(t) /\ AvailLay(t) /\ ~t.lay.wr
  BY <1>1, <1>2 DEF PendLay, AvailLay, Suspendable
<1>5. Fades(u.lay, t.lay)
  BY <1>1 DEF Fades
<1>4. Settle(t, "WRITE") = t
  BY <1>2, <1>3, SettleDone, InProgressIs
<1> QED
  BY <1>1, <1>2, <1>3, <1>4, <1>5 DEF Took

(* Either it answers no former channel's READ, or g is how it was before that
   and u after it. *)
LEMMA PsipWriteTook ==
  ASSUME NEW s, Fit(s), PendLay(s), ~s.ch.pend["WRITE"], s.lay.dev \in Devices,
         NEW v \in psip_write(s, s.ch.avail), NEW t, t = Settle(v, "WRITE")
  PROVE  \/ Took(s, t, "WRITE")
         \/ \E g, u : /\ Fit(g) /\ Still(s, g) /\ g.lay = s.lay /\ g.rep = s.rep
                      /\ Strays(g, u) /\ Took(u, t, "WRITE")
<1> DEFINE g == sr_get_userdata(s, s.ch.avail)
<1>1. s \in Worlds /\ s.lay \in Layers /\ s.ch.avail \in Nat
  BY DEF Fit, Worlds, Chans
<1>2. "WRITE" \in Suspendable
  BY DEF Suspendable
<1>3. Fit(g) /\ Still(s, g) /\ g.lay = s.lay /\ g.rep = s.rep
  <2>1. s.ch.avail \in 0 .. s.ch.avail
    BY <1>1
  <2> QED
    BY <2>1, FetchIs
<1>4. PICK u \in {g} \cup (IF s.lay.seq < MaxData THEN {NewData(g, TRUE)} ELSE {}) :
        v = get_reply(u, s.ch.avail, FALSE)
  BY Zenon DEF psip_write
<1> HIDE DEF g
<1>5. /\ PendLay(g) /\ ~g.ch.pend["WRITE"] /\ ~g.lay.wr /\ g \in Worlds
      /\ Moved(s, g, "none") /\ Fades(s.lay, g.lay)
  BY <1>3 DEF PendLay, Still, SamePend, Suspendable, Fit, Fades
<1>6. Gave(g, u) \/ Strays(g, u)
  <2>1. CASE u = g
    BY <1>5, <2>1, GaveNothing
  <2>2. CASE u # g
    <3>1. g.lay.seq < MaxData /\ u = NewData(g, TRUE)
      BY <1>3, <1>4, <2>2
    <3> QED
      BY <1>3, <3>1, NewDataGave
  <2> QED
    BY <2>1, <2>2
<1>7. s.ch.avail \in Int
  BY <1>1
<1>8. CASE Gave(g, u)
  <2>1. Went(g, u)
    BY <1>3, <1>5, <1>8, GaveWent DEF PendLay
  <2>2. /\ Fit(u) /\ Moved(g, u, "none") /\ Fades(g.lay, u.lay)
        /\ PendLay(u) /\ ~u.ch.pend["WRITE"]
    BY <1>5, <2>1 DEF Went, PendLay, Others, Moved
  <2>7. Ended(u, v, "WRITE") /\ v.lay = u.lay
    BY <1>4, <1>7, <2>2, RepliesEnded
  <2>3. Took(u, v, "WRITE") /\ Settle(v, "WRITE") = v
    BY <2>2, <2>7, PsipWriteEnded
  <2>4. Moved(g, v, "WRITE")
    BY <1>5, <2>2, <2>3, MovedAfter DEF Took
  <2>5. Moved(s, v, "WRITE")
    BY <1>1, <1>5, <2>4, MovedAfter
  <2>6. Fades(s.lay, v.lay)
    BY <1>3, <2>2, <2>7
  <2> QED
    BY <2>3, <2>5, <2>6 DEF Took
<1>9. CASE Strays(g, u)
  <2>1. PICK q \in Replies : q.rop = "READ" /\ Told(g, u, q)
    BY <1>9 DEF Strays, ReadTold
  <2>2. Fit(u)
    BY <1>3, <1>9, <2>1, ToldFit DEF Strays
  <2>3. PendLay(u) /\ ~u.ch.pend["WRITE"]
    BY <1>5, <1>9, <2>1 DEF Strays, Told, PendLay, Others, Suspendable
  <2>5. Ended(u, v, "WRITE") /\ v.lay = u.lay
    BY <1>4, <1>7, <2>2, RepliesEnded
  <2>4. Took(u, v, "WRITE") /\ Settle(v, "WRITE") = v
    BY <2>2, <2>3, <2>5, PsipWriteEnded
  <2> QED
    BY <1>3, <1>9, <2>4
<1> QED
  BY <1>6, <1>8, <1>9

LEMMA DoWriteTook ==
  ASSUME NEW s, Fit(s), PendLay(s), ~s.ch.pend["WRITE"], s.lay.dev \in Devices,
         NEW r, r.count = s.ch.avail, NEW t \in DoWrite(s, r)
  PROVE  \/ Took(s, t, "WRITE")
         \/ \E g, u : /\ Fit(g) /\ Still(s, g) /\ g.lay = s.lay /\ g.rep = s.rep
                      /\ Strays(g, u) /\ Took(u, t, "WRITE")
<1>1. CASE s.lay.dev = "tcp"
  <2>1. PICK u \in tcp_write(s, s.ch.avail) : t = Settle(u, "WRITE")
    BY <1>1 DEF DoWrite
  <2> QED
    BY <2>1, TcpWriteTook
<1>2. CASE s.lay.dev # "tcp"
  <2>1. PICK u \in psip_write(s, s.ch.avail) : t = Settle(u, "WRITE")
    BY <1>2 DEF DoWrite
  <2> QED
    BY <2>1, PsipWriteTook
<1> QED
  BY <1>1, <1>2

-----------------------------------------------------------------------------
(* sr_drain() of a record is fetching all of its payload. *)
LEMMA DrainStill ==
  ASSUME NEW s, Fit(s)
  PROVE  LET d == sr_drain(s)
         IN  /\ Fit(d) /\ Still(s, d) /\ d.lay = s.lay
             /\ d.ch.avail = 0 /\ d.ch.replied = s.ch.replied
<1> DEFINE n == s.ch.avail
           g == sr_get_userdata(s, n)
<1>1. n \in 0 .. s.ch.avail /\ n - n = 0 /\ s.ch.avail - n = 0
  BY DEF Fit, Worlds, Chans
<1>2. sr_drain(s) = g
  <2>1. s \in Worlds /\ s.ch \in Chans
    BY DEF Fit, Worlds
  <2> QED
    BY <1>1, <2>1 DEF sr_drain, sr_get_userdata, Worlds, Chans
<1> HIDE DEF n
<1>3. /\ Fit(g) /\ Still(s, g) /\ g.lay = s.lay
      /\ g.ch.avail = s.ch.avail - n /\ g.ch.replied = s.ch.replied
  BY <1>1, FetchIs
<1> QED
  BY <1>1, <1>2, <1>3

LEMMA EndedStill ==
  ASSUME NEW s \in Worlds, NEW u, NEW t, NEW rop, Ended(s, u, rop), Still(u, t),
         t.ch.avail = 0, t.ch.replied = u.ch.replied
  PROVE  Ended(s, t, rop)
<1> DEFINE x == IF rop \in Suspendable /\ s.ch.pend[rop] THEN "none" ELSE rop
<1>1. Moved(s, u, x) /\ Moved(u, t, "none")
  BY DEF Ended, Still
<1> HIDE DEF x
<1>2. Moved(s, t, x)
  BY <1>1, MovedBefore
<1>3. /\ \A op \in Suspendable : u.ch.pend[op] <=> s.ch.pend[op] /\ op # rop
      /\ u.ch.replied
  BY DEF Ended
<1>4. SamePend(u, t)
  BY DEF Still
<1> QED
  BY <1>2, <1>3, <1>4 DEF Ended, x, SamePend

(* NWR_IOCTL *)
LEMMA DoIoctlTook ==
  ASSUME NEW s, Fit(s), PendLay(s), ~s.ch.pend["IOCTL"], Proper(s.lay),
         NEW r, r.dlen = s.ch.avail, r.what \in IoctlKinds, NEW t \in DoIoctl(s, r)
  PROVE  Took(s, t, "IOCTL")
<1>1. s \in Worlds /\ s.lay \in Layers /\ s.ch.avail \in Nat
  BY DEF Fit, Worlds, Chans
<1>2. "IOCTL" \in Suspendable
  BY DEF Suspendable
<1>3. PICK u \in tcp_ioctl(s, r.what, s.ch.avail) : t = Settle(sr_drain(u), "IOCTL")
  BY DEF DoIoctl
<1> DEFINE d == sr_drain(u)
<1>4. ASSUME Ended(s, u, "IOCTL"), u.lay = s.lay PROVE Took(s, t, "IOCTL")
  <2>1. Fit(u)
    BY <1>4 DEF Ended, Moved
  <2>2. /\ Fit(d) /\ Still(u, d) /\ d.lay = u.lay
        /\ d.ch.avail = 0 /\ d.ch.replied = u.ch.replied
    BY <2>1, DrainStill
  <2> HIDE DEF d
  <2>3. Ended(s, d, "IOCTL")
    BY <1>1, <1>4, <2>2, EndedStill
  <2>5. Fades(s.lay, d.lay)
    BY <1>4, <2>2 DEF Fades
  <2>4. Took(s, Settle(d, "IOCTL"), "IOCTL")
    BY <1>2, <1>4, <2>2, <2>3, <2>5, TookEnded
  <2> QED
    BY <1>3, <2>4 DEF d
<1>5. CASE u = get_reply(s, -1, TRUE)
  BY <1>4, <1>5, FailEnded
<1>6. CASE r.what = "set" /\ u = get_reply(sr_get_userdata(s, s.ch.avail), 0, TRUE)
  <2> DEFINE g == sr_get_userdata(s, s.ch.avail)
             z == 0
  <2>1. s.ch.avail \in 0 .. s.ch.avail /\ z \in Int
    BY <1>1
  <2>2. Fit(g) /\ Still(s, g) /\ g.lay = s.lay
    BY <2>1, FetchIs
  <2>3. u = get_reply(g, z, TRUE)
    BY <1>6
  <2> HIDE DEF g, z
  <2>4. Ended(g, u, "IOCTL") /\ u.lay = g.lay
    BY <2>1, <2>2, <2>3, RepliesEnded
  <2>5. Ended(s, u, "IOCTL")
    BY <1>1, <2>2, <2>4, StillEnded
  <2> QED
    BY <1>4, <2>2, <2>4, <2>5
<1>7. CASE r.what = "get" /\ u = put_reply(sr_put_userdata(s, <<"conf">>, TRUE), 0, TRUE)
  BY <1>4, <1>7, ConfEnded
<1>8. CASE s.lay.conn = "no" /\ u = [s EXCEPT !.lay.io = TRUE]
  <2> DEFINE m == [s.lay EXCEPT !.io = TRUE]
             v == [s EXCEPT !.lay = m]
  <2>1. u = v
    BY <1>1, <1>8 DEF Worlds, Layers
  <2>2. /\ m \in Layers /\ m.io /\ m.rd = s.lay.rd /\ m.wr = s.lay.wr
        /\ Fades(s.lay, m)
    BY <1>1, <1>8 DEF Layers, Fades, Proper
  <2> HIDE DEF m
  <2>3. Relaid(s, u) /\ u.lay = m
    BY <1>1, <2>1, <2>2, Relay
  <2>4. Fit(u) /\ Still(s, u)
    BY <2>3, StillRelaid
  <2>5. /\ Fit(d) /\ Still(u, d) /\ d.lay = u.lay /\ d.ch.avail = 0
    BY <2>4, DrainStill
  <2> HIDE DEF d
  <2>6. Still(s, d)
    BY <1>1, <2>4, <2>5, StillTwice
  <2>7. InProgress(d.lay, "IOCTL") /\ ~d.ch.pend["IOCTL"]
    BY <1>2, <2>2, <2>3, <2>5, <2>6, InProgressIs DEF Still, SamePend
  <2> DEFINE w == Settle(d, "IOCTL")
  <2>8. /\ Moved(d, w, "IOCTL") /\ w.lay = d.lay /\ w.ch.avail = d.ch.avail
        /\ \A o \in Suspendable : w.ch.pend[o] <=> d.ch.pend[o] \/ o = "IOCTL"
    BY <1>2, <2>5, <2>7, SettleWaits
  <2>9. t = w
    BY <1>3 DEF d
  <2> HIDE DEF w
  <2>10. Moved(s, w, "IOCTL")
    BY <1>1, <2>6, <2>8, MovedAfter DEF Still
  <2>11. /\ w.lay.rd = s.lay.rd /\ w.lay.wr = s.lay.wr /\ w.lay.io /\ w.ch.avail = 0
    BY <2>2, <2>3, <2>5, <2>8
  <2>12. PendLay(w) /\ AvailLay(w) /\ Fades(s.lay, w.lay)
    BY <2>2, <2>3, <2>5, <2>6, <2>8, <2>11
    DEF PendLay, AvailLay, Still, SamePend, Suspendable
  <2> QED
    BY <2>9, <2>10, <2>12 DEF Took
<1>9. \/ u = get_reply(s, -1, TRUE)
      \/ r.what = "set" /\ u = get_reply(sr_get_userdata(s, s.ch.avail), 0, TRUE)
      \/ r.what = "get" /\ u = put_reply(sr_put_userdata(s, <<"conf">>, TRUE), 0, TRUE)
      \/ s.lay.conn = "no" /\ u = [s EXCEPT !.lay.io = TRUE]
  <2>1. CASE r.what = "set"
    BY <1>3, <2>1, Zenon DEF tcp_ioctl
  <2>2. CASE r.what = "get"
    BY <1>3, <2>2, Zenon DEF tcp_ioctl
  <2>3. CASE r.what = "listen"
    BY <1>3, <2>3 DEF tcp_ioctl
  <2> QED
    BY <2>1, <2>2, <2>3 DEF IoctlKinds
<1> QED
  BY <1>5, <1>6, <1>7, <1>8, <1>9

(* The layer's own reply to what is cancelled. *)
LEMMA CancelEnded ==
  ASSUME NEW s, Fit(s), PendLay(s), NEW which \in Suspendable
  PROVE  LET t == tcp_cancel(s, which)
         IN  Ended(s, t, which) /\ PendLay(t) /\ Fades(s.lay, t.lay)
<1>1. s \in Worlds /\ s.lay \in Layers
  BY DEF Fit, Worlds
<1>2. ASSUME NEW m \in Layers, NEW t, Ended([s EXCEPT !.lay = m], t, which), t.lay = m,
             m.rd = IF which = "READ" THEN 0 ELSE s.lay.rd,
             m.wr <=> s.lay.wr /\ which # "WRITE",
             m.io <=> s.lay.io /\ which # "IOCTL", Fades(s.lay, m)
      PROVE  Ended(s, t, which) /\ PendLay(t) /\ Fades(s.lay, t.lay)
  <2> DEFINE u == [s EXCEPT !.lay = m]
  <2>1. Relaid(s, u)
    BY <1>1, Relay
  <2>2. Ended(u, t, which)
    BY <1>2
  <2> HIDE DEF u
  <2>3. Still(s, u)
    BY <2>1, StillRelaid
  <2>4. Ended(s, t, which)
    BY <1>1, <2>2, <2>3, StillEnded
  <2>5. \A op \in Suspendable : t.ch.pend[op] <=> s.ch.pend[op] /\ op # which
    BY <2>4 DEF Ended
  <2> QED
    BY <1>2, <2>4, <2>5 DEF PendLay, Suspendable
<1>3. CASE which = "READ"
  <2> DEFINE m == [s.lay EXCEPT !.rd = 0]
             u == [s EXCEPT !.lay = m]
  <2>1. tcp_cancel(s, which) = put_reply(u, -1, FALSE)
    <3>1. u = [s EXCEPT !.lay.rd = 0]
      BY <1>1 DEF Worlds, Layers
    <3> QED
      BY <1>3, <3>1, Zenon DEF tcp_cancel
  <2>2. /\ m \in Layers /\ m.rd = 0 /\ m.wr = s.lay.wr /\ m.io = s.lay.io
        /\ Fades(s.lay, m)
    <3>1. 0 \in 0 .. ICHAN_HOLD
      BY HoldAssumption
    <3> QED
      BY <1>1, <3>1 DEF Layers, Fades
  <2> HIDE DEF m
  <2>3. Relaid(s, u) /\ u.lay = m
    BY <1>1, <2>2, Relay
  <2>4. Fit(u)
    BY <2>3, StillRelaid
  <2>5. Ended(u, put_reply(u, -1, FALSE), "READ") /\ put_reply(u, -1, FALSE).lay = u.lay
    BY <2>4, FailEnded
  <2> QED
    BY <1>2, <1>3, <2>1, <2>2, <2>3, <2>5
<1>4. CASE which = "WRITE"
  <2> DEFINE m == [s.lay EXCEPT !.wr = FALSE, !.left = 0]
             u == [s EXCEPT !.lay = m]
             z == IF s.lay.off > 0 THEN s.lay.off ELSE -1
  <2>1. tcp_cancel(s, which) = get_reply(u, z, FALSE)
    <3>1. u = [s EXCEPT !.lay.wr = FALSE, !.lay.left = 0]
      BY <1>1 DEF Worlds, Layers
    <3> QED
      BY <1>4, <3>1, Zenon DEF tcp_cancel
  <2>2. /\ m \in Layers /\ m.rd = s.lay.rd /\ ~m.wr /\ m.io = s.lay.io
        /\ Fades(s.lay, m)
    BY <1>1 DEF Layers, Fades
  <2>3. z \in Int
    BY <1>1 DEF Layers
  <2> HIDE DEF m, z
  <2>4. Relaid(s, u) /\ u.lay = m
    BY <1>1, <2>2, Relay
  <2>5. Fit(u)
    BY <2>4, StillRelaid
  <2>6. Ended(u, get_reply(u, z, FALSE), "WRITE") /\ get_reply(u, z, FALSE).lay = u.lay
    BY <2>3, <2>5, RepliesEnded
  <2> QED
    BY <1>2, <1>4, <2>1, <2>2, <2>4, <2>6
<1>5. CASE which = "IOCTL"
  <2> DEFINE m == [s.lay EXCEPT !.io = FALSE]
             u == [s EXCEPT !.lay = m]
  <2>1. tcp_cancel(s, which) = get_reply(u, -1, TRUE)
    <3>1. u = [s EXCEPT !.lay.io = FALSE]
      BY <1>1 DEF Worlds, Layers
    <3> QED
      BY <1>5, <3>1, Zenon DEF tcp_cancel
  <2>2. /\ m \in Layers /\ m.rd = s.lay.rd /\ m.wr = s.lay.wr /\ ~m.io
        /\ Fades(s.lay, m)
    BY <1>1 DEF Layers, Fades
  <2> HIDE DEF m
  <2>3. Relaid(s, u) /\ u.lay = m
    BY <1>1, <2>2, Relay
  <2>4. Fit(u)
    BY <2>3, StillRelaid
  <2>5. Ended(u, get_reply(u, -1, TRUE), "IOCTL") /\ get_reply(u, -1, TRUE).lay = u.lay
    BY <2>4, FailEnded
  <2> QED
    BY <1>2, <1>5, <2>1, <2>2, <2>3, <2>5
<1> QED
  BY <1>3, <1>4, <1>5 DEF Suspendable

(* sr_reply() to the request in hand, which is not suspended. *)
LEMMA ReplyEnded ==
  ASSUME NEW s, Fit(s), NEW status, status \in Int,
         s.ch.curop \in Suspendable => ~s.ch.pend[s.ch.curop]
  PROVE  LET t == sr_reply(s, status)
         IN  /\ Ended(s, t, s.ch.curop) /\ t.lay = s.lay /\ SamePend(s, t)
             /\ Reply(s.ch.curop, status, <<>>) \in Replies
             /\ t.rep = Append(s.rep, Reply(s.ch.curop, status, <<>>))
<1> DEFINE rop == s.ch.curop
           t == sr_reply(s, status)
           r == Reply(rop, status, <<>>)
<1>1. rop \in Ops /\ t = sr_send_reply(s, status, rop)
  BY DEF Fit, Worlds, Chans, sr_reply
<1> HIDE DEF rop
<1>2. rop \in Suspendable => ~s.ch.pend[rop]
  BY DEF rop
<1>3. t \in Worlds /\ t.lay = s.lay /\ Told(s, t, r)
  BY <1>1, <1>2, SendTold
<1>4. r \in Replies /\ r.rop = rop
  BY <1>1, NoData DEF Reply, Replies
<1> HIDE DEF t, r
<1>5. Ended(s, t, r.rop)
  BY <1>3, <1>4, ToldEnded
<1>6. SamePend(s, t) /\ t.rep = Append(s.rep, r)
  BY <1>2, <1>3, <1>4 DEF Told, SamePend
<1> QED
  BY <1>3, <1>4, <1>5, <1>6 DEF t, r, rop

(* NWR_CANCEL *)
LEMMA DoCancelTook ==
  ASSUME NEW s, Fit(s), PendLay(s), s.ch.avail = 0, s.ch.curop = "CANCEL",
         NEW r, r.what \in Suspendable, NEW t \in DoCancel(s, r)
  PROVE  /\ Took(s, t, "CANCEL") /\ ~t.ch.pend[r.what]
         /\ Len(t.rep) > 0 /\ t.rep[Len(t.rep)].rop = "CANCEL"
<1> DEFINE w == r.what
           u == IF s.ch.pend[w] THEN tcp_cancel(s, w) ELSE s
           z == -1
<1>1. s \in Worlds /\ s.lay \in Layers /\ z \in Int
  BY DEF Fit, Worlds
<1>2. t = sr_reply(u, z)
  BY DEF DoCancel
<1>3. /\ Moved(s, u, "none") /\ PendLay(u) /\ ~u.ch.pend[w]
      /\ Fit(u) /\ u.ch.curop = "CANCEL" /\ Fades(s.lay, u.lay)
  <2>1. CASE s.ch.pend[w]
    <3> DEFINE v == tcp_cancel(s, w)
    <3>1. Ended(s, v, w) /\ PendLay(v) /\ Fades(s.lay, v.lay)
      BY CancelEnded
    <3> HIDE DEF v
    <3>2. Moved(s, v, "none") /\ ~v.ch.pend[w]
      BY <2>1, <3>1 DEF Ended
    <3>3. u = v
      BY <2>1 DEF v
    <3> QED
      BY <3>1, <3>2, <3>3 DEF Moved
  <2>2. CASE ~s.ch.pend[w]
    <3>1. Relaid(s, s)
      BY <1>1 DEF Relaid
    <3>2. Moved(s, s, "none") /\ Fades(s.lay, s.lay)
      BY <3>1, StillRelaid DEF Still, Fades
    <3> QED
      BY <2>2, <3>2
  <2> QED
    BY <2>1, <2>2
<1> HIDE DEF u, z
<1>4. u.ch.curop \notin Suspendable
  BY <1>3 DEF Suspendable
<1>5. /\ Ended(u, t, "CANCEL") /\ t.lay = u.lay /\ SamePend(u, t)
      /\ Reply("CANCEL", z, <<>>) \in Replies
      /\ t.rep = Append(u.rep, Reply("CANCEL", z, <<>>))
  BY <1>1, <1>2, <1>3, <1>4, ReplyEnded
<1>6. Moved(u, t, "CANCEL") /\ t.ch.avail = 0
  BY <1>5 DEF Ended, Suspendable
<1>7. Moved(s, t, "CANCEL")
  BY <1>1, <1>3, <1>6, MovedAfter
<1>8. PendLay(t) /\ AvailLay(t) /\ ~t.ch.pend[w]
  BY <1>3, <1>5, <1>6 DEF PendLay, AvailLay, SamePend, Suspendable
<1>9. Len(t.rep) > 0 /\ t.rep[Len(t.rep)].rop = "CANCEL"
  <2>1. u.rep \in Seq(Replies)
    BY <1>3 DEF Fit, Worlds
  <2>2. /\ Len(t.rep) = Len(u.rep) + 1 /\ Len(u.rep) \in Nat
        /\ t.rep[Len(u.rep) + 1] = Reply("CANCEL", z, <<>>)
    BY <1>5, <2>1, AppendProperties, LenProperties
  <2> QED
    BY <2>2 DEF Reply
<1> QED
  BY <1>3, <1>5, <1>7, <1>8, <1>9 DEF Took

-----------------------------------------------------------------------------
(* A step of the daemon, or of the network, that changes the records from s
   to t. *)
CancelDone(s, t) ==
  /\ s.req # <<>> /\ Head(s.req).op = "CANCEL"
  /\ ~t.ch.pend[Head(s.req).what]
  /\ Len(t.rep) > 0 /\ t.rep[Len(t.rep)].rop = "CANCEL"

OpenTruth(s, t) ==
  \A k \in Len(s.rep) + 1 .. Len(t.rep) :
    t.rep[k].rop = "OPEN" /\ t.rep[k].status >= 0 => t.ch.open

Serves(s, t) ==
  /\ Passes(s, t) /\ OpenTruth(s, t)
  /\ s.ch.open => t.ch.open
  /\ \A op \in Ops : Owed(t, op) = Owed(s, op)
  /\ t.lay.strayed = s.lay.strayed
  /\ s.ch.open /\ Haunted(t.lay) =>
       Haunted(s.lay) /\ Asks(t, "READ") = Asks(s, "READ")
  /\ Tells(t, "CANCEL") = Tells(s, "CANCEL") \/ CancelDone(s, t)

(* s is u once a request of kind x has been taken off the FIFO. *)
TakenOff(u, s, x) ==
  /\ s \in Worlds /\ Passes(u, s) /\ s.rep = u.rep /\ SamePend(u, s)
  /\ \A op \in Ops : Asks(u, op) = Asks(s, op) + One(op = x)

(* How it may be answered. *)
Fairly(s, t, x) ==
  /\ Proper(t.lay) /\ t.lay.strayed = s.lay.strayed
  /\ t.ch.open => t.lay.dev \in Devices
  /\ s.ch.open /\ Haunted(t.lay) => Haunted(s.lay) /\ x # "READ"
  /\ s.ch.open => t.ch.open
  /\ t.ch.open # s.ch.open => x = "OPEN"
  /\ x = "OPEN" => \E r \in Replies :
                     t.rep = Append(s.rep, r) /\ (r.status >= 0 => t.ch.open)
  /\ x = "CANCEL" => CancelDone(s, t)
  /\ t.ch.open \/ SamePend(s, t)

LEMMA TellsLonger ==
  ASSUME NEW s \in Worlds, NEW t \in Worlds, Passes(s, t), NEW op
  PROVE  /\ Tells(s, op) <= Tells(t, op)
         /\ Tells(s, op) = Tells(t, op) =>
              \A k \in Len(s.rep) + 1 .. Len(t.rep) : t.rep[k].rop # op
<1>1. /\ s.rep \in Seq(Replies) /\ t.rep \in Seq(Replies) /\ Longer(s.rep, t.rep)
      /\ Len(s.rep) \in Nat
  BY WorldSeqs, LenProperties DEF Passes
<1>2. /\ Hits(s.rep, TellSet(op)) <= Hits(t.rep, TellSet(op))
      /\ Hits(s.rep, TellSet(op)) = Hits(t.rep, TellSet(op)) =>
           \A k \in Len(s.rep) + 1 .. Len(t.rep) : t.rep[k] \notin TellSet(op)
  BY <1>1, HitsLonger
<1>3. \A k \in Len(s.rep) + 1 .. Len(t.rep) : t.rep[k] \in Replies
  BY <1>1, ElementOfSeq, LenProperties
<1> QED
  BY <1>2, <1>3, TellsHits DEF TellSet

LEMMA OneEachKept ==
  ASSUME NEW s \in Worlds, NEW t \in Worlds, OneEach(s), Passes(s, t),
         \A op \in Ops : Owed(t, op) = Owed(s, op),
         s.ch.open => t.ch.open,
         t.ch.open # s.ch.open => Asks(t, "OPEN") = 0,
         t.ch.open \/ SamePend(s, t), t.lay.strayed = s.lay.strayed
  PROVE  OneEach(t)
<1>1. Suspendable = {"READ", "WRITE", "IOCTL"} /\ Suspendable \subseteq Ops /\ "OPEN" \in Ops
  BY DEF Suspendable, Ops
<1>2. ASSUME NEW op \in Ops PROVE Busy(t, op) <= Busy(s, op) /\ Busy(t, op) \in Nat
  <2>1. Tells(s, op) <= Tells(t, op) /\ Owed(t, op) = Owed(s, op)
    BY TellsLonger
  <2>2. /\ Asks(s, op) \in Nat /\ Tells(s, op) \in Nat /\ Holds(s, op) \in {0, 1}
        /\ Asks(t, op) \in Nat /\ Tells(t, op) \in Nat /\ Holds(t, op) \in {0, 1}
    BY Counts
  <2> QED
    BY <2>1, <2>2 DEF Owed, Busy
<1>3. Asks(t, "OPEN") <= Asks(s, "OPEN") /\ Asks(t, "OPEN") \in Nat /\ Asks(s, "OPEN") \in Nat
  <2>1. Holds(s, "OPEN") = 0 /\ Holds(t, "OPEN") = 0
    BY <1>1 DEF Holds
  <2>2. Asks(s, "OPEN") \in Nat /\ Asks(t, "OPEN") \in Nat
    BY Counts
  <2> QED
    BY <1>1, <1>2, <2>1, <2>2 DEF Busy
<1> DEFINE n == One(s.lay.strayed)
<1>4. /\ Busy(s, "READ") <= 1 + n /\ Busy(s, "WRITE") + Busy(s, "IOCTL") <= 1
      /\ n \in Nat /\ n = One(t.lay.strayed)
  BY DEF OneEach, One
<1> HIDE DEF n
<1>5. Busy(s, "WRITE") \in Nat /\ Busy(s, "IOCTL") \in Nat /\ Busy(s, "READ") \in Nat
  BY Counts
<1>10. Busy(t, "READ") <= 1 + n /\ Busy(t, "WRITE") + Busy(t, "IOCTL") <= 1
  BY <1>1, <1>2, <1>4, <1>5
<1>6. /\ Busy(t, "READ") <= 1 + One(t.lay.strayed)
      /\ Busy(t, "WRITE") + Busy(t, "IOCTL") <= 1
  BY <1>4, <1>10
<1>7. Asks(s, "OPEN") <= 1 /\ (Asks(s, "OPEN") = 1 => ~s.ch.open)
  BY DEF OneEach
<1>8. Asks(t, "OPEN") <= 1 /\ (Asks(t, "OPEN") = 1 => ~t.ch.open)
  BY <1>3, <1>7
<1>9. ~t.ch.open => \A op \in Suspendable : ~t.ch.pend[op]
  BY DEF OneEach, SamePend
<1> QED
  BY <1>6, <1>8, <1>9 DEF OneEach

LEMMA MovedServes ==
  ASSUME NEW u, Sound(u), NEW s, NEW t, NEW x, TakenOff(u, s, x), Took(s, t, x),
         Fairly(u, t, x)
  PROVE  Sound(t) /\ Serves(u, t)
<1>1. /\ u \in Worlds /\ s \in Worlds /\ t \in Worlds /\ Fit(t)
      /\ PendLay(t) /\ AvailLay(t) /\ OneEach(u) /\ Moved(s, t, x)
      /\ Leftover(u)
  BY DEF Sound, Fit, TakenOff, Took, Moved
<1>2. Passes(u, t)
  BY <1>1, PassesTwice DEF TakenOff, Moved
<1>3. ASSUME NEW op \in Ops
      PROVE  /\ Owed(t, op) = Owed(u, op)
             /\ Asks(u, op) = Asks(t, op) + One(op = x)
  <2>1. Asks(u, op) = Asks(s, op) + One(op = x)
    BY DEF TakenOff
  <2>2. Tells(u, op) = Tells(s, op) /\ Holds(u, op) = Holds(s, op)
    BY DEF TakenOff, SamePend, Tells, Holds
  <2>3. Asks(t, op) = Asks(s, op) /\ Owed(t, op) = Owed(s, op) + One(op = x)
    BY <1>1 DEF Moved
  <2>4. /\ Asks(u, op) \in Nat /\ Tells(u, op) \in Nat /\ Holds(u, op) \in {0, 1}
        /\ Asks(s, op) \in Nat /\ One(op = x) \in {0, 1}
    BY <1>1, Counts DEF One
  <2> QED
    BY <2>1, <2>2, <2>3, <2>4 DEF Owed
<1>4. "OPEN" \in Ops /\ "CANCEL" \in Ops /\ "OPEN" \notin Suspendable /\ "CANCEL" \notin Suspendable
  BY DEF Ops, Suspendable
<1>5. x = "OPEN" => Asks(t, "OPEN") = 0
  <2>1. Asks(u, "OPEN") <= 1 /\ Asks(t, "OPEN") \in Nat
    BY <1>1, Counts DEF OneEach
  <2>2. x = "OPEN" => Asks(u, "OPEN") = Asks(t, "OPEN") + 1
    BY <1>3, <1>4 DEF One
  <2> QED
    BY <2>1, <2>2
<1>6. /\ u.ch.open => t.ch.open
      /\ t.ch.open # u.ch.open => Asks(t, "OPEN") = 0
      /\ t.ch.open \/ SamePend(u, t)
      /\ t.lay.strayed = u.lay.strayed
  BY <1>5 DEF Fairly
<1>12. "READ" \in Ops /\ "READ" \in Suspendable
  BY DEF Ops, Suspendable
<1>13. /\ Asks(u, "READ") \in Nat /\ Tells(u, "READ") \in Nat
       /\ Holds(u, "READ") \in {0, 1}
       /\ Asks(t, "READ") \in Nat /\ Tells(t, "READ") \in Nat
       /\ Holds(t, "READ") \in {0, 1}
  BY <1>1, Counts
<1>14. ASSUME Haunted(t.lay), u.ch.open
       PROVE  Haunted(u.lay) /\ Asks(t, "READ") = Asks(u, "READ")
  <2>1. Haunted(u.lay) /\ One("READ" = x) = 0
    BY <1>14 DEF Fairly, One
  <2> QED
    BY <1>3, <1>12, <1>13, <2>1
<1>15. ASSUME Haunted(t.lay) PROVE Tells(t, "READ") = 0 /\ ~t.ch.pend["READ"]
  <2>1. Owed(t, "READ") = Owed(u, "READ")
    BY <1>3, <1>12
  <2>2. CASE u.ch.open
    <3>1. Tells(u, "READ") = 0 /\ Holds(u, "READ") = 0
      BY <1>1, <1>14, <1>15, <2>2 DEF Leftover, Holds
    <3>2. Tells(t, "READ") = 0 /\ Holds(t, "READ") = 0
      BY <1>13, <1>14, <1>15, <2>1, <2>2, <3>1 DEF Owed
    <3> QED
      BY <1>12, <3>2 DEF Holds
  <2>3. CASE ~u.ch.open
    <3>1. Owed(t, "READ") = 0
      BY <1>1, <2>1, <2>3 DEF Leftover
    <3>2. Tells(t, "READ") = 0 /\ Holds(t, "READ") = 0
      BY <1>13, <3>1 DEF Owed
    <3> QED
      BY <1>12, <3>2 DEF Holds
  <2> QED
    BY <2>2, <2>3
<1>16. Leftover(t)
  <2>1. ASSUME ~t.ch.open PROVE ~t.lay.strayed /\ Owed(t, "READ") = 0
    <3>1. ~u.lay.strayed /\ Owed(u, "READ") = 0
      BY <1>1, <1>6, <2>1 DEF Leftover
    <3> QED
      BY <1>3, <1>6, <1>12, <3>1
  <2> QED
    BY <1>15, <2>1 DEF Leftover, Fairly
<1>7. OneEach(t)
  BY <1>1, <1>2, <1>3, <1>6, OneEachKept
<1>8. Sound(t)
  BY <1>1, <1>7, <1>16, MatchedIs DEF Sound
<1>9. ASSUME NEW op \in Ops, op \notin Suspendable, op # x
      PROVE  Tells(t, op) = Tells(u, op)
  <2>1. Holds(u, op) = 0 /\ Holds(t, op) = 0 /\ One(op = x) = 0
    BY <1>9 DEF Holds, One
  <2>2. /\ Owed(t, op) = Owed(u, op) /\ Asks(u, op) = Asks(t, op) + One(op = x)
        /\ Asks(t, op) \in Nat /\ Tells(t, op) \in Nat /\ Tells(u, op) \in Nat
    BY <1>1, <1>3, Counts
  <2> QED
    BY <2>1, <2>2 DEF Owed
<1>10. OpenTruth(u, t)
  <2>1. CASE x = "OPEN"
    <3>1. PICK r \in Replies : t.rep = Append(u.rep, r) /\ (r.status >= 0 => t.ch.open)
      BY <2>1 DEF Fairly
    <3>2. u.rep \in Seq(Replies)
      BY <1>1, WorldSeqs
    <3>3. /\ Len(t.rep) = Len(u.rep) + 1 /\ Len(u.rep) \in Nat
          /\ t.rep[Len(u.rep) + 1] = r
      BY <3>1, <3>2, AppendProperties, LenProperties
    <3> QED
      BY <3>1, <3>3 DEF OpenTruth
  <2>2. CASE x # "OPEN"
    <3>1. Tells(t, "OPEN") = Tells(u, "OPEN")
      BY <1>4, <1>9, <2>2
    <3>2. \A k \in Len(u.rep) + 1 .. Len(t.rep) : t.rep[k].rop # "OPEN"
      BY <1>1, <1>2, <3>1, TellsLonger
    <3> QED
      BY <3>2 DEF OpenTruth
  <2> QED
    BY <2>1, <2>2
<1>11. Tells(t, "CANCEL") = Tells(u, "CANCEL") \/ CancelDone(u, t)
  BY <1>4, <1>9 DEF Fairly
<1> QED
  BY <1>2, <1>3, <1>6, <1>8, <1>10, <1>11, <1>14 DEF Serves

(* No request is taken for an event of the network. *)
LEMMA NoneTaken ==
  ASSUME NEW s \in Worlds
  PROVE  TakenOff(s, s, "none")
<1>1. Passes(s, s)
  BY PassesSame
<1>2. \A op \in Ops : Asks(s, op) = Asks(s, op) + One(op = "none")
  <2> SUFFICES ASSUME NEW op \in Ops PROVE Asks(s, op) = Asks(s, op) + One(op = "none")
    OBVIOUS
  <2>1. One(op = "none") = 0 /\ Asks(s, op) \in Nat
    BY Counts DEF One, Ops, Suspendable
  <2> QED
    BY <2>1
<1> QED
  BY <1>1, <1>2 DEF TakenOff, SamePend

LEMMA WentServes ==
  ASSUME NEW s, Sound(s), s.ch.open, NEW t, Took(s, t, "none")
  PROVE  Sound(t) /\ Serves(s, t)
<1>1. s \in Worlds /\ t.ch.open
  BY DEF Sound, Fit, Took, Moved
<1>2. TakenOff(s, s, "none")
  BY <1>1, NoneTaken
<1>3. Fairly(s, t, "none")
  <2>1. Proper(s.lay) /\ s.lay.dev \in Devices /\ Fades(s.lay, t.lay)
    BY DEF Sound, Leftover, Took
  <2>2. t.lay.dev = s.lay.dev
    BY <2>1 DEF Fades
  <2> QED
    BY <1>1, <2>1, <2>2, FadesIs DEF Fairly
<1> QED
  BY <1>2, <1>3, MovedServes

-----------------------------------------------------------------------------
(* What the daemon may make of the record s. *)
Kept(s, t) == Sound(t) /\ Serves(s, t)

LEMMA KeptSame ==
  ASSUME NEW s, Sound(s)
  PROVE  Kept(s, s)
<1>1. s \in Worlds /\ s.rep \in Seq(Replies)
  BY WorldSeqs DEF Sound, Fit
<1>2. Passes(s, s)
  BY <1>1, PassesSame
<1>3. OpenTruth(s, s)
  <2>1. \A k \in Len(s.rep) + 1 .. Len(s.rep) : FALSE
    BY <1>1, LenProperties
  <2> QED
    BY <2>1 DEF OpenTruth
<1> QED
  BY <1>2, <1>3 DEF Kept, Serves

(* The client has asked for a READ, if b, and not been answered. *)
Believed(s, b) == Owed(s, "READ") \in One(b) .. One(b) + One(s.lay.strayed)

(* An odd step: a READ is answered that was not asked for, or one that comes
   while another is suspended takes its place, and there is one answer more, or
   one fewer, than requests. *)
Odd(s, t) ==
  /\ Passes(s, t) /\ s.ch.open /\ t.ch.open /\ t.lay.strayed
  /\ \A op \in Ops \ {"READ"} : Owed(t, op) = Owed(s, op)
  /\ Owed(t, "READ") + One(s.lay.strayed) <= Owed(s, "READ") + One(t.lay.strayed)
  /\ \A b \in BOOLEAN : Believed(s, b) => Believed(t, b)
  /\ \A w \in Suspendable : Ordered(s, w) => Ordered(t, w)

(* All that a step of the daemon or of the network does. *)
Reaches(s, t) == Kept(s, t) \/ \E u : Sound(u) /\ Odd(s, u) /\ Kept(u, t)

LEMMA FromTheEnd ==
  ASSUME NEW a \in Nat, NEW b \in Nat, b <= a, NEW k \in 1 .. b
  PROVE  /\ a - b + k \in 1 .. a
         /\ a - b + k = a => k = b
OBVIOUS

LEMMA CancelLast ==
  ASSUME NEW s \in Worlds, NEW t \in Worlds, Passes(s, t), NEW w, Ordered(s, w),
         NEW k \in 1 .. Len(t.req), t.req[k].op = "CANCEL"
  PROVE  k = Len(t.req) /\ t.req[k].what = w
<1>1. /\ s.req \in Seq(Items) /\ t.req \in Seq(Items)
      /\ Len(s.req) \in Nat /\ Len(t.req) \in Nat /\ Later(s.req, t.req)
  BY WorldSeqs, LenProperties DEF Passes
<1> DEFINE i == Len(s.req) - Len(t.req) + k
<1>2. Len(t.req) <= Len(s.req) /\ t.req[k] = s.req[i]
  BY <1>1 DEF Later
<1>3. i \in 1 .. Len(s.req) /\ t.req[k] = s.req[i] /\ (i = Len(s.req) => k = Len(t.req))
  BY <1>1, <1>2, FromTheEnd
<1>4. i = Len(s.req) /\ s.req[i].what = w
  BY <1>3 DEF Ordered
<1>5. k = Len(t.req)
  BY <1>3, <1>4
<1> QED
  BY <1>3, <1>4, <1>5

(* Nothing happens to an NWR_CANCEL. *)
LEMMA OrderedCalm ==
  ASSUME NEW s \in Worlds, NEW t \in Worlds, Passes(s, t), NEW w, Ordered(s, w),
         Tells(t, "CANCEL") = Tells(s, "CANCEL"),
         Busy(s, w) = 0 /\ Tells(s, "CANCEL") > 0 =>
           Busy(t, w) = 0 /\ Tells(t, w) = Tells(s, w),
         w = "READ" /\ Haunted(t.lay) => Asks(t, "READ") > 0
  PROVE  Ordered(t, w)
<1>1. /\ s.rep \in Seq(Replies) /\ t.rep \in Seq(Replies)
      /\ Len(s.rep) \in Nat /\ Len(t.rep) \in Nat /\ Longer(s.rep, t.rep)
  BY WorldSeqs, LenProperties DEF Passes
<1>2. \A k \in Len(s.rep) + 1 .. Len(t.rep) : t.rep[k].rop # "CANCEL"
  BY TellsLonger
<1>3. ASSUME Tells(s, "CANCEL") > 0
      PROVE  Busy(t, w) = 0 /\ Tells(t, w) = Tells(s, w)
  BY <1>3 DEF Ordered
<1>4. ASSUME NEW j \in 1 .. Len(t.rep), NEW k \in 1 .. Len(t.rep),
             t.rep[j].rop = "CANCEL", t.rep[k].rop = w
      PROVE  k < j
  <2>1. j \in 1 .. Len(s.rep) /\ s.rep[j].rop = "CANCEL"
    <3>1. ~(j \in Len(s.rep) + 1 .. Len(t.rep))
      BY <1>2, <1>4
    <3> QED
      BY <1>1, <1>4, <3>1 DEF Longer
  <2>2. Tells(s, "CANCEL") > 0
    BY <2>1, ToldSomewhere
  <2>3. \A i \in Len(s.rep) + 1 .. Len(t.rep) : t.rep[i].rop # w
    BY <1>3, <2>2, TellsLonger
  <2>4. k \in 1 .. Len(s.rep) /\ s.rep[k].rop = w
    <3>1. ~(k \in Len(s.rep) + 1 .. Len(t.rep))
      BY <1>4, <2>3
    <3> QED
      BY <1>1, <1>4, <3>1 DEF Longer
  <2> QED
    BY <2>1, <2>4 DEF Ordered
<1>5. \A k \in 1 .. Len(t.req) :
        t.req[k].op = "CANCEL" => k = Len(t.req) /\ t.req[k].what = w
  BY CancelLast
<1>6. \A j, k \in 1 .. Len(t.rep) :
        t.rep[j].rop = "CANCEL" /\ t.rep[k].rop = w => k < j
  BY <1>4
<1> QED
  BY <1>3, <1>5, <1>6 DEF Ordered

(* A former channel's READ is answered to this one. *)
LEMMA StrayKept ==
  ASSUME NEW s, Sound(s), s.ch.open, NEW t, Strays(s, t)
  PROVE  Sound(t) /\ Odd(s, t)
<1>1. /\ Fit(s) /\ s \in Worlds /\ t \in Worlds /\ PendLay(s) /\ OneEach(s)
      /\ Leftover(s) /\ Haunted(s.lay) /\ Others(s.lay, t.lay)
      /\ t.lay.rd = 0 /\ t.lay.stale = 0 /\ t.lay.strayed /\ s.lay.rd = 0
  BY MatchedIs DEF Sound, Fit, Strays
<1>2. "READ" \in Suspendable /\ Suspendable \subseteq Ops /\ "CANCEL" \in Ops
      /\ "OPEN" \in Ops /\ Suspendable = {"READ", "WRITE", "IOCTL"}
  BY DEF Suspendable, Ops
<1>3. ~s.ch.pend["READ"] /\ ~s.lay.strayed
  BY <1>1 DEF PendLay, Leftover, Proper
<1>4. PICK r \in Replies : r.rop = "READ" /\ Told(s, t, r)
  BY DEF Strays, ReadTold
<1>5. Ended(s, t, "READ")
  BY <1>1, <1>4, ToldEnded
<1>6. /\ Moved(s, t, "READ") /\ t.ch.avail = 0
      /\ \A op \in Suspendable : t.ch.pend[op] <=> s.ch.pend[op]
  BY <1>2, <1>3, <1>5 DEF Ended
<1>7. Fit(t) /\ Passes(s, t) /\ t.ch.open
  BY <1>6 DEF Moved
<1>8. ASSUME NEW op \in Ops
      PROVE  /\ Asks(t, op) = Asks(s, op) /\ Holds(t, op) = Holds(s, op)
             /\ Busy(t, op) = Busy(s, op)
             /\ Owed(t, op) = Owed(s, op) + One(op = "READ")
             /\ Tells(t, op) = Tells(s, op) + One(op = "READ")
  <2>1. Asks(t, op) = Asks(s, op) /\ Owed(t, op) = Owed(s, op) + One(op = "READ")
    BY <1>6 DEF Moved
  <2>2. Holds(t, op) = Holds(s, op)
    BY <1>6 DEF Holds
  <2>3. /\ Asks(s, op) \in Nat /\ Tells(s, op) \in Nat /\ Holds(s, op) \in {0, 1}
        /\ Tells(t, op) \in Nat /\ One(op = "READ") \in {0, 1}
    BY <1>1, Counts DEF One
  <2> QED
    BY <2>1, <2>2, <2>3 DEF Owed, Busy
<1>9. ASSUME NEW op \in Ops, op # "READ"
      PROVE  Tells(t, op) = Tells(s, op) /\ Owed(t, op) = Owed(s, op)
  <2>1. Owed(s, op) \in Nat /\ Tells(s, op) \in Nat /\ One(op = "READ") = 0
    BY <1>1, <1>9, Counts DEF One
  <2> QED
    BY <1>8, <2>1
<1>10. /\ Owed(t, "READ") = Owed(s, "READ") + 1 /\ Owed(s, "READ") \in Nat
       /\ One(s.lay.strayed) = 0 /\ One(t.lay.strayed) = 1
  BY <1>1, <1>2, <1>3, <1>8, Counts DEF One
<1>11. OneEach(t)
  <2>1. Busy(t, "READ") <= 1 + One(t.lay.strayed)
    <3>1. Busy(s, "READ") <= 1 /\ Busy(s, "READ") \in Nat
      BY <1>1, <1>10, Counts DEF OneEach
    <3> QED
      BY <1>2, <1>8, <1>10, <3>1
  <2>2. Asks(t, "OPEN") = Asks(s, "OPEN")
    BY <1>2, <1>8
  <2>3. Busy(t, "WRITE") = Busy(s, "WRITE") /\ Busy(t, "IOCTL") = Busy(s, "IOCTL")
    BY <1>2, <1>8
  <2> QED
    BY <1>1, <1>7, <2>1, <2>2, <2>3 DEF OneEach
<1>12. PendLay(t) /\ AvailLay(t)
  BY <1>1, <1>2, <1>3, <1>6 DEF PendLay, AvailLay, Others
<1>13. Leftover(t)
  <2>1. Proper(t.lay) /\ ~Haunted(t.lay) /\ t.lay.dev = s.lay.dev
    BY <1>1 DEF Leftover, Proper, Others, Haunted
  <2> QED
    BY <1>1, <1>7, <2>1 DEF Leftover
<1>14. Sound(t)
  BY <1>7, <1>11, <1>12, <1>13, MatchedIs DEF Sound
<1>15. ASSUME NEW w \in Suspendable, Ordered(s, w) PROVE Ordered(t, w)
  <2>1. Tells(t, "CANCEL") = Tells(s, "CANCEL")
    BY <1>2, <1>9
  <2>2. ASSUME Busy(s, w) = 0, Tells(s, "CANCEL") > 0
        PROVE  Busy(t, w) = 0 /\ Tells(t, w) = Tells(s, w)
    <3>1. w # "READ"
      <4>1. ASSUME w = "READ" PROVE FALSE
        <5>1. Asks(s, "READ") > 0
          BY <1>1, <1>15, <4>1 DEF Ordered
        <5>2. Asks(s, "READ") \in Nat /\ Holds(s, "READ") \in {0, 1}
          BY <1>1, Counts
        <5> QED
          BY <2>2, <4>1, <5>1, <5>2 DEF Busy
      <4> QED
        BY <4>1
    <3> QED
      BY <1>2, <1>8, <1>9, <2>2, <3>1
  <2>3. ~Haunted(t.lay)
    BY <1>1 DEF Haunted
  <2> QED
    BY <1>1, <1>7, <1>15, <2>1, <2>2, <2>3, OrderedCalm
<1>16. ASSUME NEW b \in BOOLEAN, Believed(s, b) PROVE Believed(t, b)
  <2>1. One(b) \in {0, 1} /\ Owed(s, "READ") \in One(b) .. One(b) + One(s.lay.strayed)
    BY <1>16 DEF One, Believed
  <2>2. Owed(t, "READ") \in One(b) .. One(b) + One(t.lay.strayed)
    BY <1>10, <2>1
  <2> QED
    BY <2>2 DEF Believed
<1>17. Owed(t, "READ") + One(s.lay.strayed) <= Owed(s, "READ") + One(t.lay.strayed)
  BY <1>10
<1> QED
  BY <1>1, <1>7, <1>9, <1>14, <1>15, <1>16, <1>17 DEF Odd

(* A READ is taken off the FIFO while another is suspended. *)
LEMMA MergeKept ==
  ASSUME NEW s, Sound(s), s.ch.open, s.ch.pend["READ"], s.lay.strayed,
         NEW t, TakenOff(s, t, "READ"), Fit(t), PendLay(t), t.lay = s.lay,
         t.ch.avail = 0, t.ch.open
  PROVE  Sound(t) /\ Odd(s, t)
<1>1. /\ s \in Worlds /\ t \in Worlds /\ OneEach(s) /\ Leftover(s)
      /\ Passes(s, t) /\ t.rep = s.rep /\ SamePend(s, t) /\ ~Haunted(t.lay)
  BY DEF Sound, Fit, TakenOff, Leftover, Proper
<1>2. "READ" \in Suspendable /\ Suspendable \subseteq Ops /\ "CANCEL" \in Ops
      /\ "OPEN" \in Ops /\ Suspendable = {"READ", "WRITE", "IOCTL"}
  BY DEF Suspendable, Ops
<1>3. ASSUME NEW op \in Ops
      PROVE  /\ Asks(s, op) = Asks(t, op) + One(op = "READ")
             /\ Holds(t, op) = Holds(s, op) /\ Tells(t, op) = Tells(s, op)
             /\ Busy(s, op) = Busy(t, op) + One(op = "READ")
             /\ Owed(s, op) = Owed(t, op) + One(op = "READ")
  <2>1. Asks(s, op) = Asks(t, op) + One(op = "READ")
    BY DEF TakenOff
  <2>2. Holds(t, op) = Holds(s, op) /\ Tells(t, op) = Tells(s, op)
    BY <1>1 DEF Holds, SamePend, Tells
  <2>3. /\ Asks(t, op) \in Nat /\ Tells(t, op) \in Nat /\ Holds(t, op) \in {0, 1}
        /\ One(op = "READ") \in {0, 1}
    BY <1>1, Counts DEF One
  <2> QED
    BY <2>1, <2>2, <2>3 DEF Owed, Busy
<1>4. ASSUME NEW op \in Ops, op # "READ"
      PROVE  Asks(t, op) = Asks(s, op) /\ Busy(t, op) = Busy(s, op)
             /\ Owed(t, op) = Owed(s, op)
  <2>1. /\ Asks(t, op) \in Nat /\ Busy(t, op) \in Nat /\ Owed(t, op) \in Nat
        /\ One(op = "READ") = 0
    BY <1>1, <1>4, Counts DEF One
  <2> QED
    BY <1>3, <2>1
<1>5. /\ Busy(s, "READ") = Busy(t, "READ") + 1 /\ Owed(s, "READ") = Owed(t, "READ") + 1
      /\ Busy(t, "READ") \in Nat /\ Owed(t, "READ") \in Nat
  BY <1>1, <1>2, <1>3, Counts DEF One
<1> DEFINE m == One(s.lay.strayed)
           n == One(t.lay.strayed)
<1>13. m = 1 /\ n = 1
  BY DEF One
<1> HIDE DEF m, n
<1>6. Owed(t, "READ") >= 1
  <2>1. Holds(t, "READ") = 1
    BY <1>1, <1>2 DEF Holds, SamePend
  <2>2. Asks(t, "READ") \in Nat /\ Tells(t, "READ") \in Nat
    BY <1>1, Counts
  <2> QED
    BY <2>1, <2>2 DEF Owed
<1>7. OneEach(t)
  <2>3. Busy(s, "READ") <= 1 + m
    BY <1>1 DEF OneEach, m
  <2>4. Busy(t, "READ") <= 1 + n
    BY <1>5, <1>13, <2>3
  <2>1. Busy(t, "READ") <= 1 + One(t.lay.strayed)
    BY <2>4 DEF n
  <2>2. /\ Asks(t, "OPEN") = Asks(s, "OPEN") /\ Busy(t, "WRITE") = Busy(s, "WRITE")
        /\ Busy(t, "IOCTL") = Busy(s, "IOCTL")
    BY <1>2, <1>4
  <2> QED
    BY <1>1, <2>1, <2>2 DEF OneEach
<1>8. AvailLay(t) /\ Leftover(t)
  BY <1>1 DEF AvailLay, Leftover
<1>9. Sound(t)
  BY <1>7, <1>8, MatchedIs DEF Sound
<1>10. ASSUME NEW w \in Suspendable, Ordered(s, w) PROVE Ordered(t, w)
  <2>1. Tells(t, "CANCEL") = Tells(s, "CANCEL") /\ Tells(t, w) = Tells(s, w)
    BY <1>2, <1>3
  <2>2. Busy(s, w) = 0 => Busy(t, w) = 0
    BY <1>2, <1>4, <1>5
  <2> QED
    BY <1>1, <1>10, <2>1, <2>2, OrderedCalm
<1>11. ASSUME NEW b \in BOOLEAN, Believed(s, b) PROVE Believed(t, b)
  <2>1. One(b) \in {0, 1} /\ Owed(s, "READ") \in One(b) .. One(b) + m
    BY <1>11 DEF One, Believed, m
  <2>2. Owed(t, "READ") \in One(b) .. One(b) + n
    BY <1>5, <1>6, <1>13, <2>1
  <2> QED
    BY <2>2 DEF Believed, n
<1>12. Owed(t, "READ") + m <= Owed(s, "READ") + n
  BY <1>5, <1>13
<1> QED
  BY <1>1, <1>4, <1>9, <1>10, <1>11, <1>12 DEF Odd, m, n

-----------------------------------------------------------------------------
(* sr_chan_req() *)
LEMMA ServedIs ==
  Served.req = req /\ Served.rep = rep /\ Served.ch = ch /\ Served.lay = lay
BY DEF Served

(* The daemon has taken the request r, and s is how. *)
InHand(s, r) ==
  /\ r \in Items /\ r.op \in Ops /\ req # <<>> /\ r = Head(req)
  /\ Fit(s) /\ TakenOff(Served, s, r.op) /\ PendLay(s)
  /\ s.lay = lay /\ s.ch.avail = r.dlen /\ s.ch.curop = r.op
  /\ s.ch.open = ch.open /\ s.ch.inuse = ch.inuse

LEMMA TakenInHand ==
  ASSUME Sound(Served), req # <<>>, Head(req).op # "payload"
  PROVE  InHand(Taken(Head(req)), Head(req))
<1> DEFINE r == Head(req)
           c == [ch EXCEPT !.curop = r.op, !.avail = r.dlen,
                           !.dataok = FALSE, !.replied = FALSE]
           s == [Served EXCEPT !.req = Tail(req), !.ch = c]
<1>1. /\ req \in Seq(Items) /\ rep \in Seq(Replies) /\ ch \in Chans /\ lay \in Layers
      /\ Framed(req) /\ Served \in Worlds /\ PendLay(Served)
  BY ServedIs, MatchedIs, WorldSeqs DEF Sound, Fit
<1>2. /\ r \in Items /\ r = req[1] /\ Tail(req) \in Seq(Items)
      /\ Len(req) \in Nat /\ Len(req) > 0
  BY <1>1, HeadTailProperties, EmptySeq
<1>3. r.op \in Ops /\ r.dlen \in Nat /\ r.op # "payload"
  BY <1>2 DEF Items
<1>4. Taken(r) = s
  BY <1>1, ServedIs DEF Taken, Worlds
<1> HIDE DEF r
<1>5. /\ c \in Chans /\ c.inuse = ch.inuse /\ c.open = ch.open /\ c.pend = ch.pend
      /\ c.curop = r.op /\ c.avail = r.dlen /\ ~c.dataok
  BY <1>1, <1>3 DEF Chans
<1> HIDE DEF c
<1>6. /\ s \in Worlds /\ s.req = Tail(req) /\ s.rep = rep /\ s.ch = c /\ s.lay = lay
  BY <1>1, <1>2, <1>5, ServedIs DEF Worlds
<1> HIDE DEF s
<1>7. Tail(req) = Rest(req, 1) /\ 1 \in 0 .. Len(req)
  <2>1. Tail(req) = SubSeq(req, 2, Len(req)) /\ 1 + 1 = 2
    BY <1>1, TailIsSubSeq
  <2> QED
    BY <1>2, <2>1 DEF Rest
<1>8. Framed(s.req) /\ Later(req, s.req)
  BY <1>1, <1>6, <1>7, FramedRest, RestIs
<1>9. Lead(s.req, r.dlen)
  <2>1. FramedAt(req, 1)
    BY <1>1, <1>2 DEF Framed
  <2>2. /\ 1 + r.dlen <= Len(req)
        /\ \A j \in 2 .. 1 + r.dlen : req[j].op = "payload"
        /\ 1 + r.dlen < Len(req) => req[1 + r.dlen + 1].op # "payload"
    BY <1>2, <1>3, <2>1 DEF FramedAt
  <2>3. /\ Len(s.req) = Len(req) - 1
        /\ \A k \in 1 .. Len(req) - 1 : s.req[k] = req[k + 1]
    BY <1>1, <1>6, <1>7, RestIs
  <2>4. ASSUME NEW k \in 1 .. r.dlen PROVE s.req[k].op = "payload"
    <3>1. k \in 1 .. Len(req) - 1 /\ k + 1 \in 2 .. 1 + r.dlen
      BY <1>2, <1>3, <2>2
    <3> QED
      BY <2>2, <2>3, <3>1
  <2>5. ASSUME r.dlen < Len(s.req) PROVE s.req[r.dlen + 1].op # "payload"
    <3>1. r.dlen + 1 \in 1 .. Len(req) - 1 /\ r.dlen + 1 + 1 = 1 + r.dlen + 1
      BY <1>2, <1>3, <2>3, <2>5
    <3>2. 1 + r.dlen < Len(req)
      BY <1>2, <1>3, <2>3, <2>5
    <3> QED
      BY <2>2, <2>3, <3>1, <3>2
  <2>6. r.dlen <= Len(s.req)
    BY <1>2, <1>3, <2>2, <2>3
  <2> QED
    BY <2>4, <2>5, <2>6 DEF Lead
<1>10. Fit(s)
  BY <1>5, <1>6, <1>8, <1>9 DEF Fit
<1>11. SamePend(Served, s)
  BY <1>5, <1>6, ServedIs DEF SamePend
<1>12. Passes(Served, s)
  BY <1>1, <1>5, <1>6, <1>8, ServedIs, LongerAppend, LenProperties DEF Passes, Longer
<1>13. ASSUME NEW op \in Ops PROVE Asks(Served, op) = Asks(s, op) + One(op = r.op)
  <2>1. Hits(req, AskSet(op)) = Hits(Tail(req), AskSet(op))
          + (IF r \in AskSet(op) THEN 1 ELSE 0)
    BY <1>1, HitsTail DEF r
  <2>2. r \in AskSet(op) <=> op = r.op
    BY <1>2 DEF AskSet
  <2> QED
    BY <1>1, <1>6, <2>1, <2>2, AsksHits, ServedIs DEF One
<1>14. TakenOff(Served, s, r.op)
  BY <1>6, <1>11, <1>12, <1>13, ServedIs DEF TakenOff
<1>15. PendLay(s)
  BY <1>1, <1>5, <1>6, ServedIs DEF PendLay
<1> QED
  BY <1>2, <1>3, <1>4, <1>5, <1>6, <1>10, <1>14, <1>15 DEF InHand, r

LEMMA ItemIs ==
  ASSUME NEW r \in Items
  PROVE  /\ r.op \notin {"WRITE", "IOCTL"} => r.dlen = 0
         /\ r.op = "OPEN" => r.what \in Devices
         /\ r.op = "READ" => r.count \in 1 .. ICHAN_HOLD
         /\ r.op = "WRITE" => r.count = r.dlen
         /\ r.op = "IOCTL" => r.what \in IoctlKinds
         /\ r.op = "CANCEL" => r.what \in Suspendable
BY DEF Items, Meant

(* What is in hand is not suspended. *)
LEMMA HandFree ==
  ASSUME Sound(Served), NEW s, NEW r, InHand(s, r), lay.strayed \in BOOLEAN
  PROVE  /\ r.op = "READ" /\ s.ch.pend["READ"] => lay.strayed
         /\ r.op = "WRITE" => ~s.ch.pend["WRITE"]
         /\ r.op = "IOCTL" => ~s.ch.pend["IOCTL"]
         /\ ~s.ch.open \/ r.op = "OPEN" => \A op \in Suspendable : ~s.ch.pend[op]
<1>1. /\ OneEach(Served) /\ SamePend(Served, s) /\ Served \in Worlds /\ s \in Worlds
      /\ r.op \in Ops /\ Asks(Served, r.op) = Asks(s, r.op) + One(r.op = r.op)
      /\ s.ch.open = Served.ch.open
  BY ServedIs DEF Sound, Fit, InHand, TakenOff
<1>2. Asks(Served, r.op) >= 1
  <2>1. Asks(s, r.op) \in Nat /\ One(r.op = r.op) = 1
    BY <1>1, Counts DEF One
  <2> QED
    BY <1>1, <2>1
<1>3. \A op : Asks(Served, op) \in Nat /\ Holds(Served, op) \in {0, 1}
  BY <1>1, Counts
<1>4. \A op \in Suspendable : Holds(Served, op) = 0 <=> ~s.ch.pend[op]
  BY <1>1 DEF Holds, SamePend
<1>5. "READ" \in Suspendable /\ "WRITE" \in Suspendable /\ "IOCTL" \in Suspendable
  BY DEF Suspendable
<1>6. /\ ~lay.strayed => Busy(Served, "READ") <= 1
      /\ Busy(Served, "WRITE") + Busy(Served, "IOCTL") <= 1
      /\ Asks(Served, "OPEN") <= 1
      /\ Asks(Served, "OPEN") = 1 => ~Served.ch.open
      /\ ~Served.ch.open => \A op \in Suspendable : ~Served.ch.pend[op]
  BY <1>1, ServedIs DEF OneEach, One
<1>7. r.op = "READ" /\ ~lay.strayed => Holds(Served, "READ") = 0
  BY <1>2, <1>3, <1>6 DEF Busy
<1>8. r.op = "WRITE" => Holds(Served, "WRITE") = 0
  BY <1>2, <1>3, <1>6 DEF Busy
<1>9. r.op = "IOCTL" => Holds(Served, "IOCTL") = 0
  BY <1>2, <1>3, <1>6 DEF Busy
<1>10. r.op = "OPEN" => ~Served.ch.open
  BY <1>2, <1>3, <1>6
<1> QED
  BY <1>1, <1>4, <1>5, <1>6, <1>7, <1>8, <1>9, <1>10 DEF SamePend

LEMMA LayNow ==
  ASSUME Sound(Served)
  PROVE  /\ lay \in Layers /\ lay.strayed \in BOOLEAN /\ Proper(lay)
         /\ ch.open => lay.dev \in Devices
         /\ ~ch.open => ~lay.strayed
<1>1. lay \in Layers
  BY ServedIs, WorldSeqs DEF Sound, Fit
<1>2. lay.strayed \in BOOLEAN
  BY <1>1 DEF Layers
<1> QED
  BY <1>1, <1>2, ServedIs DEF Sound, Leftover

(* A request answered by sr_chan_req() itself, without the layer. *)
LEMMA RefusedTook ==
  ASSUME Sound(Served), NEW s, NEW r, InHand(s, r), NEW status, status \in Int,
         \A op \in Suspendable : ~s.ch.pend[op]
  PROVE  LET t == sr_reply(s, status)
         IN  /\ Took(s, t, r.op) /\ SamePend(s, t) /\ t.lay = s.lay
             /\ t.ch.open = s.ch.open
             /\ \E q \in Replies : /\ q.rop = r.op /\ q.status = status
                                   /\ t.rep = Append(rep, q)
             /\ Len(t.rep) > 0 /\ t.rep[Len(t.rep)].rop = r.op
<1> DEFINE t == sr_reply(s, status)
           q == Reply(r.op, status, <<>>)
<1>1. Fit(s) /\ PendLay(s) /\ s.ch.curop = r.op /\ s.rep = rep /\ r.op \in Ops
  BY ServedIs DEF InHand, TakenOff
<1>2. /\ Ended(s, t, r.op) /\ t.lay = s.lay /\ SamePend(s, t)
      /\ q \in Replies /\ t.rep = Append(rep, q)
  BY <1>1, ReplyEnded
<1>3. q.rop = r.op /\ q.status = status
  BY DEF Reply
<1> HIDE DEF t, q
<1>4. Moved(s, t, r.op) /\ t.ch.avail = 0
  BY <1>2 DEF Ended
<1>5. PendLay(t) /\ AvailLay(t)
  BY <1>1, <1>2, <1>4 DEF PendLay, AvailLay, SamePend, Suspendable
<1>6. Len(t.rep) > 0 /\ t.rep[Len(t.rep)].rop = r.op
  <2>1. rep \in Seq(Replies)
    BY <1>1, WorldSeqs DEF Fit
  <2>2. /\ Len(t.rep) = Len(rep) + 1 /\ Len(rep) \in Nat
        /\ t.rep[Len(rep) + 1] = q
    BY <1>2, <2>1, AppendProperties, LenProperties
  <2> QED
    BY <1>3, <2>2
<1>7. t.ch.open = s.ch.open
  BY <1>4 DEF Moved
<1>8. Fades(s.lay, t.lay)
  BY <1>2 DEF Fades
<1> QED
  BY <1>2, <1>3, <1>4, <1>5, <1>6, <1>7, <1>8 DEF Took, t

LEMMA RefusedServes ==
  ASSUME Sound(Served), NEW s, NEW r, InHand(s, r), ~s.ch.open, r.op # "OPEN"
  PROVE  Sound(sr_reply(s, -1)) /\ Serves(Served, sr_reply(s, -1))
<1> DEFINE z == -1
           t == sr_reply(s, z)
<1>1. \A op \in Suspendable : ~s.ch.pend[op]
  BY HandFree, LayNow
<1>2. z \in Int
  OBVIOUS
<1> HIDE DEF z
<1>3. /\ Took(s, t, r.op) /\ SamePend(s, t) /\ t.ch.open = s.ch.open
      /\ Len(t.rep) > 0 /\ t.rep[Len(t.rep)].rop = r.op /\ t.lay = s.lay
  BY <1>1, <1>2, RefusedTook
<1> HIDE DEF t
<1>4. /\ TakenOff(Served, s, r.op) /\ r.op \in Ops /\ req # <<>> /\ r = Head(req)
      /\ s.ch.open = ch.open /\ SamePend(Served, s) /\ r \in Items /\ s.lay = lay
  BY DEF InHand, TakenOff
<1>5. r.op = "CANCEL" => CancelDone(Served, t)
  <2> SUFFICES ASSUME r.op = "CANCEL" PROVE CancelDone(Served, t)
    OBVIOUS
  <2>1. r.what \in Suspendable
    BY <1>4, ItemIs
  <2>2. ~t.ch.pend[r.what]
    BY <1>1, <1>3, <2>1 DEF SamePend
  <2> QED
    BY <1>3, <1>4, <2>2, ServedIs DEF CancelDone
<1>6. SamePend(Served, t)
  BY <1>3, <1>4 DEF SamePend
<1>7. Fairly(Served, t, r.op)
  BY <1>3, <1>4, <1>5, <1>6, LayNow, ServedIs DEF Fairly
<1> QED
  BY <1>3, <1>4, <1>7, MovedServes DEF t, z

(* NWR_OPEN *)
LEMMA FreshLayerIs ==
  ASSUME NEW dev \in {"none"} \cup Devices
  PROVE  /\ FreshLayer(dev) \in Layers /\ FreshLayer(dev).rd = 0
         /\ ~FreshLayer(dev).wr /\ ~FreshLayer(dev).io
         /\ FreshLayer(dev).dev = dev /\ FreshLayer(dev).strayed = FALSE
         /\ dev = "psip" => FreshLayer(dev).conn = "yes"
<1>1. 0 \in 0 .. ICHAN_HOLD /\ 0 \in 0 .. MaxData /\ <<>> \in Seq(1 .. MaxData)
  BY HoldAssumption, BoundsAssumption, EmptySeq
<1>2. (IF dev = "psip" THEN "yes" ELSE "no") \in {"no", "yes", "dead"}
  OBVIOUS
<1> QED
  BY <1>1, <1>2 DEF FreshLayer, Layers

(* With whatever a former channel has left. *)
With(dev, n) == [FreshLayer(dev) EXCEPT !.stale = n]

LEMMA WithIs ==
  ASSUME NEW dev \in {"none"} \cup Devices, NEW n \in 0 .. ICHAN_HOLD
  PROVE  LET m == With(dev, n)
         IN  /\ m \in Layers /\ m.rd = 0 /\ ~m.wr /\ ~m.io /\ m.dev = dev
             /\ m.strayed = FALSE /\ m.stale = n /\ Proper(m)
<1> DEFINE f == FreshLayer(dev)
           m == With(dev, n)
<1>1. /\ f \in Layers /\ f.rd = 0 /\ ~f.wr /\ ~f.io /\ f.dev = dev
      /\ f.strayed = FALSE /\ (dev = "psip" => f.conn = "yes")
  BY FreshLayerIs
<1> HIDE DEF f
<1>2. m = [f EXCEPT !.stale = n]
  BY DEF f, With
<1> HIDE DEF m
<1>3. /\ m \in Layers /\ m.rd = f.rd /\ m.wr = f.wr /\ m.io = f.io
      /\ m.dev = f.dev /\ m.strayed = f.strayed /\ m.stale = n /\ m.conn = f.conn
  BY <1>1, <1>2 DEF Layers
<1> QED
  BY <1>1, <1>3 DEF Proper, Haunted, m

LEMMA OpenedIs ==
  ASSUME NEW l \in Layers, NEW dev \in Devices
  PROVE  LET m == Opened(l, dev)
         IN  /\ m \in Layers /\ m.rd = 0 /\ ~m.wr /\ ~m.io /\ m.dev = dev
             /\ m.strayed = FALSE /\ Proper(m)
<1> DEFINE n == l.stale
           m == Opened(l, dev)
<1>1. n \in 0 .. ICHAN_HOLD
  BY DEF Layers
<1>2. m = With(dev, n)
  BY DEF Opened, With
<1> HIDE DEF n, m
<1>3. /\ m \in Layers /\ m.rd = 0 /\ ~m.wr /\ ~m.io /\ m.dev = dev
      /\ m.strayed = FALSE /\ Proper(m)
  BY <1>1, <1>2, WithIs
<1> QED
  BY <1>3 DEF m

(* No layer, but for that. *)
Emptied(l) == l = [NoLayer EXCEPT !.stale = l.stale]

LEMMA ClosedIs ==
  ASSUME NEW l \in Layers
  PROVE  Closed(l) \in Layers /\ Emptied(Closed(l))
<1> DEFINE n == IF l.dev = "psip" /\ l.rd > 0 THEN l.rd ELSE l.stale
           m == Closed(l)
<1>1. n \in 0 .. ICHAN_HOLD
  BY DEF Layers
<1> HIDE DEF n
<1>2. m = With("none", n)
  BY DEF n, Closed, NoLayer, With
<1> HIDE DEF m
<1>3. m \in Layers /\ m.stale = n
  BY <1>1, <1>2, WithIs
<1>4. m = [NoLayer EXCEPT !.stale = m.stale]
  BY <1>2, <1>3 DEF NoLayer, With
<1> QED
  BY <1>3, <1>4 DEF Emptied, m

LEMMA EmptiedIs ==
  ASSUME NEW l \in Layers, Emptied(l)
  PROVE  /\ l.rd = 0 /\ ~l.wr /\ ~l.io /\ l.dev = "none"
         /\ l.strayed = FALSE /\ Proper(l)
<1>1. l.stale \in 0 .. ICHAN_HOLD
  BY DEF Layers
<1> DEFINE n == l.stale
<1>2. l = With("none", n)
  BY DEF Emptied, NoLayer, With
<1> HIDE DEF n
<1>3. n \in 0 .. ICHAN_HOLD
  BY <1>1 DEF n
<1> QED
  BY <1>2, <1>3, WithIs

LEMMA OpenServes ==
  ASSUME Sound(Served), NEW s, NEW r, InHand(s, r), r.op = "OPEN",
         NEW t \in DoOpen(s, r)
  PROVE  Sound(t) /\ Serves(Served, t)
<1> DEFINE l == Opened(s.lay, r.what)
           c == [s.ch EXCEPT !.open = TRUE]
           v == [s EXCEPT !.ch = c, !.lay = l]
           z == 0
<1>1. /\ Fit(s) /\ s \in Worlds /\ s.ch \in Chans /\ r.what \in Devices
      /\ TakenOff(Served, s, "OPEN") /\ PendLay(s) /\ s.ch.open = ch.open
      /\ s.ch.curop = "OPEN" /\ s.ch.avail = 0 /\ s.rep = rep
      /\ SamePend(Served, s) /\ s.lay = lay
  BY ItemIs, ServedIs DEF InHand, Fit, Worlds, TakenOff
<1>2. (\A op \in Suspendable : ~s.ch.pend[op]) /\ "OPEN" \notin Suspendable
  BY HandFree, LayNow DEF Suspendable
<1>3. ~ch.open
  <2>1. Asks(Served, "OPEN") = Asks(s, "OPEN") + One("OPEN" = "OPEN")
    BY <1>1 DEF TakenOff, Ops
  <2>2. Asks(s, "OPEN") \in Nat /\ One("OPEN" = "OPEN") = 1 /\ Asks(Served, "OPEN") \in Nat
    BY <1>1, Counts DEF One, Sound, Fit
  <2> QED
    BY <2>1, <2>2, ServedIs DEF Sound, OneEach
<1>4. CASE t = sr_reply(s, -1)
  <2> DEFINE y == -1
  <2>1. y \in Int /\ y < 0 /\ t = sr_reply(s, y)
    BY <1>4
  <2> HIDE DEF y
  <2>2. /\ Took(s, t, r.op) /\ SamePend(s, t) /\ t.ch.open = s.ch.open
        /\ \E q \in Replies : q.rop = r.op /\ q.status = y /\ t.rep = Append(rep, q)
        /\ t.lay = s.lay
    BY <1>2, <2>1, RefusedTook
  <2>3. SamePend(Served, t)
    BY <1>1, <2>2 DEF SamePend
  <2>4. Fairly(Served, t, "OPEN")
    <3>1. PICK q \in Replies : q.status = y /\ t.rep = Append(rep, q)
      BY <2>2
    <3>2. ~(q.status >= 0)
      BY <2>1, <3>1
    <3> QED
      BY <1>1, <1>3, <2>2, <2>3, <3>1, <3>2, LayNow, ServedIs DEF Fairly
  <2> QED
    BY <1>1, <2>2, <2>4, MovedServes
<1>5. CASE t = sr_reply([s EXCEPT !.ch.open = TRUE, !.lay = Opened(@, r.what)], 0)
  <2>1. v = [s EXCEPT !.ch.open = TRUE, !.lay = Opened(@, r.what)] /\ z \in Int
    BY <1>1 DEF Worlds
  <2>2. t = sr_reply(v, z)
    BY <1>5, <2>1
  <2>3. /\ l \in Layers /\ l.rd = 0 /\ ~l.wr /\ ~l.io /\ Proper(l)
        /\ l.strayed = FALSE /\ l.dev \in Devices
    BY <1>1, OpenedIs, LayNow
  <2>4. /\ c \in Chans /\ c.open /\ c.inuse = s.ch.inuse /\ c.pend = s.ch.pend
        /\ c.curop = "OPEN" /\ c.avail = s.ch.avail /\ c.dataok = s.ch.dataok
    BY <1>1 DEF Chans
  <2> HIDE DEF l, c, z
  <2>5. /\ v \in Worlds /\ v.ch = c /\ v.lay = l /\ v.req = s.req /\ v.rep = s.rep
    BY <1>1, <2>3, <2>4 DEF Worlds
  <2> HIDE DEF v
  <2>6. Fit(v)
    BY <1>1, <2>4, <2>5 DEF Fit
  <2>7. SamePend(s, v) /\ \A op \in Suspendable : ~v.ch.pend[op]
    BY <1>2, <2>4, <2>5 DEF SamePend
  <2>8. TakenOff(Served, v, "OPEN")
    <3>1. \A op \in Ops : Asks(v, op) = Asks(s, op)
      BY <2>5 DEF Asks
    <3>2. Passes(Served, v) /\ SamePend(Served, v) /\ v.rep = Served.rep
      BY <1>1, <2>4, <2>5, <2>7 DEF TakenOff, Passes, SamePend
    <3> QED
      BY <1>1, <2>5, <3>1, <3>2 DEF TakenOff
  <2>12. v.ch.curop = "OPEN"
    BY <2>4, <2>5
  <2>13. \A op \in Suspendable : v.ch.curop \notin {op}
    BY <1>2, <2>12
  <2>14. v.ch.curop \notin Suspendable
    BY <1>2, <2>12
  <2>15. /\ Ended(v, t, v.ch.curop) /\ t.lay = v.lay /\ SamePend(v, t)
         /\ Reply(v.ch.curop, z, <<>>) \in Replies
         /\ t.rep = Append(v.rep, Reply(v.ch.curop, z, <<>>))
    BY <2>1, <2>2, <2>6, <2>7, <2>14, ReplyEnded
  <2>9. /\ Ended(v, t, "OPEN") /\ t.lay = v.lay /\ SamePend(v, t)
        /\ Reply("OPEN", z, <<>>) \in Replies
        /\ t.rep = Append(v.rep, Reply("OPEN", z, <<>>))
    BY <2>12, <2>15
  <2>10. Moved(v, t, "OPEN") /\ t.ch.avail = 0 /\ t.ch.open
    BY <1>2, <2>4, <2>5, <2>9 DEF Ended, Moved
  <2>11. PendLay(t) /\ AvailLay(t)
    BY <2>3, <2>5, <2>7, <2>9, <2>10 DEF PendLay, AvailLay, SamePend, Suspendable
  <2>17. t.lay.strayed = lay.strayed
    BY <1>3, <2>3, <2>5, <2>9, LayNow
  <2>16. Fairly(Served, t, "OPEN")
    BY <1>1, <1>3, <2>3, <2>5, <2>9, <2>10, <2>17, ServedIs DEF Fairly
  <2>18. Fades(v.lay, t.lay)
    BY <2>9 DEF Fades
  <2> QED
    BY <2>8, <2>10, <2>11, <2>16, <2>18, MovedServes DEF Took
<1> QED
  BY <1>4, <1>5 DEF DoOpen

-----------------------------------------------------------------------------
(* Every request but NWR_CLOSE. *)
LEMMA FairAnswer ==
  ASSUME Sound(Served), NEW s, NEW r, InHand(s, r), s.ch.open, r.op # "OPEN",
         NEW t, Took(s, t, r.op),
         r.op = "CANCEL" => CancelDone(Served, t),
         r.op = "READ" => ~Haunted(t.lay)
  PROVE  Fairly(Served, t, r.op)
<1>1. t.ch.open /\ s.ch.open = Served.ch.open /\ Fades(lay, t.lay) /\ ch.open
  BY ServedIs DEF InHand, Took, Moved
<1>2. /\ Proper(t.lay) /\ t.lay.strayed = lay.strayed
      /\ Haunted(t.lay) => Haunted(lay)
  BY <1>1, LayNow, FadesIs
<1>3. t.lay.dev \in Devices
  BY <1>1, LayNow DEF Fades
<1> QED
  BY <1>1, <1>2, <1>3, ServedIs DEF Fairly

(* A READ that takes the place of one that is suspended. *)
LEMMA MergeServes ==
  ASSUME Sound(Served), NEW s, NEW r, InHand(s, r), r.op = "READ", s.ch.open,
         s.ch.pend["READ"], s.ch.avail = 0, NEW t, Took(s, t, "none")
  PROVE  Reaches(Served, t)
<1>1. /\ TakenOff(Served, s, "READ") /\ Fit(s) /\ PendLay(s) /\ s.lay = lay
      /\ ch.open
  BY DEF InHand
<1>2. lay.strayed /\ ch.pend["READ"]
  <2>1. SamePend(Served, s) /\ "READ" \in Suspendable
    BY <1>1 DEF TakenOff, Suspendable
  <2> QED
    BY <2>1, LayNow, HandFree, ServedIs DEF SamePend
<1>3. Sound(s) /\ Odd(Served, s)
  BY <1>1, <1>2, ServedIs, MergeKept
<1>4. Kept(s, t)
  BY <1>3, WentServes DEF Kept
<1> QED
  BY <1>3, <1>4 DEF Reaches

(* A WRITE whose packet comes back on a former channel's READ: first that is
   answered, and then the WRITE is. *)
LEMMA StrayServes ==
  ASSUME Sound(Served), NEW s, NEW r, InHand(s, r), r.op = "WRITE", s.ch.open,
         NEW g, Fit(g), Still(s, g), g.lay = s.lay, g.rep = s.rep,
         NEW u, Strays(g, u), NEW t, Took(u, t, "WRITE")
  PROVE  Reaches(Served, t)
<1> DEFINE c == [ch EXCEPT !.avail = 0, !.replied = TRUE]
           v == [Served EXCEPT !.rep = u.rep, !.ch = c, !.lay = u.lay]
<1>1. /\ Served \in Worlds /\ ch \in Chans /\ PendLay(Served) /\ AvailLay(Served)
      /\ req \in Seq(Items) /\ ~ch.dataok
  BY ServedIs, WorldSeqs, MatchedIs DEF Sound, Fit
<1>2. /\ TakenOff(Served, s, "WRITE") /\ s.lay = lay /\ s.ch.open = ch.open
      /\ s.rep = rep /\ SamePend(Served, s) /\ s \in Worlds /\ SamePend(s, g)
      /\ g \in Worlds /\ Passes(Served, s) /\ Passes(s, g) /\ g.ch.open = s.ch.open
  BY ServedIs DEF InHand, TakenOff, Still, Moved, Fit
<1>3. "READ" \in Suspendable /\ "WRITE" \in Suspendable /\ Suspendable \subseteq Ops
  BY DEF Suspendable, Ops
<1>4. /\ Haunted(lay) /\ lay.rd = 0 /\ u \in Worlds /\ u.rep \in Seq(Replies)
      /\ u.lay \in Layers /\ Others(lay, u.lay) /\ u.lay.rd = 0 /\ u.lay.stale = 0
      /\ u.lay.strayed
  BY <1>2, WorldSeqs DEF Strays
<1>5. PICK q \in Replies : q.rop = "READ" /\ Told(g, u, q)
  BY DEF Strays, ReadTold
<1>6. Ended(g, u, "READ")
  BY <1>4, <1>5, ToldEnded
<1>7. /\ \A op \in Ops : Asks(u, op) = Asks(g, op)
      /\ \A op \in Suspendable : u.ch.pend[op] <=> g.ch.pend[op] /\ op # "READ"
      /\ Passes(g, u) /\ u.ch.open = g.ch.open
  BY <1>6 DEF Ended, Moved
<1>8. ~ch.pend["READ"]
  BY <1>1, <1>4, ServedIs DEF PendLay
<1>9. ch.avail = 0
  <2>1. ~s.ch.pend["WRITE"]
    BY LayNow, HandFree
  <2>2. ~lay.wr
    BY <1>1, <1>2, <1>3, <2>1, ServedIs DEF PendLay, SamePend
  <2> QED
    BY <1>1, <2>2, ServedIs DEF AvailLay, Chans
<1>10. Rest(req, ch.avail) = req
  <2>1. Rest(req, ch.avail) = SubSeq(req, 1, Len(req))
    BY <1>9 DEF Rest
  <2> QED
    BY <1>1, <2>1, SubSeqFull
<1>11. /\ c \in Chans /\ c.avail = 0 /\ c.replied /\ ~c.dataok /\ c.pend = ch.pend
       /\ c.inuse = ch.inuse /\ c.open = ch.open /\ c.curop = ch.curop
  BY <1>1 DEF Chans
<1> HIDE DEF c
<1>12. /\ v \in Worlds /\ v.req = req /\ v.rep = u.rep /\ v.ch = c /\ v.lay = u.lay
  BY <1>1, <1>4, <1>11, ServedIs DEF Worlds
<1> HIDE DEF v
<1>13. Told(Served, v, q)
  BY <1>2, <1>5, <1>8, <1>10, <1>11, <1>12, ServedIs DEF Told
<1>14. Strays(Served, v)
  BY <1>4, <1>5, <1>12, <1>13, ServedIs DEF Strays, ReadTold
<1>15. Sound(v) /\ Odd(Served, v)
  BY <1>2, <1>14, ServedIs, StrayKept
<1>16. TakenOff(v, u, "WRITE")
  <2>1. Passes(Served, u)
    BY <1>1, <1>2, <1>4, <1>7, PassesTwice
  <2>2. Passes(v, u)
    BY <1>4, <1>11, <1>12, <2>1, LongerAppend, LenProperties, ServedIs DEF Passes, Longer
  <2>3. SamePend(v, u)
    BY <1>2, <1>7, <1>8, <1>11, <1>12, ServedIs DEF SamePend
  <2>4. ASSUME NEW op \in Ops PROVE Asks(v, op) = Asks(u, op) + One(op = "WRITE")
    <3>1. Asks(v, op) = Asks(Served, op)
      BY <1>12, ServedIs DEF Asks
    <3>2. Asks(Served, op) = Asks(s, op) + One(op = "WRITE")
      BY <1>2 DEF TakenOff
    <3>3. Asks(u, op) = Asks(s, op)
      BY <1>7 DEF Still, Moved
    <3> QED
      BY <3>1, <3>2, <3>3
  <2> QED
    BY <1>4, <1>12, <2>2, <2>3, <2>4 DEF TakenOff
<1>17. Fairly(v, t, "WRITE")
  <2>1. Proper(v.lay) /\ v.lay.dev \in Devices
    BY <1>2, <1>11, <1>12, <1>15 DEF Sound, Leftover
  <2>2. Fades(v.lay, t.lay) /\ t.ch.open
    BY <1>2, <1>7, <1>12 DEF Took, Moved
  <2>3. t.lay.dev \in Devices
    BY <2>1, <2>2 DEF Fades
  <2> QED
    BY <1>2, <1>11, <1>12, <2>1, <2>2, <2>3, FadesIs DEF Fairly
<1>18. Kept(v, t)
  BY <1>15, <1>16, <1>17, MovedServes DEF Kept
<1> QED
  BY <1>15, <1>18 DEF Reaches

LEMMA Dispatched ==
  ASSUME Sound(Served), NEW s, NEW r, InHand(s, r), r.op # "CLOSE",
         NEW t, t \in Dispatch(s, r)
  PROVE  Reaches(Served, t)
<1>1. /\ Fit(s) /\ PendLay(s) /\ r \in Items /\ r.op \in Ops
      /\ TakenOff(Served, s, r.op) /\ s.ch.avail = r.dlen /\ s.ch.curop = r.op
      /\ s.ch.open \in BOOLEAN /\ req # <<>> /\ r = Head(req)
  BY DEF InHand, Fit, Worlds, Chans
<1>2. CASE r.op = "OPEN"
  <2>1. t \in DoOpen(s, r)
    BY <1>2 DEF Dispatch
  <2> QED
    BY <1>2, <2>1, OpenServes DEF Kept, Reaches
<1>3. CASE r.op # "OPEN" /\ ~s.ch.open
  <2>1. t = sr_reply(s, -1)
    BY <1>3 DEF Dispatch
  <2> QED
    BY <1>3, <2>1, RefusedServes DEF Kept, Reaches
<1>8. lay = s.lay /\ s.ch.open = ch.open
  BY DEF InHand
<1>4. CASE r.op = "READ" /\ s.ch.open
  <2>1. t \in DoRead(s, r)
    BY <1>4 DEF Dispatch
  <2>2. s.ch.avail = 0 /\ r.count \in 1 .. ICHAN_HOLD
    BY <1>1, <1>4, ItemIs
  <2>3. s.ch.pend["READ"] => lay.strayed
    BY <1>4, LayNow, HandFree
  <2>4. /\ Proper(s.lay) /\ s.lay.dev \in Devices
        /\ s.ch.pend["READ"] => s.lay.dev = "psip"
    BY <1>4, <1>8, <2>3, LayNow DEF Proper
  <2>5. CASE s.ch.pend["READ"]
    <3> DEFINE x == "none"
    <3>1. x = IF s.ch.pend["READ"] THEN "none" ELSE "READ"
      BY <2>5
    <3> HIDE DEF x
    <3>2. Took(s, t, x)
      BY <1>1, <2>1, <2>2, <2>4, <3>1, DoReadTook
    <3> QED
      BY <1>4, <2>2, <2>5, <3>2, MergeServes DEF x
  <2>6. CASE ~s.ch.pend["READ"]
    <3> DEFINE x == "READ"
    <3>1. x = IF s.ch.pend["READ"] THEN "none" ELSE "READ"
      BY <2>6
    <3> HIDE DEF x
    <3>2. Took(s, t, x) /\ ~Haunted(t.lay)
      BY <1>1, <2>1, <2>2, <2>4, <3>1, DoReadTook
    <3>3. Took(s, t, r.op)
      BY <1>4, <3>2 DEF x
    <3>4. Fairly(Served, t, r.op)
      BY <1>4, <3>2, <3>3, FairAnswer
    <3> QED
      BY <1>1, <3>3, <3>4, MovedServes DEF Kept, Reaches
  <2> QED
    BY <2>5, <2>6
<1>5. CASE r.op = "WRITE" /\ s.ch.open
  <2>1. t \in DoWrite(s, r)
    BY <1>5 DEF Dispatch
  <2>2. ~s.ch.pend["WRITE"] /\ r.count = s.ch.avail /\ s.lay.dev \in Devices
    BY <1>1, <1>5, <1>8, LayNow, HandFree, ItemIs
  <2>3. \/ Took(s, t, "WRITE")
        \/ \E g, u : /\ Fit(g) /\ Still(s, g) /\ g.lay = s.lay /\ g.rep = s.rep
                     /\ Strays(g, u) /\ Took(u, t, "WRITE")
    BY <1>1, <2>1, <2>2, DoWriteTook
  <2>4. CASE Took(s, t, "WRITE")
    <3>1. Fairly(Served, t, r.op)
      BY <1>5, <2>4, FairAnswer
    <3> QED
      BY <1>1, <1>5, <2>4, <3>1, MovedServes DEF Kept, Reaches
  <2>5. CASE \E g, u : /\ Fit(g) /\ Still(s, g) /\ g.lay = s.lay /\ g.rep = s.rep
                       /\ Strays(g, u) /\ Took(u, t, "WRITE")
    <3>1. PICK g, u : /\ Fit(g) /\ Still(s, g) /\ g.lay = s.lay /\ g.rep = s.rep
                      /\ Strays(g, u) /\ Took(u, t, "WRITE")
      BY <2>5
    <3> QED
      BY <1>5, <3>1, StrayServes
  <2> QED
    BY <2>3, <2>4, <2>5
<1>6. CASE r.op = "IOCTL" /\ s.ch.open
  <2>1. t \in DoIoctl(s, r)
    BY <1>6 DEF Dispatch
  <2>2. /\ ~s.ch.pend["IOCTL"] /\ r.dlen = s.ch.avail /\ r.what \in IoctlKinds
        /\ Proper(s.lay)
    BY <1>1, <1>6, <1>8, LayNow, HandFree, ItemIs
  <2>3. Took(s, t, "IOCTL")
    BY <1>1, <2>1, <2>2, DoIoctlTook
  <2>4. Fairly(Served, t, r.op)
    BY <1>6, <2>3, FairAnswer
  <2> QED
    BY <1>1, <1>6, <2>3, <2>4, MovedServes DEF Kept, Reaches
<1>7. CASE r.op = "CANCEL" /\ s.ch.open
  <2>1. t \in DoCancel(s, r)
    BY <1>7 DEF Dispatch
  <2>2. s.ch.avail = 0 /\ s.ch.curop = "CANCEL" /\ r.what \in Suspendable
    BY <1>1, <1>7, ItemIs
  <2>3. /\ Took(s, t, "CANCEL") /\ ~t.ch.pend[r.what]
        /\ Len(t.rep) > 0 /\ t.rep[Len(t.rep)].rop = "CANCEL"
    BY <1>1, <2>1, <2>2, DoCancelTook
  <2>4. CancelDone(Served, t)
    BY <1>1, <1>7, <2>3, ServedIs DEF CancelDone
  <2>5. Fairly(Served, t, r.op)
    BY <1>7, <2>3, <2>4, FairAnswer
  <2> QED
    BY <1>1, <1>7, <2>3, <2>5, MovedServes DEF Kept, Reaches
<1> QED
  BY <1>1, <1>2, <1>3, <1>4, <1>5, <1>6, <1>7 DEF Ops, Suspendable

-----------------------------------------------------------------------------
(* The events of the network. *)

LEMMA GaveKept ==
  ASSUME NEW s, Sound(s), s.ch.open, NEW t, Gave(s, t)
  PROVE  Kept(s, t)
<1>1. Fit(s) /\ PendLay(s) /\ AvailLay(s)
  BY MatchedIs DEF Sound
<1>2. Went(s, t)
  BY <1>1, GaveWent DEF PendLay
<1>3. Took(s, t, "none")
  BY <1>1, <1>2, WentMatched DEF Took, Went
<1> QED
  BY <1>3, WentServes DEF Kept

LEMMA ArriveKept ==
  ASSUME NEW s, Sound(s), s.ch.open, s.lay.seq < MaxData, NEW push \in BOOLEAN
  PROVE  Reaches(s, NewData(s, push))
<1> DEFINE t == NewData(s, push)
<1>1. Gave(s, t) \/ Strays(s, t)
  BY NewDataGave DEF Sound, Leftover
<1> HIDE DEF t
<1>2. CASE Gave(s, t)
  BY <1>2, GaveKept DEF Reaches, t
<1>3. CASE Strays(s, t)
  <2>1. Sound(t) /\ Odd(s, t)
    BY <1>3, StrayKept
  <2>2. Kept(t, t)
    BY <2>1, KeptSame
  <2> QED
    BY <2>1, <2>2 DEF Reaches, t
<1> QED
  BY <1>1, <1>2, <1>3

LEMMA FinKept ==
  ASSUME NEW s, Sound(s), s.ch.open
  PROVE  Kept(s, tcp_fd_read([s EXCEPT !.lay.fin = TRUE]))
<1> DEFINE l == [s.lay EXCEPT !.fin = TRUE]
           u == [s EXCEPT !.lay = l]
<1>1. Fit(s) /\ s \in Worlds /\ s.lay \in Layers
  BY WorldSeqs DEF Sound, Fit
<1>2. l \in Layers /\ Others(s.lay, l) /\ l.rd = s.lay.rd /\ Fades(s.lay, l)
  BY <1>1 DEF Layers, Others, Fades
<1>3. u = [s EXCEPT !.lay.fin = TRUE]
  BY <1>1 DEF Worlds
<1>4. Relaid(s, u) /\ u.lay = l
  BY <1>1, <1>2, Relay
<1> HIDE DEF l, u
<1>5. Gave(u, tcp_fd_read(u))
  BY <1>1, <1>4, RelaidFit, FdReadGave
<1>6. Gave(s, tcp_fd_read(u))
  BY <1>2, <1>4, <1>5, GaveAcross
<1> QED
  BY <1>3, <1>6, GaveKept

(* Of a record of which only the layer has changed, to one that answers it. *)
LEMMA EndedKept ==
  ASSUME NEW s, Sound(s), s.ch.open, NEW t, NEW rop \in Suspendable,
         s.ch.pend[rop], Ended(s, t, rop), PendLay(t), Fades(s.lay, t.lay)
  PROVE  Kept(s, t)
<1>1. Moved(s, t, "none") /\ t.ch.avail = 0
  BY DEF Ended
<1>2. Took(s, t, "none")
  BY <1>1 DEF Took, AvailLay
<1> QED
  BY <1>2, WentServes DEF Kept

LEMMA ConnectKept ==
  ASSUME NEW s, Sound(s), s.ch.open, s.lay.io, NEW status, status \in Int
  PROVE  Kept(s, get_reply([s EXCEPT !.lay.io = FALSE,
                   !.lay.conn = IF status = 0 THEN "yes" ELSE "no"], status, TRUE))
<1> DEFINE v == IF status = 0 THEN "yes" ELSE "no"
           l == [s.lay EXCEPT !.io = FALSE, !.conn = v]
           u == [s EXCEPT !.lay = l]
           t == get_reply(u, status, TRUE)
<1>1. Fit(s) /\ s \in Worlds /\ s.lay \in Layers /\ PendLay(s)
  BY WorldSeqs, MatchedIs DEF Sound, Fit
<1>2. u = [s EXCEPT !.lay.io = FALSE,
             !.lay.conn = IF status = 0 THEN "yes" ELSE "no"]
  BY <1>1 DEF Worlds, Layers
<1>3. v \in {"yes", "no"}
  OBVIOUS
<1> HIDE DEF v
<1>4. l \in Layers /\ l.rd = s.lay.rd /\ l.wr = s.lay.wr /\ ~l.io
  BY <1>1, <1>3 DEF Layers
<1>12. s.lay.dev # "psip"
  BY DEF Sound, Leftover, Proper
<1>13. Fades(s.lay, l)
  BY <1>1, <1>12 DEF Layers, Fades
<1>5. Relaid(s, u) /\ u.lay = l
  BY <1>1, <1>4, Relay
<1> HIDE DEF l, u
<1>6. Fit(u) /\ Still(s, u)
  BY <1>1, <1>5, StillRelaid
<1>7. Ended(u, t, "IOCTL") /\ t.lay = u.lay
  BY <1>6, RepliesEnded
<1> HIDE DEF t
<1>8. Ended(s, t, "IOCTL")
  BY <1>1, <1>6, <1>7, StillEnded
<1>9. PendLay(t)
  BY <1>1, <1>4, <1>5, <1>7, <1>8 DEF PendLay, Ended, Suspendable
<1>10. s.ch.pend["IOCTL"] /\ "IOCTL" \in Suspendable
  BY <1>1 DEF PendLay, Suspendable
<1>11. Kept(s, t)
  BY <1>5, <1>7, <1>8, <1>9, <1>10, <1>13, EndedKept
<1> QED
  BY <1>2, <1>11 DEF t, v

(* A suspended WRITE that goes on, with its payload at the head of the FIFO. *)
LEMMA WindowKept ==
  ASSUME NEW s, Sound(s), s.ch.open, s.lay.wr, s.lay.left = s.ch.avail,
         NEW w \in Nat
  PROVE  Kept(s, tcp_fd_write(s, w))
<1> DEFINE t == tcp_fd_write(s, w)
<1>1. Fit(s) /\ PendLay(s) /\ s \in Worlds
  BY MatchedIs DEF Sound, Fit
<1>2. Wrote(s, t)
  BY <1>1, FdWriteWrote
<1> HIDE DEF t
<1>3. s.ch.pend["WRITE"] /\ "WRITE" \in Suspendable
  BY <1>1 DEF PendLay, Suspendable
<1>4. CASE Still(s, t) /\ t.lay.wr /\ t.lay.left = t.ch.avail
  <2>1. PendLay(t)
    BY <1>1, <1>2, <1>4 DEF PendLay, Still, SamePend, Wrote, Suspendable
  <2>2. Took(s, t, "none")
    BY <1>2, <1>4, <2>1 DEF Took, Still, AvailLay, Wrote
  <2> QED
    BY <2>2, WentServes DEF Kept, t
<1>5. CASE Ended(s, t, "WRITE") /\ ~t.lay.wr
  <2>1. PendLay(t)
    BY <1>1, <1>2, <1>5 DEF PendLay, Ended, Wrote, Suspendable
  <2>2. Fades(s.lay, t.lay)
    BY <1>2 DEF Wrote
  <2> QED
    BY <1>3, <1>5, <2>1, <2>2, EndedKept DEF t
<1> QED
  BY <1>2, <1>4, <1>5 DEF Wrote

(* tcp_close_connection(): the READ and the WRITE in progress end. *)
Lost(s) ==
  [s EXCEPT !.lay.conn = "dead", !.lay.rd = 0, !.lay.wr = FALSE, !.lay.left = 0,
            !.lay.rcvd = <<>>, !.lay.fin = FALSE]

LostRead(s) == IF s.lay.rd > 0 THEN put_reply(Lost(s), -1, FALSE) ELSE Lost(s)

LostBoth(s, status) ==
  IF s.lay.wr THEN get_reply(LostRead(s), status, FALSE) ELSE LostRead(s)

LEMMA ResetKept ==
  ASSUME NEW s, Sound(s), s.ch.open, s.lay.dev = "tcp", NEW status, status \in Int
  PROVE  Kept(s, LostBoth(s, status))
<1> DEFINE u == Lost(s)
           t == LostRead(s)
           v == LostBoth(s, status)
           l == [s.lay EXCEPT !.conn = "dead", !.rd = 0, !.wr = FALSE,
                              !.left = 0, !.rcvd = <<>>, !.fin = FALSE]
<1> HIDE DEF u, t, v
<1>1. /\ Fit(s) /\ s \in Worlds /\ s.lay \in Layers /\ PendLay(s) /\ AvailLay(s)
      /\ s.ch \in Chans
  BY WorldSeqs, MatchedIs DEF Sound, Fit
<1>2. u = [s EXCEPT !.lay = l]
  BY <1>1 DEF Worlds, Layers, u, Lost
<1>3. l \in Layers /\ l.rd = 0 /\ ~l.wr /\ l.io = s.lay.io
  <2>1. <<>> \in Seq(1 .. MaxData) /\ 0 \in 0 .. ICHAN_HOLD
    BY EmptySeq, HoldAssumption
  <2> QED
    BY <1>1, <2>1 DEF Layers
<1>9. Fades(s.lay, l)
  BY <1>1 DEF Layers, Fades
<1> HIDE DEF l
<1>4. Relaid(s, u) /\ u.lay = l
  BY <1>1, <1>2, <1>3, Relay
<1>5. Fit(u) /\ Still(s, u)
  BY <1>1, <1>4, StillRelaid
<1>6. /\ Moved(s, t, "none") /\ t.lay = l
      /\ ~t.ch.pend["READ"]
      /\ t.ch.pend["WRITE"] <=> s.ch.pend["WRITE"]
      /\ t.ch.pend["IOCTL"] <=> s.ch.pend["IOCTL"]
      /\ t.ch.avail = s.ch.avail \/ t.ch.avail = 0
  <2>1. CASE s.lay.rd > 0
    <3>1. t = put_reply(u, -1, FALSE)
      BY <2>1 DEF t, u, LostRead
    <3>2. Ended(u, t, "READ") /\ t.lay = u.lay
      BY <1>5, <3>1, FailEnded
    <3>3. Ended(s, t, "READ")
      BY <1>1, <1>5, <3>2, StillEnded
    <3>4. s.ch.pend["READ"] /\ "READ" \in Suspendable
      BY <1>1, <2>1 DEF PendLay, Suspendable
    <3> QED
      BY <1>4, <3>2, <3>3, <3>4 DEF Ended, Suspendable
  <2>2. CASE ~(s.lay.rd > 0)
    <3>1. t = u /\ t.ch = s.ch
      BY <1>4, <2>2 DEF Relaid, t, u, LostRead
    <3> QED
      BY <1>1, <1>4, <1>5, <2>2, <3>1 DEF Still, PendLay
  <2> QED
    BY <2>1, <2>2
<1>7. CASE s.lay.wr
  <2>1. v = get_reply(t, status, FALSE)
    BY <1>7 DEF t, v, LostBoth
  <2>7. Fit(t)
    BY <1>6 DEF Moved
  <2>2. Ended(t, v, "WRITE") /\ v.lay = t.lay
    BY <2>1, <2>7, RepliesEnded
  <2>3. t.ch.pend["WRITE"] /\ "WRITE" \in Suspendable
    BY <1>1, <1>6, <1>7 DEF PendLay, Suspendable
  <2>4. Moved(t, v, "none")
    BY <2>2, <2>3 DEF Ended
  <2>5. Moved(s, v, "none")
    BY <1>1, <1>6, <2>4, MovedAfter
  <2>6. PendLay(v) /\ AvailLay(v)
    <3>1. /\ ~v.ch.pend["READ"] /\ ~v.ch.pend["WRITE"] /\ v.ch.avail = 0
          /\ v.ch.pend["IOCTL"] <=> t.ch.pend["IOCTL"]
      BY <1>6, <2>2 DEF Ended, Suspendable
    <3> QED
      BY <1>1, <1>3, <1>6, <2>2, <3>1 DEF PendLay, AvailLay
  <2> QED
    BY <1>6, <1>9, <2>2, <2>5, <2>6, WentServes DEF Took, Kept, v
<1>8. CASE ~s.lay.wr
  <2>1. v = t
    BY <1>8 DEF t, v, LostBoth
  <2>2. s.ch.avail = 0
    BY <1>1, <1>8 DEF AvailLay, Chans
  <2>3. PendLay(v) /\ AvailLay(v)
    BY <1>1, <1>3, <1>6, <1>8, <2>1, <2>2 DEF PendLay, AvailLay
  <2> QED
    BY <1>6, <1>9, <2>1, <2>3, WentServes DEF Took, Kept, v
<1> QED
  BY <1>1, <1>7, <1>8 DEF Layers

-----------------------------------------------------------------------------
(* What the daemon does keeps what its client believes. *)
LEMMA ToldOrNot ==
  ASSUME NEW s \in Worlds, NEW op, \A k \in 1 .. Len(s.rep) : s.rep[k].rop # op
  PROVE  Tells(s, op) = 0
<1>1. \A k \in 1 .. Len(s.rep) : s.rep[k] \notin TellSet(op)
  BY DEF TellSet
<1> QED
  BY <1>1, TellsHits, WorldSeqs, HitsType

LEMMA NothingTold ==
  ASSUME NEW s \in Worlds, s.rep = <<>>, NEW op
  PROVE  Tells(s, op) = 0
<1>1. Len(s.rep) = 0
  BY EmptySeq
<1>2. \A k \in 1 .. Len(s.rep) : s.rep[k].rop # op
  BY <1>1
<1> QED
  BY <1>2, ToldOrNot

LEMMA AskedOrNot ==
  ASSUME NEW s \in Worlds, NEW op, \A k \in 1 .. Len(s.req) : s.req[k].op # op
  PROVE  Asks(s, op) = 0
<1>1. \A k \in 1 .. Len(s.req) : s.req[k] \notin AskSet(op)
  BY DEF AskSet
<1> QED
  BY <1>1, AsksHits, WorldSeqs, HitsType

(* There is one reply of a kind that is owed once. *)
LEMMA ToldOnce ==
  ASSUME NEW s \in Worlds, NEW op, Tells(s, op) <= 1,
         NEW j \in 1 .. Len(s.rep), NEW k \in 1 .. Len(s.rep),
         s.rep[j].rop = op, s.rep[k].rop = op
  PROVE  j = k
<1>1. s.rep \in Seq(Replies)
  BY WorldSeqs
<1>2. s.rep[j] \in TellSet(op) /\ s.rep[k] \in TellSet(op)
  BY <1>1, ElementOfSeq DEF TellSet
<1> QED
  BY <1>1, <1>2, TellsHits, HitsOne

(* The reply to an NWR_OPEN is the first on the channel. *)
LEMMA OpenFirst ==
  ASSUME NEW s \in Worlds, Opening(s), OneEach(s), s.ch.open
  PROVE  Len(s.rep) > 0
<1>1. Owed(s, "OPEN") = 1 /\ Holds(s, "OPEN") = 0
  BY DEF Opening, Ops, Holds, Suspendable
<1>2. Asks(s, "OPEN") \in Nat /\ Tells(s, "OPEN") \in Nat /\ Len(s.rep) \in Nat
  BY Counts, WorldSeqs, LenProperties
<1>3. Tells(s, "OPEN") = 1
  BY <1>1, <1>2 DEF OneEach, Owed
<1>4. ASSUME Len(s.rep) = 0 PROVE FALSE
  <2>1. s.rep = <<>>
    BY <1>4, WorldSeqs, EmptySeq
  <2> QED
    BY <1>3, <2>1, NothingTold
<1> QED
  BY <1>2, <1>4

LEMMA FirstStays ==
  ASSUME NEW s \in Worlds, NEW t \in Worlds, Passes(s, t), Opening(s),
         Len(s.rep) > 0
  PROVE  t.rep[1].rop = "OPEN"
<1>1. Len(s.rep) \in Nat /\ 1 \in 1 .. Len(s.rep)
  BY WorldSeqs, LenProperties
<1>2. t.rep[1] = s.rep[1]
  BY <1>1 DEF Passes, Longer
<1> QED
  BY <1>2 DEF Opening

LEMMA OpeningKept ==
  ASSUME NEW s \in Worlds, NEW t \in Worlds, Serves(s, t), Opening(s), Leftover(s),
         OneEach(s)
  PROVE  Opening(t)
<1>1. \A op \in Ops \ {"READ"} : Owed(t, op) = IF op = "OPEN" THEN 1 ELSE 0
  BY DEF Opening, Serves
<1>3. Owed(t, "READ") = Owed(s, "READ") /\ t.lay.strayed = s.lay.strayed
  BY DEF Serves, Ops, Suspendable
<1>4. Owed(t, "READ") <= One(t.lay.strayed)
  BY <1>3 DEF Opening
<1>2. ASSUME NEW k \in 1 .. Len(t.rep), t.rep[k].status >= 0
      PROVE  t.ch.open
  <2>1. /\ s.rep \in Seq(Replies) /\ t.rep \in Seq(Replies) /\ Longer(s.rep, t.rep)
        /\ Len(s.rep) \in Nat /\ Len(t.rep) \in Nat
    BY WorldSeqs, LenProperties DEF Serves, Passes
  <2>2. CASE k <= Len(s.rep)
    <3>1. k \in 1 .. Len(s.rep) /\ t.rep[k] = s.rep[k]
      BY <2>1, <2>2 DEF Longer
    <3> QED
      BY <1>2, <3>1 DEF Opening, Serves
  <2>3. CASE ~(k <= Len(s.rep))
    <3>1. k \in Len(s.rep) + 1 .. Len(t.rep)
      BY <2>1, <2>3
    <3>6. t.rep[k] \in Replies
      BY <2>1, ElementOfSeq
    <3>2. t.rep[k].rop \in Ops
      BY <3>6 DEF Replies
    <3>3. Tells(t, t.rep[k].rop) > 0
      BY ToldSomewhere
    <3>4. Owed(t, t.rep[k].rop) > 0
      BY <3>3, Counts DEF Owed
    <3>5. CASE t.rep[k].rop = "READ"
      <4>1. Owed(s, "READ") # 0
        BY <1>3, <3>4, <3>5
      <4> QED
        BY <4>1 DEF Leftover, Serves
    <3>7. CASE t.rep[k].rop # "READ"
      <4>1. t.rep[k].rop = "OPEN"
        BY <1>1, <3>2, <3>4, <3>7
      <4> QED
        BY <1>2, <3>1, <4>1 DEF Serves, OpenTruth
    <3> QED
      BY <3>5, <3>7
  <2> QED
    BY <2>2, <2>3
<1>5. ASSUME Len(t.rep) > 0 PROVE t.rep[1].rop = "OPEN"
  <2>1. CASE Len(s.rep) > 0
    BY <2>1, FirstStays DEF Serves
  <2>2. CASE ~(Len(s.rep) > 0)
    <3>1. Owed(t, "READ") = 0
      BY <1>3, <2>2, OpenFirst DEF Leftover
    <3>2. /\ t.rep \in Seq(Replies) /\ Len(t.rep) \in Nat /\ 1 \in 1 .. Len(t.rep)
          /\ t.rep[1] \in Replies
      BY <1>5, WorldSeqs, LenProperties, ElementOfSeq
    <3>3. t.rep[1].rop \in Ops
      BY <3>2 DEF Replies
    <3>4. Tells(t, t.rep[1].rop) > 0
      BY <3>2, ToldSomewhere
    <3>5. Owed(t, t.rep[1].rop) > 0
      BY <3>4, Counts DEF Owed
    <3> QED
      BY <1>1, <3>1, <3>3, <3>5
  <2> QED
    BY <2>1, <2>2
<1> QED
  BY <1>1, <1>2, <1>4, <1>5 DEF Opening

LEMMA OrderedKept ==
  ASSUME NEW s \in Worlds, NEW t \in Worlds, Serves(s, t), NEW w \in Suspendable,
         Ordered(s, w), Owed(s, "CANCEL") <= 1, s.ch.open
  PROVE  Ordered(t, w)
<1>1. /\ s.req \in Seq(Items) /\ t.req \in Seq(Items)
      /\ s.rep \in Seq(Replies) /\ t.rep \in Seq(Replies)
      /\ Len(s.req) \in Nat /\ Len(t.req) \in Nat
      /\ Len(s.rep) \in Nat /\ Len(t.rep) \in Nat
      /\ Later(s.req, t.req) /\ Longer(s.rep, t.rep) /\ Passes(s, t)
  BY WorldSeqs, LenProperties DEF Serves, Passes
<1>2. w \in Ops /\ w # "CANCEL" /\ "CANCEL" \in Ops
  BY DEF Ops, Suspendable
<1>3. \A k \in 1 .. Len(t.req) :
        t.req[k].op = "CANCEL" => k = Len(t.req) /\ t.req[k].what = w
  BY <1>1, CancelLast
<1>8. w = "READ" /\ Haunted(t.lay) => Asks(t, "READ") > 0
  BY DEF Serves, Ordered
<1>4. /\ Owed(t, w) = Owed(s, w) /\ Owed(t, "CANCEL") <= 1
      /\ Tells(s, w) <= Tells(t, w)
  BY <1>1, <1>2, TellsLonger DEF Serves
<1>5. /\ Busy(s, w) \in Nat /\ Tells(s, w) \in Nat /\ Owed(s, w) = Tells(s, w) + Busy(s, w)
      /\ Busy(t, w) \in Nat /\ Tells(t, w) \in Nat /\ Owed(t, w) = Tells(t, w) + Busy(t, w)
      /\ Tells(t, "CANCEL") \in Nat /\ Owed(t, "CANCEL") >= Tells(t, "CANCEL")
  <2>1. \A op : /\ Asks(s, op) \in Nat /\ Tells(s, op) \in Nat /\ Holds(s, op) \in {0, 1}
                /\ Asks(t, op) \in Nat /\ Tells(t, op) \in Nat /\ Holds(t, op) \in {0, 1}
    BY Counts
  <2> QED
    BY <2>1 DEF Owed, Busy
<1>6. CASE Tells(t, "CANCEL") = Tells(s, "CANCEL")
  <2>1. ASSUME Busy(s, w) = 0
        PROVE  Busy(t, w) = 0 /\ Tells(t, w) = Tells(s, w)
    BY <1>4, <1>5, <2>1
  <2> QED
    BY <1>1, <1>6, <1>8, <2>1, OrderedCalm
<1>7. CASE CancelDone(s, t)
  <2>1. /\ s.req # <<>> /\ Head(s.req).op = "CANCEL" /\ ~t.ch.pend[Head(s.req).what]
        /\ Len(t.rep) > 0 /\ t.rep[Len(t.rep)].rop = "CANCEL"
    BY <1>7 DEF CancelDone
  <2>2. Len(s.req) > 0 /\ Head(s.req) = s.req[1] /\ 1 \in 1 .. Len(s.req)
    BY <1>1, <2>1, HeadTailProperties, EmptySeq
  <2>3. Len(s.req) = 1 /\ s.req[1].what = w
    BY <2>1, <2>2 DEF Ordered
  <2>4. Holds(t, w) = 0
    BY <2>1, <2>2, <2>3 DEF Holds
  <2>5. ASSUME NEW k \in 1 .. Len(t.req) PROVE t.req[k].op # w
    <3>1. Len(t.req) = 1 /\ k = 1
      BY <1>1, <2>3 DEF Later
    <3>2. t.req[k] = s.req[1]
      BY <1>1, <2>3, <3>1 DEF Later
    <3> QED
      BY <1>2, <2>1, <2>2, <3>2
  <2>6. Asks(t, w) = 0
    BY <2>5, AskedOrNot
  <2>7. Busy(t, w) = 0
    BY <2>4, <2>6 DEF Busy
  <2>8. ASSUME NEW j \in 1 .. Len(t.rep), NEW k \in 1 .. Len(t.rep),
               t.rep[j].rop = "CANCEL", t.rep[k].rop = w
        PROVE  k < j
    <3>4. Tells(t, "CANCEL") \in Nat /\ Owed(t, "CANCEL") \in Nat
      BY Counts
    <3>1. Tells(t, "CANCEL") <= 1 /\ Len(t.rep) \in 1 .. Len(t.rep)
      <4>1. Len(t.rep) \in 1 .. Len(t.rep)
        BY <1>1, <2>1
      <4>2. Tells(t, "CANCEL") <= 1
        BY <1>4, <1>5, <3>4
      <4> QED
        BY <4>1, <4>2
    <3>2. j = Len(t.rep)
      BY <2>1, <2>8, <3>1, ToldOnce
    <3>3. j # k
      BY <1>2, <2>8
    <3> QED
      BY <1>1, <3>2, <3>3
  <2> QED
    BY <1>3, <1>8, <2>7, <2>8 DEF Ordered
<1> QED
  BY <1>6, <1>7 DEF Serves

LEMMA AttendedKept ==
  ASSUME NEW s, Sound(s), NEW t, Kept(s, t), NEW c, Attended(s, c)
  PROVE  Attended(t, c)
<1>1. /\ s \in Worlds /\ t \in Worlds /\ Serves(s, t)
      /\ \A op \in Ops : Owed(t, op) = Owed(s, op)
      /\ s.ch.open => t.ch.open
  BY DEF Kept, Sound, Fit, Serves
<1>2. c.pc \in {"opening", "stuck"} => Opening(t)
  BY <1>1, OpeningKept DEF Attended, Sound
<1>3. ASSUME c.pc \in {"app", "await", "cancel"}
      PROVE  AtWork(t, c)
  <2>1. AtWork(s, c)
    BY <1>3 DEF Attended
  <2>2. /\ \A op \in {"OPEN", "CLOSE", "READ", "CANCEL", "WRITE", "IOCTL"} :
             Owed(t, op) = Owed(s, op)
        /\ t.lay.strayed = s.lay.strayed
    BY <1>1 DEF Ops, Suspendable, Serves
  <2>3. Counted(t, c)
    BY <2>1, <2>2 DEF AtWork, Counted, Reading
  <2>4. ASSUME c.pc = "cancel" PROVE Ordered(t, c.want)
    <3>1. /\ c.want \in Suspendable /\ Ordered(s, c.want)
          /\ Owed(s, "CANCEL") = One(TRUE)
      BY <2>1, <2>4 DEF AtWork, Counted
    <3>2. Owed(s, "CANCEL") <= 1 /\ s.ch.open
      BY <2>1, <3>1 DEF One, AtWork
    <3> QED
      BY <1>1, <3>1, <3>2, OrderedKept
  <2> QED
    BY <1>1, <2>1, <2>3, <2>4 DEF AtWork
<1> QED
  BY <1>2, <1>3 DEF Attended

LEMMA AttendedOdd ==
  ASSUME NEW s \in Worlds, NEW t \in Worlds, Odd(s, t), OneEach(s),
         NEW c, c.posted \in BOOLEAN, Attended(s, c)
  PROVE  Attended(t, c)
<1>1. /\ \A op \in Ops \ {"READ"} : Owed(t, op) = Owed(s, op)
      /\ t.ch.open
      /\ Believed(s, FALSE) => Believed(t, FALSE)
      /\ Believed(s, c.posted) => Believed(t, c.posted)
  BY DEF Odd
<1>2. ASSUME c.pc \in {"opening", "stuck"} PROVE Opening(t)
  <2>1. Opening(s)
    BY <1>2 DEF Attended
  <2>2. /\ Owed(s, "READ") \in Nat /\ Owed(t, "READ") \in Nat
        /\ One(s.lay.strayed) \in Nat /\ One(t.lay.strayed) \in Nat /\ One(FALSE) = 0
    BY Counts DEF One
  <2> DEFINE m == One(s.lay.strayed)
             n == One(t.lay.strayed)
             z == One(FALSE)
  <2>5. Owed(s, "READ") <= m /\ m \in Nat /\ n \in Nat /\ z = 0
    BY <2>1, <2>2 DEF Opening
  <2>6. /\ Believed(s, FALSE) <=> Owed(s, "READ") \in z .. z + m
        /\ Believed(t, FALSE) <=> Owed(t, "READ") \in z .. z + n
    BY DEF Believed
  <2> HIDE DEF m, n, z
  <2>7. Owed(s, "READ") \in z .. z + m
    BY <2>2, <2>5
  <2>8. Owed(t, "READ") \in z .. z + n
    BY <1>1, <2>6, <2>7
  <2>3. Owed(t, "READ") <= n
    BY <2>2, <2>5, <2>8
  <2>4. Owed(t, "READ") <= One(t.lay.strayed)
    BY <2>3 DEF n
  <2>9. t.rep[1].rop = "OPEN"
    BY <2>1, OpenFirst, FirstStays DEF Odd
  <2> QED
    BY <1>1, <2>1, <2>4, <2>9 DEF Opening
<1>3. ASSUME c.pc \in {"app", "await", "cancel"} PROVE AtWork(t, c)
  <2>1. AtWork(s, c)
    BY <1>3 DEF Attended
  <2>2. \A op \in {"OPEN", "CLOSE", "CANCEL", "WRITE", "IOCTL"} :
          Owed(t, op) = Owed(s, op)
    BY <1>1 DEF Ops, Suspendable
  <2>3. Reading(t, c)
    BY <1>1, <2>1 DEF AtWork, Counted, Believed, Reading
  <2>4. Counted(t, c)
    BY <2>1, <2>2, <2>3 DEF AtWork, Counted
  <2>5. c.pc = "cancel" => Ordered(t, c.want)
    BY <2>1 DEF AtWork, Odd
  <2> QED
    BY <1>1, <2>1, <2>4, <2>5 DEF AtWork
<1> QED
  BY <1>2, <1>3 DEF Attended

-----------------------------------------------------------------------------
(* The steps of the daemon and of the network. *)
(* They leave the client alone, and what it is owed, but for the one READ more
   that a former channel's comes to. *)
Evenly(s, t) ==
  /\ \A op \in Ops \ {"READ"} : Owed(t, op) = Owed(s, op)
  /\ Owed(t, "READ") + One(s.lay.strayed) <= Owed(s, "READ") + One(t.lay.strayed)

Steady ==
  /\ IInv' /\ cl' = cl /\ sigs' = sigs
  /\ cl.pc = "cancel" => Evenly(Served, Served')
  /\ lay.strayed => lay'.strayed \/ cl.pc = "idle"

LEMMA EvenlySame ==
  ASSUME NEW s \in Worlds, NEW t, \A op \in Ops : Owed(t, op) = Owed(s, op),
         t.lay.strayed = s.lay.strayed
  PROVE  Evenly(s, t)
<1>1. Owed(t, "READ") = Owed(s, "READ") /\ Owed(s, "READ") \in Nat
  BY Counts DEF Ops, Suspendable
<1>2. One(t.lay.strayed) = One(s.lay.strayed) /\ One(s.lay.strayed) \in Nat
  BY DEF One
<1> DEFINE m == One(s.lay.strayed)
           n == One(t.lay.strayed)
<1>3. n = m /\ m \in Nat
  BY <1>2
<1> HIDE DEF m, n
<1>4. Owed(t, "READ") + m <= Owed(s, "READ") + n
  BY <1>1, <1>3
<1> QED
  BY <1>4 DEF Evenly, m, n

LEMMA ReachesIs ==
  ASSUME NEW s, Sound(s), NEW t, Reaches(s, t)
  PROVE  /\ Sound(t) /\ t.ch.inuse = s.ch.inuse /\ Evenly(s, t)
         /\ \A c : c.posted \in BOOLEAN /\ Attended(s, c) => Attended(t, c)
<1>1. s \in Worlds
  BY DEF Sound, Fit
<1>2. ASSUME NEW u, Sound(u), Kept(u, t)
      PROVE  /\ Sound(t) /\ t.ch.inuse = u.ch.inuse
             /\ \A c : Attended(u, c) => Attended(t, c)
             /\ \A op \in Ops : Owed(t, op) = Owed(u, op)
             /\ t.lay.strayed = u.lay.strayed
  <2>1. \A c : Attended(u, c) => Attended(t, c)
    BY <1>2, AttendedKept
  <2> QED
    BY <1>2, <2>1 DEF Kept, Serves, Passes
<1>3. CASE Kept(s, t)
  BY <1>1, <1>2, <1>3, EvenlySame
<1>4. CASE \E u : Sound(u) /\ Odd(s, u) /\ Kept(u, t)
  <2>1. PICK u : Sound(u) /\ Odd(s, u) /\ Kept(u, t)
    BY <1>4
  <2>2. u \in Worlds /\ u.ch.inuse = s.ch.inuse
    BY <2>1 DEF Sound, Fit, Odd, Passes
  <2>3. /\ Sound(t) /\ t.ch.inuse = s.ch.inuse
        /\ \A c : Attended(u, c) => Attended(t, c)
        /\ \A op \in Ops : Owed(t, op) = Owed(u, op)
        /\ t.lay.strayed = u.lay.strayed
    BY <1>2, <2>1, <2>2
  <2>4. \A c : c.posted \in BOOLEAN /\ Attended(s, c) => Attended(t, c)
    BY <1>1, <2>1, <2>2, <2>3, AttendedOdd DEF Sound
  <2>5. Owed(t, "READ") = Owed(u, "READ")
    BY <2>3 DEF Ops, Suspendable
  <2>6. Evenly(s, t)
    BY <2>1, <2>3, <2>5 DEF Odd, Evenly
  <2> QED
    BY <2>3, <2>4, <2>6
<1> QED
  BY <1>3, <1>4 DEF Reaches

(* A channel that has been given another's answer stays one. *)
LEMMA StaysStrayed ==
  ASSUME NEW s, NEW t, Reaches(s, t), s.lay.strayed
  PROVE  t.lay.strayed
BY DEF Reaches, Kept, Serves, Odd

LEMMA BecomeIs ==
  ASSUME NEW t, t \in Worlds, Become(t)
  PROVE  Served' = t
BY DEF Worlds, Become, Served

LEMMA WorldNow ==
  ASSUME IInv, ch.inuse
  PROVE  /\ Sound(Served) /\ Served \in Worlds /\ Fit(Served)
         /\ PendLay(Served) /\ AvailLay(Served)
         /\ req \in Seq(Items) /\ rep \in Seq(Replies)
<1>1. Sound(Served) /\ Fit(Served) /\ Served \in Worlds
  BY DEF IInv, Sound, Fit
<1> QED
  BY <1>1, ServedIs, WorldSeqs, MatchedIs DEF Sound

LEMMA DaemonKeeps ==
  ASSUME IInv, ch.inuse, ~misparsed, NEW t, Reaches(Served, t), Become(t),
         UNCHANGED <<ClientSide, misparsed>>
  PROVE  Steady
<1>0. /\ Sound(t) /\ t.ch.inuse = Served.ch.inuse /\ Evenly(Served, t)
      /\ \A c : c.posted \in BOOLEAN /\ Attended(Served, c) => Attended(t, c)
  BY ReachesIs, WorldNow
<1>1. t \in Worlds /\ Sound(t) /\ t.ch.inuse = ch.inuse
  BY <1>0, ServedIs DEF Sound, Fit
<1>2. Served' = t /\ t.ch \in Chans /\ t.lay \in Layers
  BY <1>1, BecomeIs, WorldSeqs
<1>3. Attended(t, cl)
  <2>1. cl.posted \in BOOLEAN /\ Attended(Served, cl)
    BY DEF IInv, Clients
  <2> QED
    BY <1>0, <2>1
<1>4. /\ cl' = cl /\ sigs' = sigs /\ misparsed' = misparsed
      /\ ch' = t.ch /\ lay' = t.lay
  BY DEF ClientSide, Become
<1>5. ch'.inuse /\ ch' \in Chans /\ lay' \in Layers
  BY <1>1, <1>2, <1>4
<1>6. Sound(Served)' /\ Attended(Served, cl)'
  BY <1>1, <1>2, <1>3, <1>4
<1>7. ~misparsed'
  BY <1>4
<1>8. IInv'
  BY <1>4, <1>5, <1>6, <1>7 DEF IInv
<1>9. lay.strayed => lay'.strayed
  BY <1>4, StaysStrayed, ServedIs
<1> QED
  BY <1>0, <1>2, <1>4, <1>8, <1>9 DEF Steady

LEMMA RequestKeeps ==
  ASSUME IInv, sr_chan_req
  PROVE  Steady
<1>1. /\ ch.inuse /\ ~misparsed /\ req # <<>>
      /\ Head(req).op \in {"OPEN", "READ", "WRITE", "IOCTL", "CANCEL"}
      /\ UNCHANGED <<ClientSide, misparsed>>
  BY DEF sr_chan_req, Readable
<1>2. PICK t \in Dispatch(Taken(Head(req)), Head(req)) : Become(t)
  BY DEF sr_chan_req
<1>3. InHand(Taken(Head(req)), Head(req))
  BY <1>1, WorldNow, TakenInHand
<1>4. Reaches(Served, t)
  BY <1>1, <1>2, <1>3, WorldNow, Dispatched
<1> QED
  BY <1>1, <1>2, <1>4, DaemonKeeps

(* Nothing changes but that the stream is out of step. *)
LEMMA MisreadKeeps ==
  ASSUME IInv, ch.inuse, lay.wr, lay.left > 0, misparsed' = TRUE,
         UNCHANGED <<req, rep, ch, lay, ClientSide>>
  PROVE  Steady
<1>1. /\ Served' = Served /\ cl' = cl /\ sigs' = sigs /\ ch' = ch /\ lay' = lay
  BY DEF Served, ClientSide
<1>2. Sound(Served)' /\ Attended(Served, cl)'
  BY <1>1 DEF IInv
<1>3. IInv'
  BY <1>1, <1>2 DEF IInv
<1>4. Evenly(Served, Served')
  BY <1>1, WorldNow, EvenlySame
<1> QED
  BY <1>1, <1>3, <1>4 DEF Steady

LEMMA PayloadKeeps ==
  ASSUME IInv, sr_chan_req_payload
  PROVE  Steady
<1>1. ch.inuse /\ req # <<>> /\ Head(req).op = "payload"
  BY DEF sr_chan_req_payload, Readable
<1>2. /\ req \in Seq(Items) /\ Lead(req, ch.avail) /\ AvailLay(Served)
      /\ ch.avail \in Nat
  BY <1>1, WorldNow, ServedIs DEF Fit, IInv, Chans
<1>3. Len(req) > 0 /\ Len(req) \in Nat /\ req[1].op = "payload"
  BY <1>1, <1>2, HeadTailProperties, EmptySeq
<1>4. ch.avail > 0
  <2>1. ASSUME ch.avail = 0 PROVE FALSE
    BY <1>2, <1>3, <2>1 DEF Lead
  <2> QED
    BY <1>2, <2>1
<1>5. lay.wr /\ lay.left > 0
  BY <1>2, <1>4, ServedIs DEF AvailLay
<1> QED
  BY <1>1, <1>5, MisreadKeeps DEF sr_chan_req_payload

LEMMA IdleUnserved ==
  ASSUME cl \in Clients, Len(cl.hold) <= ICHAN_HOLD, cl.pc = "idle",
         misparsed = FALSE,
         ch' \in Chans, ~ch'.inuse, lay' \in Layers, Emptied(lay'), cl' = cl,
         sigs' = sigs, misparsed' = misparsed
  PROVE  Steady
<1>2. Served'.lay = lay'
  BY DEF Served
<1>3. Unserved(Served, cl)'
  BY <1>2 DEF Unserved, Emptied
<1>4. IInv'
  BY <1>3 DEF IInv
<1> QED
  BY <1>4 DEF Steady

LEMMA CloseKeeps ==
  ASSUME IInv, ChanClose
  PROVE  Steady
<1> DEFINE r == Head(req)
           s == Taken(r)
           z == 0
           y == -1
           t == sr_reply(s, z)
<1>1. /\ ch.inuse /\ ~misparsed /\ req # <<>> /\ r.op = "CLOSE"
      /\ UNCHANGED <<ClientSide, misparsed>>
  BY DEF ChanClose, Readable
<1>2. InHand(s, r)
  BY <1>1, WorldNow, TakenInHand
<1>3. /\ Fit(s) /\ s.ch.curop = "CLOSE" /\ s.ch.open = ch.open
      /\ Asks(Served, "CLOSE") = Asks(s, "CLOSE") + One("CLOSE" = "CLOSE")
  BY <1>1, <1>2 DEF InHand, TakenOff, Ops
<1>4. Owed(Served, "CLOSE") > 0
  <2>1. /\ Asks(s, "CLOSE") \in Nat /\ Tells(Served, "CLOSE") \in Nat
        /\ Holds(Served, "CLOSE") \in {0, 1} /\ One("CLOSE" = "CLOSE") = 1
    BY <1>1, <1>3, WorldNow, Counts DEF Fit, One
  <2> QED
    BY <1>3, <2>1 DEF Owed
<1>10. misparsed = FALSE
  BY <1>1 DEF IInv
<1>5. cl.pc = "idle" /\ cl \in Clients /\ Len(cl.hold) <= ICHAN_HOLD
  <2>1. cl \in Clients /\ Len(cl.hold) <= ICHAN_HOLD /\ Attended(Served, cl)
    BY <1>1 DEF IInv
  <2>2. cl.pc \notin {"opening", "stuck"}
    <3>1. Opening(Served) => Owed(Served, "CLOSE") = 0
      BY DEF Opening, Ops
    <3> QED
      BY <1>4, <2>1, <3>1 DEF Attended
  <2>3. cl.pc \notin {"app", "await", "cancel"}
    BY <1>4, <2>1 DEF Attended, AtWork, Counted
  <2> QED
    BY <2>1, <2>2, <2>3 DEF Clients
<1>6. z \in Int /\ y \in Int
  OBVIOUS
<1> HIDE DEF r, s
<1>7. Become(IF ch.open
             THEN [sr_reply(s, 0) EXCEPT !.ch.inuse = FALSE, !.lay = Closed(@)]
             ELSE sr_reply(s, -1))
  BY DEF ChanClose, r, s
<1>8. CASE ch.open
  <2>1. Become([t EXCEPT !.ch.inuse = FALSE, !.lay = Closed(@)])
    BY <1>7, <1>8
  <2> HIDE DEF z
  <2>2. Ended(s, t, s.ch.curop)
    BY <1>3, <1>6, ReplyEnded DEF Suspendable
  <2>3. t \in Worlds /\ t.ch \in Chans /\ t.lay \in Layers
    BY <2>2, WorldSeqs DEF Ended, Moved, Fit
  <2> HIDE DEF t
  <2>4. ch' = [t.ch EXCEPT !.inuse = FALSE] /\ lay' = Closed(t.lay)
    BY <2>1, <2>3 DEF Become, Worlds
  <2>6. lay' \in Layers /\ Emptied(lay')
    BY <2>3, <2>4, ClosedIs
  <2>5. ch' \in Chans /\ ~ch'.inuse
    BY <2>3, <2>4 DEF Chans
  <2> QED
    BY <1>1, <1>5, <1>10, <2>5, <2>6, IdleUnserved DEF ClientSide
<1>9. CASE ~ch.open
  <2>1. Become(sr_reply(s, -1))
    BY <1>7, <1>9
  <2>2. Reaches(Served, sr_reply(s, -1))
    BY <1>1, <1>2, <1>3, <1>9, WorldNow, RefusedServes DEF Kept, Reaches
  <2> QED
    BY <1>1, <2>1, <2>2, DaemonKeeps
<1> QED
  BY <1>8, <1>9

LEMMA EofKeeps ==
  ASSUME IInv, ChanEof
  PROVE  Steady
<1>1. /\ ch \in Chans /\ cl \in Clients /\ Len(cl.hold) <= ICHAN_HOLD
      /\ misparsed = FALSE /\ cl.pc = "idle"
  BY DEF IInv, ChanEof
<1>2. ch' = [ch EXCEPT !.inuse = FALSE] /\ lay' = Closed(lay) /\ cl' = cl
      /\ sigs' = sigs /\ misparsed' = misparsed
  BY DEF ChanEof, ClientSide
<1>3. ch' \in Chans /\ ~ch'.inuse
  BY <1>1, <1>2 DEF Chans
<1>4. lay' \in Layers /\ Emptied(lay')
  BY <1>2, ClosedIs DEF IInv
<1> QED
  BY <1>1, <1>2, <1>3, <1>4, IdleUnserved

-----------------------------------------------------------------------------
LEMMA EventKeeps ==
  ASSUME IInv, NEW t, Event(t), Reaches(Served, t)
  PROVE  Steady
BY DaemonKeeps DEF Event

LEMMA EventNow ==
  ASSUME IInv, ch.inuse, ch.open
  PROVE  Sound(Served) /\ Served.ch.open /\ Served.lay = lay /\ lay \in Layers
BY ServedIs DEF IInv

LEMMA ArriveKeeps ==
  ASSUME IInv, NEW push \in BOOLEAN, Arrive(push)
  PROVE  Steady
<1>1. ch.inuse /\ ch.open /\ lay.seq < MaxData /\ Event(NewData(Served, push))
  BY DEF Arrive, Event
<1>2. Sound(Served) /\ Served.ch.open /\ Served.lay = lay
  BY <1>1, EventNow
<1> QED
  BY <1>1, <1>2, ArriveKept, EventKeeps

LEMMA FinKeeps ==
  ASSUME IInv, Fin
  PROVE  Steady
<1>1. ch.inuse /\ ch.open /\ Event(tcp_fd_read([Served EXCEPT !.lay.fin = TRUE]))
  BY DEF Fin, Event
<1> QED
  BY <1>1, EventNow, FinKept, EventKeeps DEF Reaches

LEMMA ConnectKeeps ==
  ASSUME IInv, NEW status, status \in Int, tcp_restart_connect(status)
  PROVE  Steady
<1> DEFINE t == get_reply([Served EXCEPT !.lay.io = FALSE,
                  !.lay.conn = IF status = 0 THEN "yes" ELSE "no"], status, TRUE)
<1>1. ch.inuse /\ ch.open /\ lay.io /\ Event(t)
  BY DEF tcp_restart_connect, Event
<1>2. Reaches(Served, t)
  BY <1>1, EventNow, ConnectKept DEF Reaches
<1> HIDE DEF t
<1> QED
  BY <1>1, <1>2, EventKeeps

LEMMA ResetKeeps ==
  ASSUME IInv, Reset
  PROVE  Steady
<1> DEFINE status == IF lay.off > 0 THEN lay.off ELSE -1
<1>1. ch.inuse /\ ch.open /\ lay.dev = "tcp" /\ Event(LostBoth(Served, status))
  BY ServedIs DEF Reset, Event, LostBoth, LostRead, Lost
<1>2. status \in Int
  BY DEF IInv, Layers
<1> HIDE DEF status
<1>3. Reaches(Served, LostBoth(Served, status))
  BY <1>1, <1>2, EventNow, ResetKept DEF Reaches
<1> QED
  BY <1>1, <1>3, EventKeeps

(* Of a suspended WRITE the rest of the payload is at the head of the FIFO, or
   it is not in the FIFO at all. *)
LEMMA HeadOrNone ==
  ASSUME NEW q \in Seq(Items), NEW a \in Nat, Lead(q, a), NEW w \in Nat, w >= 1,
         \A k \in 1 .. w : k <= Len(q) /\ q[k] = Payload
  PROVE  a > 0
<1>1. 1 <= Len(q) /\ q[1] = Payload
  OBVIOUS
<1>5. Payload.op = "payload"
  BY DEF Payload, Request
<1>2. q[1].op = "payload"
  BY <1>1, <1>5
<1>3. Len(q) \in Nat
  BY LenProperties
<1>4. ASSUME a = 0 PROVE FALSE
  BY <1>1, <1>2, <1>3, <1>4 DEF Lead
<1> QED
  BY <1>4

LEMMA WindowKeeps ==
  ASSUME IInv, WindowOpens
  PROVE  Steady
<1>1. lay.wr /\ ~misparsed
  BY DEF WindowOpens
<1>2. ch.inuse
  <2>2. Unserved(Served, cl) => ~lay.wr
    BY ServedIs, EmptiedIs DEF Unserved, Emptied, IInv
  <2> QED
    BY <1>1, <2>2 DEF IInv, Chans
<1>3. PICK w \in 1 .. lay.left :
        IF \A k \in 1 .. w : k <= Len(req) /\ req[k] = Payload
        THEN Event(tcp_fd_write(Served, w))
        ELSE /\ misparsed' = TRUE
             /\ UNCHANGED <<req, rep, ch, lay, ClientSide>>
  BY DEF WindowOpens
<1>4. /\ req \in Seq(Items) /\ Lead(req, ch.avail) /\ ch.avail \in Nat
      /\ AvailLay(Served) /\ lay.left \in Nat
  BY <1>2, WorldNow, ServedIs DEF Fit, IInv, Chans, Layers
<1>5. w \in Nat /\ w >= 1 /\ lay.left > 0
  BY <1>4
<1>6. CASE \A k \in 1 .. w : k <= Len(req) /\ req[k] = Payload
  <2>1. Event(tcp_fd_write(Served, w)) /\ ch.open
    BY <1>3, <1>6 DEF Event
  <2>2. lay.left = ch.avail
    BY <1>4, <1>5, <1>6, HeadOrNone, ServedIs DEF AvailLay
  <2>3. Reaches(Served, tcp_fd_write(Served, w))
    BY <1>1, <1>2, <1>5, <2>1, <2>2, EventNow, ServedIs, WindowKept DEF Reaches
  <2> QED
    BY <2>1, <2>3, EventKeeps
<1>7. CASE ~(\A k \in 1 .. w : k <= Len(req) /\ req[k] = Payload)
  <2>1. misparsed' = TRUE /\ UNCHANGED <<req, rep, ch, lay, ClientSide>>
    BY <1>3, <1>7
  <2> QED
    BY <1>1, <1>2, <1>5, <2>1, MisreadKeeps
<1> QED
  BY <1>6, <1>7

-----------------------------------------------------------------------------
(* A channel for the client that has announced itself. *)
LEMMA OneAsked ==
  ASSUME NEW x \in Items, NEW op
  PROVE  /\ <<x>> \in Seq(Items) /\ Len(<<x>>) = 1 /\ <<x>>[1] = x
         /\ Hits(<<x>>, AskSet(op)) = One(x.op = op)
<1> DEFINE e == <<>>
<1>1. e \in Seq(Items) /\ Len(e) = 0 /\ Append(e, x) = <<x>>
  BY EmptySeq
<1> HIDE DEF e
<1>2. Hits(e, AskSet(op)) = 0
  <2>1. \A k \in 1 .. Len(e) : e[k] \notin AskSet(op)
    BY <1>1
  <2> QED
    BY <1>1, <2>1, HitsType
<1>6. Hits(Append(e, x), AskSet(op))
        = Hits(e, AskSet(op)) + (IF x \in AskSet(op) THEN 1 ELSE 0)
  BY <1>1, HitsAppend
<1>3. Hits(<<x>>, AskSet(op)) = (IF x \in AskSet(op) THEN 1 ELSE 0)
  BY <1>1, <1>2, <1>6
<1>4. x \in AskSet(op) <=> x.op = op
  BY DEF AskSet
<1>5. <<x>> \in Seq(Items) /\ Len(<<x>>) = 1 /\ <<x>>[1] = x
  OBVIOUS
<1> QED
  BY <1>3, <1>4, <1>5 DEF One

LEMMA OpenItem ==
  ASSUME NEW dev \in Devices
  PROVE  /\ Request("OPEN", 0, dev, 0) \in Items
         /\ Request("OPEN", 0, dev, 0).op = "OPEN"
         /\ Request("OPEN", 0, dev, 0).dlen = 0
<1>1. dev \in Kinds /\ "OPEN" \in Ops
  BY DEF Kinds, Ops
<1> QED
  BY <1>1 DEF Request, Items, Meant

(* The record of a channel that sr_accept() has just made. *)
LEMMA AcceptedSound ==
  ASSUME NEW dev \in Devices, NEW s, s \in Worlds,
         s.req = <<Request("OPEN", 0, dev, 0)>>, s.rep = <<>>,
         s.ch = FreshChan, Emptied(s.lay)
  PROVE  Sound(s) /\ Opening(s)
<1> DEFINE x == Request("OPEN", 0, dev, 0)
<1>1. x \in Items /\ x.op = "OPEN" /\ x.dlen = 0
  BY OpenItem
<1> HIDE DEF x
<1>2. /\ s.req = <<x>> /\ Len(s.req) = 1 /\ s.req[1] = x /\ s.req \in Seq(Items)
      /\ \A op : Hits(s.req, AskSet(op)) = One("OPEN" = op)
  <2>1. s.req = <<x>>
    BY DEF x
  <2> QED
    BY <1>1, <2>1, OneAsked
<1>3. /\ s.ch.avail = 0 /\ ~s.ch.dataok /\ ~s.ch.open
      /\ \A op \in Suspendable : ~s.ch.pend[op]
  BY DEF FreshChan
<1>4. \A op : /\ Asks(s, op) = One("OPEN" = op) /\ Tells(s, op) = 0
              /\ Holds(s, op) = 0
  BY <1>2, <1>3, AsksHits, NothingTold DEF Holds
<1>5. Framed(s.req)
  <2>1. FramedAt(s.req, 1)
    BY <1>1, <1>2 DEF FramedAt
  <2> QED
    BY <1>2, <2>1 DEF Framed
<1>6. Lead(s.req, s.ch.avail)
  BY <1>1, <1>2, <1>3 DEF Lead
<1>7. Fit(s)
  BY <1>3, <1>5, <1>6 DEF Fit
<1>8. OneEach(s)
  BY <1>3, <1>4 DEF OneEach, Busy, One
<1>9. Matched(s)
  <2>1. s.lay.rd = 0 /\ ~s.lay.wr /\ ~s.lay.io
    BY WorldSeqs, EmptiedIs
  <2>2. PendLay(s) /\ AvailLay(s)
    BY <1>3, <2>1 DEF PendLay, AvailLay, Suspendable
  <2> QED
    BY <2>2, MatchedIs
<1>10. Opening(s)
  <2>1. \A op \in Ops : Owed(s, op) = IF op = "OPEN" THEN 1 ELSE 0
    BY <1>4 DEF Owed, One
  <2>2. Len(s.rep) = 0
    BY EmptySeq
  <2>3. Owed(s, "READ") <= One(s.lay.strayed)
    BY <2>1 DEF One, Ops, Suspendable
  <2> QED
    BY <2>1, <2>2, <2>3 DEF Opening
<1>11. Leftover(s)
  <2>1. Proper(s.lay) /\ ~s.lay.strayed /\ s.lay.dev = "none"
    BY WorldSeqs, EmptiedIs
  <2>2. Owed(s, "READ") = 0
    BY <1>4 DEF Owed, One
  <2> QED
    BY <1>3, <2>1, <2>2 DEF Leftover, Haunted
<1> QED
  BY <1>7, <1>8, <1>9, <1>10, <1>11 DEF Sound

LEMMA AcceptKeeps ==
  ASSUME IInv, sr_accept
  PROVE  Steady
<1>1. /\ ~ch.inuse /\ cl.pc # "idle" /\ ch' = FreshChan /\ misparsed' = misparsed
      /\ req' = req /\ rep' = rep /\ lay' = lay /\ cl' = cl /\ sigs' = sigs
  BY DEF sr_accept, ClientSide
<1>2. /\ Unserved(Served, cl) /\ ~misparsed /\ lay \in Layers /\ cl \in Clients
      /\ Len(cl.hold) <= ICHAN_HOLD
  BY <1>1 DEF IInv
<1>3. PICK dev \in Devices : req = <<Request("OPEN", 0, dev, 0)>>
  BY <1>1, <1>2, ServedIs DEF Unserved
<1>4. /\ rep = <<>> /\ Emptied(lay) /\ cl.hold = <<>> /\ ~cl.posted /\ ~cl.ioposted
      /\ cl.pc \in {"opening", "stuck"}
  BY <1>1, <1>2, ServedIs DEF Unserved, Emptied
<1>5. FreshChan \in Chans /\ FreshChan.inuse
  BY DEF FreshChan, Chans, Ops
<1>6. req \in Seq(Items) /\ rep \in Seq(Replies)
  BY <1>3, <1>4, OpenItem, OneAsked, EmptySeq
<1>7. /\ Served' \in Worlds /\ Served'.req = req /\ Served'.rep = rep
      /\ Served'.ch = FreshChan /\ Served'.lay = lay
  BY <1>1, <1>2, <1>5, <1>6 DEF Served, Worlds
<1>8. Sound(Served') /\ Opening(Served')
  BY <1>3, <1>4, <1>7, AcceptedSound
<1>9. Attended(Served', cl')
  BY <1>1, <1>4, <1>8 DEF Attended
<1>10. IInv'
  BY <1>1, <1>2, <1>5, <1>8, <1>9 DEF IInv
<1> QED
  BY <1>1, <1>4, <1>10 DEF Steady

-----------------------------------------------------------------------------
(* ichan_send(): a record and its payload behind what is in the FIFO. *)
LEMMA PayloadItem == Payload \in Items /\ Payload.op = "payload"
BY DEF Payload, Request, Items, Meant, Kinds

Behind(q, x, n) == q \o <<x>> \o [k \in 1 .. n |-> Payload]

(* p is q with x and n units of payload behind it. *)
Follows(p, q, x, n) ==
  /\ p \in Seq(Items) /\ Len(q) \in Nat /\ Len(p) = Len(q) + 1 + n
  /\ \A k \in 1 .. Len(q) : p[k] = q[k]
  /\ p[Len(q) + 1] = x
  /\ \A k \in Len(q) + 2 .. Len(q) + 1 + n : p[k] = Payload

LEMMA BehindIs ==
  ASSUME NEW q \in Seq(Items), NEW x \in Items, NEW n \in Nat
  PROVE  Follows(Behind(q, x, n), q, x, n)
<1> DEFINE m == Append(q, x)
           z == [k \in 1 .. n |-> Payload]
           p == m \o z
<1>1. /\ m \in Seq(Items) /\ Len(m) = Len(q) + 1 /\ Len(q) \in Nat
      /\ \A k \in 1 .. Len(q) : m[k] = q[k]
      /\ m[Len(q) + 1] = x
  BY AppendProperties, LenProperties
<1>2. Payload \in Items
  BY PayloadItem
<1> HIDE DEF m
<1>3. /\ z \in Seq(Items) /\ Len(z) = n /\ \A k \in 1 .. n : z[k] = Payload
  <2>1. z \in [1 .. n -> Items]
    BY <1>2
  <2>2. z \in Seq(Items)
    BY <2>1, SeqDef
  <2> QED
    BY <2>1, <2>2, LenProperties
<1> HIDE DEF z
<1>4. /\ p \in Seq(Items) /\ Len(p) = Len(m) + Len(z)
      /\ \A k \in 1 .. Len(m) + Len(z) :
           p[k] = IF k <= Len(m) THEN m[k] ELSE z[k - Len(m)]
  BY <1>1, <1>3, ConcatProperties
<1> HIDE DEF p
<1>5. Behind(q, x, n) = p
  BY DEF Behind, p, m, z
<1>6. ASSUME NEW k \in 1 .. Len(q) PROVE p[k] = q[k]
  <2>1. k \in 1 .. Len(m) + Len(z) /\ k <= Len(m)
    BY <1>1, <1>3
  <2> QED
    BY <1>1, <1>4, <2>1
<1>7. p[Len(q) + 1] = x
  <2>1. Len(q) + 1 \in 1 .. Len(m) + Len(z) /\ Len(q) + 1 <= Len(m)
    BY <1>1, <1>3
  <2> QED
    BY <1>1, <1>4, <2>1
<1>8. ASSUME NEW k \in Len(q) + 2 .. Len(q) + 1 + n PROVE p[k] = Payload
  <2>1. k \in 1 .. Len(m) + Len(z) /\ ~(k <= Len(m)) /\ k - Len(m) \in 1 .. n
    BY <1>1, <1>3
  <2> QED
    BY <1>3, <1>4, <2>1
<1> QED
  BY <1>1, <1>3, <1>4, <1>5, <1>6, <1>7, <1>8 DEF Follows

LEMMA BehindHits ==
  ASSUME NEW q \in Seq(Items), NEW x \in Items, NEW n \in Nat, NEW op \in Ops
  PROVE  Hits(Behind(q, x, n), AskSet(op)) = Hits(q, AskSet(op)) + One(op = x.op)
<1> DEFINE p == Behind(q, x, n)
           m == Append(q, x)
           T == AskSet(op)
<1>7. Follows(p, q, x, n)
  BY BehindIs
<1> HIDE DEF p
<1>1. /\ p \in Seq(Items) /\ Len(q) \in Nat /\ Len(p) = Len(q) + 1 + n
      /\ \A k \in 1 .. Len(q) : p[k] = q[k]
      /\ p[Len(q) + 1] = x
      /\ \A k \in Len(q) + 2 .. Len(q) + 1 + n : p[k] = Payload
  BY <1>7 DEF Follows
<1>2. /\ m \in Seq(Items) /\ Len(m) = Len(q) + 1
      /\ \A k \in 1 .. Len(q) : m[k] = q[k]
      /\ m[Len(q) + 1] = x
  BY AppendProperties, LenProperties
<1>3. Hits(m, T) = Hits(q, T) + (IF x \in T THEN 1 ELSE 0)
  BY HitsAppend
<1>4. (x \in T <=> op = x.op) /\ Payload \notin T
  BY PayloadItem DEF AskSet, Ops, Suspendable
<1> HIDE DEF m, T
<1>5. HitSet(p, T) = HitSet(m, T)
  <2>1. ASSUME NEW k \in HitSet(p, T) PROVE k \in HitSet(m, T)
    <3>1. k \in 1 .. Len(p) /\ p[k] \in T
      BY DEF HitSet
    <3>2. ~(k \in Len(q) + 2 .. Len(q) + 1 + n)
      BY <1>1, <1>4, <3>1
    <3>3. k \in 1 .. Len(m) /\ m[k] = p[k]
      <4>1. k \in 1 .. Len(q) \/ k = Len(q) + 1
        BY <1>1, <3>1, <3>2
      <4> QED
        BY <1>1, <1>2, <4>1
    <3> QED
      BY <3>1, <3>3 DEF HitSet
  <2>2. ASSUME NEW k \in HitSet(m, T) PROVE k \in HitSet(p, T)
    <3>1. k \in 1 .. Len(m) /\ m[k] \in T
      BY DEF HitSet
    <3>2. k \in 1 .. Len(q) \/ k = Len(q) + 1
      BY <1>1, <1>2, <3>1
    <3>3. k \in 1 .. Len(p) /\ p[k] = m[k]
      BY <1>1, <1>2, <3>2
    <3> QED
      BY <3>1, <3>3 DEF HitSet
  <2> QED
    BY <2>1, <2>2
<1>6. Hits(p, T) = Hits(m, T)
  BY <1>5 DEF Hits
<1> QED
  BY <1>3, <1>4, <1>6 DEF One, p, T

LEMMA BehindFramed ==
  ASSUME NEW q \in Seq(Items), NEW x \in Items, x.op # "payload", Framed(q),
         NEW a \in Nat, Lead(q, a)
  PROVE  Framed(Behind(q, x, x.dlen)) /\ Lead(Behind(q, x, x.dlen), a)
<1> DEFINE n == x.dlen
           p == Behind(q, x, n)
<1>0. n \in Nat
  BY DEF Items
<1>5. Follows(p, q, x, n)
  BY <1>0, BehindIs
<1> HIDE DEF n, p
<1>1. /\ p \in Seq(Items) /\ Len(q) \in Nat /\ Len(p) = Len(q) + 1 + n
      /\ \A k \in 1 .. Len(q) : p[k] = q[k]
      /\ p[Len(q) + 1] = x
      /\ \A k \in Len(q) + 2 .. Len(q) + 1 + n : p[k] = Payload
  BY <1>5 DEF Follows
<1>2. Payload.op = "payload"
  BY PayloadItem
<1>3. ASSUME NEW k \in 1 .. Len(p) PROVE FramedAt(p, k)
  <2>1. CASE k \in 1 .. Len(q)
    <3>1. p[k] = q[k] /\ q[k] \in Items
      BY <1>1, <2>1, ElementOfSeq
    <3> SUFFICES ASSUME q[k].op # "payload" PROVE FramedAt(p, k)
      BY <3>1 DEF FramedAt
    <3> DEFINE d == q[k].dlen
    <3>2. d \in Nat
      BY <3>1 DEF Items
    <3>3. /\ k + d <= Len(q)
          /\ \A j \in k + 1 .. k + d : q[j].op = "payload"
          /\ k + d < Len(q) => q[k + d + 1].op # "payload"
      BY <2>1 DEF Framed, FramedAt
    <3> HIDE DEF d
    <3>4. k + d <= Len(p)
      BY <1>0, <1>1, <3>2, <3>3
    <3>5. ASSUME NEW j \in k + 1 .. k + d PROVE p[j].op = "payload"
      <4>1. j \in 1 .. Len(q)
        BY <1>1, <2>1, <3>2, <3>3
      <4> QED
        BY <1>1, <3>3, <4>1
    <3>6. p[k + d + 1].op # "payload"
      <4>1. CASE k + d < Len(q)
        <5>1. k + d + 1 \in 1 .. Len(q)
          BY <1>1, <2>1, <3>2, <4>1
        <5> QED
          BY <1>1, <3>3, <4>1, <5>1
      <4>2. CASE ~(k + d < Len(q))
        <5>1. k + d = Len(q)
          BY <1>1, <2>1, <3>2, <3>3, <4>2
        <5> QED
          BY <1>1, <5>1
      <4> QED
        BY <4>1, <4>2
    <3> QED
      BY <3>1, <3>4, <3>5, <3>6 DEF FramedAt, d
  <2>2. CASE k = Len(q) + 1
    <3>1. p[k] = x /\ k + n = Len(p) /\ ~(k + n < Len(p)) /\ n = x.dlen
      BY <1>0, <1>1, <2>2 DEF n
    <3>2. ASSUME NEW j \in k + 1 .. k + n PROVE p[j].op = "payload"
      <4>1. j \in Len(q) + 2 .. Len(q) + 1 + n
        BY <1>0, <1>1, <2>2
      <4> QED
        BY <1>1, <1>2, <4>1
    <3>3. k + n <= Len(p)
      BY <1>0, <1>1, <3>1
    <3> QED
      BY <3>1, <3>2, <3>3 DEF FramedAt
  <2>3. CASE k \in Len(q) + 2 .. Len(q) + 1 + n
    BY <1>1, <1>2, <2>3 DEF FramedAt
  <2> QED
    BY <1>0, <1>1, <2>1, <2>2, <2>3
<1>4. Lead(p, a)
  <2>1. a <= Len(q) /\ \A k \in 1 .. a : q[k].op = "payload"
    BY DEF Lead
  <2>2. a <= Len(p) /\ \A k \in 1 .. a : p[k].op = "payload"
    BY <1>0, <1>1, <2>1
  <2>3. p[a + 1].op # "payload"
    <3>1. CASE a < Len(q)
      <4>1. a + 1 \in 1 .. Len(q) /\ q[a + 1].op # "payload"
        BY <1>1, <3>1 DEF Lead
      <4> QED
        BY <1>1, <4>1
    <3>2. CASE ~(a < Len(q))
      <4>1. a = Len(q)
        BY <1>1, <2>1, <3>2
      <4> QED
        BY <1>1, <4>1
    <3> QED
      BY <3>1, <3>2
  <2> QED
    BY <2>2, <2>3 DEF Lead
<1> QED
  BY <1>3, <1>4 DEF Framed, p, n

(* t is s with the record x, and its payload, sent. *)
IsWorld(t) == t = [req |-> t.req, rep |-> t.rep, ch |-> t.ch, lay |-> t.lay]

Sent(s, t, x) ==
  /\ IsWorld(t)
  /\ t.req = Behind(s.req, x, x.dlen) /\ t.rep = s.rep
  /\ t.ch = s.ch /\ t.lay = s.lay

Charged(s, t, x) ==
  \A op \in Ops : /\ Asks(t, op) = Asks(s, op) + One(op = x)
                  /\ Tells(t, op) = Tells(s, op) /\ Holds(t, op) = Holds(s, op)
                  /\ Owed(t, op) = Owed(s, op) + One(op = x)
                  /\ Busy(t, op) = Busy(s, op) + One(op = x)

LEMMA SentFit ==
  ASSUME NEW s, Fit(s), NEW x \in Items, x.op \in Ops, NEW t, Sent(s, t, x)
  PROVE  Fit(t) /\ Charged(s, t, x.op)
<1>1. /\ s \in Worlds /\ s.req \in Seq(Items) /\ s.rep \in Seq(Replies)
      /\ s.ch \in Chans /\ s.lay \in Layers /\ Framed(s.req)
      /\ Lead(s.req, s.ch.avail) /\ ~s.ch.dataok /\ s.ch.avail \in Nat
  BY WorldSeqs DEF Fit, Chans
<1>2. x.op # "payload" /\ x.dlen \in Nat
  BY DEF Ops, Suspendable, Items
<1>3. /\ IsWorld(t) /\ t.req = Behind(s.req, x, x.dlen) /\ t.rep = s.rep
      /\ t.ch = s.ch /\ t.lay = s.lay
  BY DEF Sent
<1>4. t.req \in Seq(Items)
  <2>1. Follows(t.req, s.req, x, x.dlen)
    BY <1>1, <1>2, <1>3, BehindIs
  <2> QED
    BY <2>1 DEF Follows
<1>5. t \in Worlds
  BY <1>1, <1>3, <1>4 DEF IsWorld, Worlds
<1>6. Framed(t.req) /\ Lead(t.req, t.ch.avail)
  BY <1>1, <1>2, <1>3, BehindFramed
<1>7. ASSUME NEW op \in Ops
      PROVE  /\ Asks(t, op) = Asks(s, op) + One(op = x.op)
             /\ Tells(t, op) = Tells(s, op) /\ Holds(t, op) = Holds(s, op)
             /\ Owed(t, op) = Owed(s, op) + One(op = x.op)
             /\ Busy(t, op) = Busy(s, op) + One(op = x.op)
  <2>1. Hits(t.req, AskSet(op)) = Hits(s.req, AskSet(op)) + One(op = x.op)
    BY <1>1, <1>2, <1>3, BehindHits
  <2>2. Asks(t, op) = Asks(s, op) + One(op = x.op)
    BY <1>1, <1>5, <2>1, AsksHits
  <2>3. Tells(t, op) = Tells(s, op) /\ Holds(t, op) = Holds(s, op)
    BY <1>3 DEF Tells, Holds
  <2>4. /\ Asks(s, op) \in Nat /\ Tells(s, op) \in Nat /\ Holds(s, op) \in {0, 1}
        /\ One(op = x.op) \in {0, 1}
    BY <1>1, Counts DEF One
  <2> QED
    BY <2>2, <2>3, <2>4 DEF Owed, Busy
<1> QED
  BY <1>1, <1>3, <1>5, <1>6, <1>7 DEF Fit, Charged

(* What has to be answered before a request is sent. *)
Clear(s, op) ==
  /\ op = "READ" => Busy(s, "READ") <= One(s.lay.strayed)
  /\ op \in {"WRITE", "IOCTL"} => Busy(s, "WRITE") + Busy(s, "IOCTL") = 0

LEMMA SentSound ==
  ASSUME NEW s, Sound(s), s.ch.open, NEW x \in Items, x.op \in Ops, x.op # "OPEN",
         Clear(s, x.op), NEW t, Sent(s, t, x)
  PROVE  Sound(t) /\ Charged(s, t, x.op)
<1>1. Fit(t) /\ Charged(s, t, x.op) /\ t.ch = s.ch /\ t.lay = s.lay /\ s \in Worlds
  BY SentFit DEF Sound, Fit, Sent
<1>2. OneEach(t)
  <2>1. /\ Asks(t, "OPEN") = Asks(s, "OPEN") + One("OPEN" = x.op)
        /\ Busy(t, "READ") = Busy(s, "READ") + One("READ" = x.op)
        /\ Busy(t, "WRITE") = Busy(s, "WRITE") + One("WRITE" = x.op)
        /\ Busy(t, "IOCTL") = Busy(s, "IOCTL") + One("IOCTL" = x.op)
    BY <1>1 DEF Charged, Ops, Suspendable
  <2>2. /\ Asks(s, "OPEN") \in Nat /\ Busy(s, "READ") \in Nat
        /\ Busy(s, "WRITE") \in Nat /\ Busy(s, "IOCTL") \in Nat
    BY <1>1, Counts
  <2> DEFINE m == One(s.lay.strayed)
             d == One("READ" = x.op)
  <2>3. /\ Asks(s, "OPEN") = 0
        /\ Busy(s, "READ") <= 1 + m /\ Busy(s, "WRITE") + Busy(s, "IOCTL") <= 1
    BY <2>2 DEF Sound, OneEach
  <2>4. Asks(t, "OPEN") = 0
    BY <2>1, <2>3 DEF One
  <2>7. /\ m \in {0, 1} /\ d \in {0, 1} /\ (d = 1 => Busy(s, "READ") <= m)
        /\ Busy(t, "READ") = Busy(s, "READ") + d
    BY <2>1 DEF One, Clear
  <2> HIDE DEF m, d
  <2>8. Busy(t, "READ") <= 1 + m
    BY <2>2, <2>3, <2>7
  <2>5. Busy(t, "READ") <= 1 + One(t.lay.strayed)
    BY <1>1, <2>8 DEF m
  <2>6. Busy(t, "WRITE") + Busy(t, "IOCTL") <= 1
    BY <2>1, <2>2, <2>3 DEF One, Clear
  <2> QED
    BY <1>1, <2>4, <2>5, <2>6 DEF OneEach
<1>3. Matched(t)
  BY <1>1 DEF Sound, Matched
<1>4. Leftover(t)
  <2>1. Tells(t, "READ") = Tells(s, "READ")
    BY <1>1 DEF Charged, Ops, Suspendable
  <2> QED
    BY <1>1, <2>1 DEF Sound, Leftover
<1> QED
  BY <1>1, <1>2, <1>3, <1>4 DEF Sound

-----------------------------------------------------------------------------
(* Taking a reply. *)
Popped(s, t) ==
  /\ IsWorld(t)
  /\ s.rep # <<>> /\ t.rep = Tail(s.rep) /\ t.req = s.req
  /\ t.ch = s.ch /\ t.lay = s.lay

Paid(s, t, x) ==
  \A op \in Ops : /\ Asks(t, op) = Asks(s, op) /\ Holds(t, op) = Holds(s, op)
                  /\ Busy(t, op) = Busy(s, op)
                  /\ Tells(s, op) = Tells(t, op) + One(op = x)
                  /\ Owed(s, op) = Owed(t, op) + One(op = x)

LEMMA PoppedSound ==
  ASSUME NEW s, Sound(s), NEW t, Popped(s, t)
  PROVE  /\ Sound(t) /\ Paid(s, t, Head(s.rep).rop)
         /\ Head(s.rep) \in Replies /\ Head(s.rep).rop \in Ops
         /\ Head(s.rep) = s.rep[1] /\ Len(s.rep) >= 1
         /\ Len(t.rep) = Len(s.rep) - 1
         /\ \A k \in 1 .. Len(s.rep) - 1 : t.rep[k] = s.rep[k + 1]
<1>1. /\ s \in Worlds /\ s.req \in Seq(Items) /\ s.rep \in Seq(Replies)
      /\ s.ch \in Chans /\ s.lay \in Layers /\ Fit(s)
  BY WorldSeqs DEF Sound, Fit
<1>2. /\ IsWorld(t) /\ s.rep # <<>> /\ t.rep = Tail(s.rep) /\ t.req = s.req
      /\ t.ch = s.ch /\ t.lay = s.lay
  BY DEF Popped
<1>3. /\ Head(s.rep) \in Replies /\ t.rep \in Seq(Replies)
      /\ Head(s.rep) = s.rep[1] /\ Len(s.rep) >= 1
      /\ Len(t.rep) = Len(s.rep) - 1
      /\ \A k \in 1 .. Len(s.rep) - 1 : t.rep[k] = s.rep[k + 1]
  BY <1>1, <1>2, HeadTailProperties, EmptySeq
<1>4. Head(s.rep).rop \in Ops
  BY <1>3 DEF Replies
<1>5. t \in Worlds
  BY <1>1, <1>2, <1>3 DEF IsWorld, Worlds
<1>6. ASSUME NEW op
      PROVE  /\ Asks(t, op) = Asks(s, op) /\ Holds(t, op) = Holds(s, op)
             /\ Busy(t, op) = Busy(s, op)
  BY <1>2 DEF Asks, Holds, Busy
<1>7. ASSUME NEW op \in Ops
      PROVE  /\ Tells(s, op) = Tells(t, op) + One(op = Head(s.rep).rop)
             /\ Owed(s, op) = Owed(t, op) + One(op = Head(s.rep).rop)
  <2>1. Hits(s.rep, TellSet(op)) = Hits(Tail(s.rep), TellSet(op))
          + (IF Head(s.rep) \in TellSet(op) THEN 1 ELSE 0)
    BY <1>1, <1>2, HitsTail
  <2>2. Head(s.rep) \in TellSet(op) <=> op = Head(s.rep).rop
    BY <1>3 DEF TellSet
  <2>3. Tells(s, op) = Tells(t, op) + One(op = Head(s.rep).rop)
    BY <1>1, <1>2, <1>5, <2>1, <2>2, TellsHits DEF One
  <2>4. /\ Asks(t, op) \in Nat /\ Tells(t, op) \in Nat /\ Holds(t, op) \in {0, 1}
        /\ One(op = Head(s.rep).rop) \in {0, 1}
    BY <1>5, Counts DEF One
  <2> QED
    BY <1>6, <2>3, <2>4 DEF Owed
<1>8. Fit(t) /\ OneEach(t) /\ Matched(t)
  <2>1. Fit(t)
    BY <1>1, <1>2, <1>5 DEF Fit
  <2>2. OneEach(t)
    BY <1>2, <1>6 DEF Sound, OneEach
  <2>3. Matched(t)
    BY <1>2 DEF Sound, Matched
  <2> QED
    BY <2>1, <2>2, <2>3
<1>9. Leftover(t)
  <2>1. /\ Owed(s, "READ") = Owed(t, "READ") + One("READ" = Head(s.rep).rop)
        /\ Tells(s, "READ") = Tells(t, "READ") + One("READ" = Head(s.rep).rop)
    BY <1>7 DEF Ops, Suspendable
  <2>2. /\ Owed(t, "READ") \in Nat /\ Tells(t, "READ") \in Nat
        /\ One("READ" = Head(s.rep).rop) \in {0, 1}
    BY <1>5, Counts DEF One
  <2>3. /\ Owed(s, "READ") = 0 => Owed(t, "READ") = 0
        /\ Tells(s, "READ") = 0 => Tells(t, "READ") = 0
    BY <2>1, <2>2
  <2> QED
    BY <1>2, <2>3 DEF Sound, Leftover
<1> QED
  BY <1>3, <1>4, <1>6, <1>7, <1>8, <1>9 DEF Sound, Paid

-----------------------------------------------------------------------------
(* The client at work, with nothing outstanding but its READ. *)
Quiet(s, c) ==
  /\ s.ch.open
  /\ Reading(s, c)
  /\ \A op \in Ops \ {"READ"} : Owed(s, op) = 0

LEMMA QuietWork ==
  ASSUME NEW s, NEW c, Quiet(s, c), ~c.ioposted,
         c.pc = "app" \/ (c.pc = "await" /\ c.want = "READ" /\ c.posted)
  PROVE  AtWork(s, c)
<1>1. /\ Owed(s, "OPEN") = 0 /\ Owed(s, "CLOSE") = 0 /\ Owed(s, "CANCEL") = 0
      /\ Owed(s, "WRITE") = 0 /\ Owed(s, "IOCTL") = 0
  BY DEF Quiet, Ops, Suspendable
<1>2. /\ One(c.pc = "cancel") = 0 /\ One(c.ioposted) = 0
      /\ c.pc = "await" => One(c.want = "WRITE") = 0 /\ One(c.want = "IOCTL") = 0
  BY DEF One
<1>3. Counted(s, c)
  BY <1>1, <1>2 DEF Quiet, Counted
<1> QED
  BY <1>3 DEF Quiet, AtWork, Suspendable

LEMMA WorkQuiet ==
  ASSUME NEW s, NEW c, AtWork(s, c), ~c.ioposted,
         c.pc = "app" \/ (c.pc = "await" /\ c.want = "READ")
  PROVE  Quiet(s, c)
<1>1. /\ One(c.pc = "cancel") = 0 /\ One(c.ioposted) = 0
      /\ c.pc = "await" => One(c.want = "WRITE") = 0 /\ One(c.want = "IOCTL") = 0
  BY DEF One
<1>2. /\ Owed(s, "OPEN") = 0 /\ Owed(s, "CLOSE") = 0 /\ Owed(s, "CANCEL") = 0
      /\ Owed(s, "WRITE") = 0 /\ Owed(s, "IOCTL") = 0
  BY <1>1 DEF AtWork, Counted
<1> QED
  BY <1>2 DEF Quiet, AtWork, Counted, Ops, Suspendable

(* ichan_arm() *)
LEMMA ArmedClient ==
  ASSUME NEW c \in Clients
  PROVE  /\ Armed(c) \in Clients /\ Armed(c).pc = c.pc /\ Armed(c).want = c.want
         /\ Armed(c).hold = c.hold /\ Armed(c).ioposted = c.ioposted
         /\ Armed(c).tries = c.tries
         /\ Armed(c).posted = (c.posted \/ Arms(c))
BY DEF Armed, Clients, Arms

LEMMA ArmedEmpty ==
  ASSUME NEW c \in Clients, c.hold = <<>>
  PROVE  Armed(c).posted
<1>1. Len(c.hold) = 0
  BY EmptySeq
<1>2. Arms(c) \/ c.posted
  BY <1>1, HoldAssumption DEF Arms
<1> QED
  BY <1>2, ArmedClient

Arming(s, t, c) ==
  /\ IsWorld(t)
  /\ t.req = ArmedReq(c, s.req) /\ t.rep = s.rep /\ t.ch = s.ch /\ t.lay = s.lay

LEMMA ArmIs ==
  ASSUME NEW s, Sound(s), NEW c \in Clients, Len(c.hold) <= ICHAN_HOLD,
         Quiet(s, c), NEW t, Arming(s, t, c)
  PROVE  Sound(t) /\ Quiet(t, Armed(c))
<1>1. s \in Worlds /\ Armed(c).posted = (c.posted \/ Arms(c))
  BY ArmedClient DEF Sound, Fit
<1>2. CASE Arms(c)
  <2> DEFINE n == ICHAN_HOLD - Len(c.hold)
             x == Request("READ", n, "", 0)
  <2>1. n \in 1 .. ICHAN_HOLD
    BY <1>2, HoldAssumption, LenProperties DEF Arms, Clients
  <2> HIDE DEF n
  <2>2. /\ x \in [op : Ops \cup {"payload"}, count : Nat, what : Kinds, dlen : Nat]
        /\ x.op = "READ" /\ x.count = n /\ x.what = "" /\ x.dlen = 0
    BY <2>1, HoldAssumption DEF Request, Ops, Suspendable, Kinds
  <2>3. t.req = Behind(s.req, x, 0)
    BY <1>2 DEF Arming, ArmedReq, ichan_send, Behind, n
  <2> HIDE DEF x
  <2>4. x \in Items /\ x.op \in Ops
    BY <2>1, <2>2 DEF Items, Meant, Ops, Suspendable
  <2>5. Sent(s, t, x)
    BY <2>2, <2>3 DEF Sent, Arming
  <2>13. t.lay = s.lay /\ One(s.lay.strayed) \in {0, 1} /\ One(c.posted) = 0
    BY <1>2 DEF Arming, Arms, One
  <2> DEFINE m == One(s.lay.strayed)
             z == One(c.posted)
  <2>14. Owed(s, "READ") \in z .. z + m /\ m \in {0, 1} /\ z = 0
    BY <2>13 DEF Quiet, Reading
  <2> HIDE DEF m, z
  <2>6. Owed(s, "READ") \in 0 .. m
    BY <2>14
  <2>7. Clear(s, x.op)
    <3>1. /\ Asks(s, "READ") \in Nat /\ Tells(s, "READ") \in Nat
          /\ Holds(s, "READ") \in {0, 1}
      BY <1>1, Counts
    <3>2. Busy(s, "READ") <= m
      BY <2>6, <2>14, <3>1 DEF Owed, Busy
    <3> QED
      BY <2>2, <3>2 DEF Clear, m
  <2>8. Sound(t) /\ Charged(s, t, "READ")
    BY <2>2, <2>4, <2>5, <2>7, SentSound DEF Quiet
  <2>9. \A op \in Ops : Owed(t, op) = Owed(s, op) + One(op = "READ")
    BY <2>8 DEF Charged
  <2>15. Owed(t, "READ") = Owed(s, "READ") + 1
    BY <2>9 DEF One, Ops, Suspendable
  <2>10. Owed(t, "READ") \in 1 .. 1 + m
    BY <2>6, <2>14, <2>15
  <2>11. \A op \in Ops \ {"READ"} : Owed(t, op) = 0
    BY <2>9 DEF Quiet, One
  <2>12. Armed(c).posted = TRUE /\ t.ch.open
    BY <1>1, <1>2 DEF Arming, Quiet
  <2> DEFINE y == One(Armed(c).posted)
             n2 == One(t.lay.strayed)
  <2>16. y = 1 /\ n2 = m
    BY <2>12, <2>13 DEF One, m
  <2> HIDE DEF y, n2
  <2>17. Owed(t, "READ") \in y .. y + n2
    BY <2>10, <2>16
  <2> QED
    BY <2>8, <2>11, <2>12, <2>17 DEF Quiet, Reading, y, n2
<1>3. CASE ~Arms(c)
  <2>1. t = s
    BY <1>1, <1>3 DEF Arming, ArmedReq, IsWorld, Worlds
  <2>2. Armed(c) = c
    BY <1>3 DEF Armed
  <2> QED
    BY <2>1, <2>2
<1> QED
  BY <1>2, <1>3

-----------------------------------------------------------------------------
(* The steps of the client. *)
LEMMA ServedNext ==
  /\ IsWorld(Served')
  /\ Served'.req = req' /\ Served'.rep = rep' /\ Served'.ch = ch' /\ Served'.lay = lay'
BY DEF Served, IsWorld

(* What all but three of them come to. *)
Calm == IInv' /\ cl'.pc # "cancel"

LEMMA ClientKeeps ==
  ASSUME IInv, ch.inuse, UNCHANGED DaemonSide, Sound(Served'),
         Attended(Served', cl'), cl' \in Clients, Len(cl'.hold) <= ICHAN_HOLD
  PROVE  IInv'
<1>1. ch' = ch /\ lay' = lay /\ misparsed' = misparsed
  BY DEF DaemonSide
<1>2. Sound(Served)' /\ Attended(Served, cl)'
  OBVIOUS
<1> QED
  BY <1>1, <1>2 DEF IInv

LEMMA WorkKeeps ==
  ASSUME IInv, ch.inuse, UNCHANGED DaemonSide, Sound(Served'),
         AtWork(Served', cl'), cl'.pc \in {"app", "await", "cancel"},
         cl' \in Clients, Len(cl'.hold) <= ICHAN_HOLD
  PROVE  IInv'
<1>1. Attended(Served', cl')
  BY DEF Attended
<1> QED
  BY <1>1, ClientKeeps

LEMMA WorkNow ==
  ASSUME IInv, cl.pc \in {"app", "await", "cancel"}
  PROVE  /\ ch.inuse /\ Sound(Served) /\ AtWork(Served, cl) /\ Served.ch.open
         /\ cl \in Clients /\ Len(cl.hold) <= ICHAN_HOLD /\ Served \in Worlds
<1>1. ch.inuse
  BY DEF IInv, Unserved
<1>2. AtWork(Served, cl)
  BY <1>1 DEF IInv, Attended
<1> QED
  BY <1>1, <1>2 DEF IInv, AtWork, Sound, Fit

LEMMA RunningNow ==
  ASSUME IInv, Running
  PROVE  /\ ch.inuse /\ Sound(Served) /\ Quiet(Served, cl) /\ Served.ch.open
         /\ cl \in Clients /\ Len(cl.hold) <= ICHAN_HOLD /\ Served \in Worlds
         /\ cl.pc = "app" /\ ~cl.ioposted
<1>1. cl.pc = "app" /\ ~cl.ioposted
  BY DEF Running
<1>2. /\ ch.inuse /\ Sound(Served) /\ AtWork(Served, cl) /\ Served.ch.open
      /\ cl \in Clients /\ Len(cl.hold) <= ICHAN_HOLD /\ Served \in Worlds
  BY <1>1, WorkNow
<1>3. Quiet(Served, cl)
  BY <1>1, <1>2, WorkQuiet
<1> QED
  BY <1>1, <1>2, <1>3

LEMMA NoClientIs ==
  NoClient \in Clients /\ NoClient.pc = "idle" /\ NoClient.hold = <<>>
  /\ ~NoClient.posted /\ ~NoClient.ioposted /\ Len(NoClient.hold) <= ICHAN_HOLD
<1>1. <<>> \in Seq(Units) /\ Len(<<>>) = 0
  BY EmptySeq
<1> QED
  BY <1>1, HoldAssumption DEF NoClient, Clients

LEMMA OpenKeeps ==
  ASSUME IInv, NEW dev \in Devices, ichan_open(dev)
  PROVE  Calm
<1>1. /\ ~ch.inuse /\ cl' = [NoClient EXCEPT !.pc = "opening"]
      /\ req' = <<Request("OPEN", 0, dev, 0)>> /\ rep' = <<>>
      /\ ch' = ch /\ lay' = lay /\ misparsed' = misparsed
  BY DEF ichan_open, DaemonSide
<1>2. /\ ch \in Chans /\ lay \in Layers /\ Emptied(lay) /\ ~misparsed
      /\ misparsed \in BOOLEAN
  BY <1>1, ServedIs DEF IInv, Unserved, Emptied
<1>3. /\ cl' \in Clients /\ cl'.pc = "opening" /\ cl'.hold = <<>>
      /\ ~cl'.posted /\ ~cl'.ioposted /\ Len(cl'.hold) <= ICHAN_HOLD
  BY <1>1, NoClientIs DEF Clients
<1>4. Unserved(Served', cl')
  BY <1>1, <1>2, <1>3, ServedNext DEF Unserved, Emptied
<1> QED
  BY <1>1, <1>2, <1>3, <1>4 DEF IInv, Calm

LEMMA OpeningNow ==
  ASSUME IInv, ch.inuse, cl.pc = "opening"
  PROVE  /\ Sound(Served) /\ Opening(Served) /\ cl \in Clients
         /\ cl.hold = <<>> /\ ~cl.posted /\ ~cl.ioposted
BY DEF IInv, Attended

LEMMA OpenReplyKeeps ==
  ASSUME IInv, OpenReply
  PROVE  Calm
<1>1. /\ cl.pc = "opening" /\ rep # <<>> /\ rep' = Tail(rep) /\ req' = req
      /\ cl' = [cl EXCEPT !.pc = IF Head(rep).status < 0 THEN "idle" ELSE "app"]
      /\ UNCHANGED DaemonSide /\ ch' = ch /\ lay' = lay
  BY DEF OpenReply, DaemonSide
<1>2. ch.inuse
  BY <1>1, ServedIs DEF IInv, Unserved
<1>3. /\ Sound(Served) /\ Opening(Served) /\ cl \in Clients
      /\ cl.hold = <<>> /\ ~cl.posted /\ ~cl.ioposted
  BY <1>1, <1>2, OpeningNow
<1>4. Popped(Served, Served')
  BY <1>1, ServedIs, ServedNext DEF Popped
<1>5. /\ Sound(Served') /\ Paid(Served, Served', Head(rep).rop)
      /\ Head(rep) \in Replies /\ Head(rep).rop \in Ops
      /\ Head(rep) = rep[1] /\ Len(rep) >= 1
  BY <1>3, <1>4, PoppedSound, ServedIs
<1>6. /\ \A op \in Ops \ {"READ"} : Owed(Served', op) = 0
      /\ Owed(Served', "READ") \in 0 .. One(Served'.lay.strayed)
  <2>1. /\ \A op \in Ops \ {"READ"} : Owed(Served, op) = IF op = "OPEN" THEN 1 ELSE 0
        /\ Owed(Served, "READ") <= One(Served.lay.strayed)
        /\ Head(rep).rop = "OPEN"
    BY <1>3, <1>5, ServedIs, WorldSeqs, LenProperties DEF Opening, Sound, Fit
  <2>2. \A op \in Ops : /\ Owed(Served, op) = Owed(Served', op) + One(op = Head(rep).rop)
                        /\ Owed(Served', op) \in Nat
    BY <1>5, Counts DEF Paid, Sound, Fit
  <2>3. \A op \in Ops \ {"READ"} : Owed(Served', op) = 0
    BY <2>1, <2>2 DEF One
  <2>4. /\ Owed(Served', "READ") \in Nat
        /\ Owed(Served, "READ") = Owed(Served', "READ") + 0
    BY <2>1, <2>2 DEF One, Ops, Suspendable
  <2>5. Served'.lay = Served.lay /\ One(Served.lay.strayed) \in Nat
    BY <1>4 DEF Popped, One
  <2> QED
    BY <2>1, <2>3, <2>4, <2>5
<1>7. /\ cl' \in Clients /\ cl'.hold = <<>> /\ ~cl'.posted /\ ~cl'.ioposted
      /\ cl'.pc = IF Head(rep).status < 0 THEN "idle" ELSE "app"
  BY <1>1, <1>3 DEF Clients
<1>8. Len(cl'.hold) <= ICHAN_HOLD
  BY <1>7, EmptySeq, HoldAssumption
<1>9. Attended(Served', cl')
  <2>1. CASE Head(rep).status < 0
    BY <1>7, <2>1 DEF Attended
  <2>2. CASE ~(Head(rep).status < 0)
    <3>1. Head(rep).status >= 0
      BY <1>5, <2>2 DEF Replies
    <3>2. Served'.ch.open
      <4>1. 1 \in 1 .. Len(rep) /\ rep[1].status >= 0
        BY <1>3, <1>5, <3>1, ServedIs, WorldSeqs, LenProperties DEF Sound, Fit
      <4>2. Served.ch.open
        BY <1>3, <4>1, ServedIs DEF Opening
      <4> QED
        BY <1>1, <4>2, ServedIs, ServedNext
    <3>3. Quiet(Served', cl')
      <4> DEFINE z == One(cl'.posted)
                 m == One(Served'.lay.strayed)
      <4>1. z = 0 /\ m \in Nat /\ Owed(Served', "READ") \in 0 .. m
        BY <1>6, <1>7 DEF One
      <4> HIDE DEF z, m
      <4>2. Owed(Served', "READ") \in z .. z + m
        BY <4>1
      <4> QED
        BY <1>6, <3>2, <4>2 DEF Quiet, Reading, z, m
    <3>4. cl'.pc = "app"
      BY <1>7, <2>2
    <3>5. AtWork(Served', cl')
      BY <1>7, <3>3, <3>4, QuietWork
    <3> QED
      BY <3>4, <3>5 DEF Attended
  <2> QED
    BY <2>1, <2>2
<1> QED
  BY <1>1, <1>2, <1>5, <1>7, <1>8, <1>9, ClientKeeps DEF Calm

(* The client of a channel that it has gone from, or that it will not hear of
   again. *)
LEMMA SameServed ==
  ASSUME UNCHANGED <<req, rep, ch, lay>>
  PROVE  Served' = Served
BY DEF Served

LEMMA OpenInterruptedKeeps ==
  ASSUME IInv, OpenInterrupted
  PROVE  Calm
<1>1. /\ cl.pc = "opening" /\ cl' = [cl EXCEPT !.pc = "stuck"]
      /\ Served' = Served /\ ch' = ch /\ lay' = lay /\ misparsed' = misparsed
  BY SameServed DEF OpenInterrupted, DaemonSide
<1>2. cl \in Clients
  BY DEF IInv
<1>3. /\ cl' \in Clients /\ cl'.pc = "stuck" /\ cl'.hold = cl.hold
      /\ cl'.posted = cl.posted /\ cl'.ioposted = cl.ioposted
  BY <1>1, <1>2 DEF Clients
<1>4. ch.inuse => Attended(Served', cl')
  BY <1>1, <1>3 DEF IInv, Attended
<1>5. ~ch.inuse => Unserved(Served', cl')
  BY <1>1, <1>3 DEF IInv, Unserved
<1> QED
  BY <1>1, <1>3, <1>4, <1>5 DEF IInv, Calm

LEMMA ExitKeeps ==
  ASSUME IInv, Exit
  PROVE  Calm
<1>1. ch.inuse /\ cl' = NoClient /\ Served' = Served /\ UNCHANGED DaemonSide
  BY SameServed DEF Exit, DaemonSide
<1>2. Attended(Served', cl')
  BY <1>1, NoClientIs DEF Attended
<1>3. Sound(Served')
  BY <1>1 DEF IInv
<1> QED
  BY <1>1, <1>2, <1>3, NoClientIs, ClientKeeps DEF Calm

LEMMA ArmKeeps ==
  ASSUME IInv, ichan_arm
  PROVE  Calm
<1>1. /\ Running /\ cl' = Armed(cl) /\ req' = ArmedReq(cl, req)
      /\ rep' = rep /\ UNCHANGED DaemonSide /\ ch' = ch /\ lay' = lay
  BY DEF ichan_arm, DaemonSide
<1>2. /\ ch.inuse /\ Sound(Served) /\ Quiet(Served, cl)
      /\ cl \in Clients /\ Len(cl.hold) <= ICHAN_HOLD
      /\ cl.pc = "app" /\ ~cl.ioposted
  BY <1>1, RunningNow
<1>3. Arming(Served, Served', cl)
  BY <1>1, ServedIs, ServedNext DEF Arming
<1>4. Sound(Served') /\ Quiet(Served', cl')
  BY <1>1, <1>2, <1>3, ArmIs
<1>5. /\ cl' \in Clients /\ cl'.pc = "app" /\ ~cl'.ioposted
      /\ Len(cl'.hold) <= ICHAN_HOLD
  BY <1>1, <1>2, ArmedClient
<1>6. AtWork(Served', cl')
  BY <1>4, <1>5, QuietWork
<1> QED
  BY <1>1, <1>2, <1>4, <1>5, <1>6, WorkKeeps DEF Calm

(* The end of ichan_recv(), from the record s. *)
Going(c) ==
  /\ Sound(Served') /\ AtWork(Served', c)
  /\ c.pc \in {"app", "await"}
  /\ c \in Clients /\ Len(c.hold) <= ICHAN_HOLD

LEMMA GoingKeeps ==
  ASSUME IInv, ch.inuse, UNCHANGED DaemonSide, Going(cl')
  PROVE  Calm
BY WorkKeeps DEF Going, Calm

LEMMA HandedOver ==
  ASSUME NEW s, Sound(s), NEW c \in Clients, Len(c.hold) <= ICHAN_HOLD,
         Quiet(s, c), ~c.ioposted, HandOver(c, s.req),
         rep' = s.rep, ch' = s.ch, lay' = s.lay
  PROVE  Going(cl')
<1> DEFINE n == IF Len(c.hold) < c.max THEN Len(c.hold) ELSE c.max
           d == [c EXCEPT !.pc = "app", !.hold = SubSeq(@, n + 1, Len(@))]
<1>1. cl' = Armed(d) /\ req' = ArmedReq(d, s.req)
  BY DEF HandOver
<1>2. c.hold \in Seq(Units) /\ c.max \in Nat /\ Len(c.hold) \in Nat
  BY LenProperties DEF Clients
<1>3. n \in 0 .. Len(c.hold)
  BY <1>2
<1> HIDE DEF n
<1>4. /\ Rest(c.hold, n) \in Seq(Units) /\ Len(Rest(c.hold, n)) = Len(c.hold) - n
  BY <1>2, <1>3, RestIs
<1>5. /\ d \in Clients /\ d.pc = "app" /\ d.hold = Rest(c.hold, n)
      /\ d.posted = c.posted /\ d.ioposted = c.ioposted
  BY <1>4 DEF Clients, Rest
<1> HIDE DEF d
<1>6. Len(d.hold) <= ICHAN_HOLD
  BY <1>2, <1>3, <1>4, <1>5, HoldAssumption
<1>7. Quiet(s, d)
  BY <1>5 DEF Quiet, Reading
<1>8. Arming(s, Served', d)
  BY <1>1, ServedNext DEF Arming
<1>9. Sound(Served') /\ Quiet(Served', Armed(d))
  BY <1>5, <1>6, <1>7, <1>8, ArmIs
<1>10. /\ Armed(d) \in Clients /\ Armed(d).pc = "app" /\ ~Armed(d).ioposted
       /\ Armed(d).hold = d.hold
  BY <1>5, ArmedClient
<1>11. AtWork(Served', Armed(d))
  BY <1>9, <1>10, QuietWork
<1> QED
  BY <1>1, <1>6, <1>9, <1>10, <1>11 DEF Going

LEMMA RecvKeeps ==
  ASSUME IInv, NEW max \in ReadSizes, ichan_recv(max)
  PROVE  Calm
<1> DEFINE c == [cl EXCEPT !.max = max]
<1>1. /\ Running /\ rep' = rep /\ UNCHANGED DaemonSide /\ ch' = ch /\ lay' = lay
  BY DEF ichan_recv, DaemonSide
<1>2. /\ ch.inuse /\ Sound(Served) /\ Quiet(Served, cl)
      /\ cl \in Clients /\ Len(cl.hold) <= ICHAN_HOLD
      /\ cl.pc = "app" /\ ~cl.ioposted
  BY <1>1, RunningNow
<1>3. max \in Nat
  BY SizesAssumption
<1>4. CASE cl.hold # <<>>
  <2>1. HandOver(c, req)
    BY <1>4 DEF ichan_recv
  <2>2. /\ c \in Clients /\ c.hold = cl.hold /\ c.posted = cl.posted
        /\ c.ioposted = cl.ioposted
    BY <1>2, <1>3 DEF Clients
  <2> HIDE DEF c
  <2>3. Quiet(Served, c)
    BY <1>2, <2>2 DEF Quiet, Reading
  <2>4. Going(cl')
    BY <1>1, <1>2, <2>1, <2>2, <2>3, ServedIs, HandedOver
  <2> QED
    BY <1>1, <1>2, <2>4, GoingKeeps
<1>5. CASE ~(cl.hold # <<>>)
  <2> DEFINE a == Armed(cl)
  <2>1. /\ cl' = [a EXCEPT !.pc = "await", !.want = "READ", !.max = max]
        /\ req' = ArmedReq(cl, req)
    BY <1>5 DEF ichan_recv
  <2>2. Arming(Served, Served', cl)
    BY <1>1, <2>1, ServedIs, ServedNext DEF Arming
  <2>3. Sound(Served') /\ Quiet(Served', a)
    BY <1>2, <2>2, ArmIs
  <2>4. a \in Clients /\ a.hold = cl.hold /\ ~a.ioposted
    BY <1>2, ArmedClient
  <2> HIDE DEF a
  <2>5. /\ cl' \in Clients /\ cl'.pc = "await" /\ cl'.want = "READ"
        /\ cl'.hold = cl.hold /\ ~cl'.ioposted /\ cl'.posted = a.posted
    BY <1>3, <2>1, <2>4 DEF Clients, Suspendable
  <2>9. cl'.posted
    BY <1>2, <1>5, <2>5, ArmedEmpty DEF a
  <2>6. Quiet(Served', cl')
    BY <2>3, <2>5 DEF Quiet, Reading
  <2>7. AtWork(Served', cl')
    BY <2>5, <2>6, <2>9, QuietWork
  <2>8. Going(cl')
    BY <1>2, <2>3, <2>5, <2>7 DEF Going
  <2> QED
    BY <1>1, <1>2, <2>8, GoingKeeps
<1> QED
  BY <1>4, <1>5

-----------------------------------------------------------------------------
(* The other requests. *)
LEMMA IdleClear ==
  ASSUME NEW s \in Worlds, NEW c, Quiet(s, c), NEW op \in {"WRITE", "IOCTL"}
  PROVE  Clear(s, op)
<1>1. Owed(s, "WRITE") = 0 /\ Owed(s, "IOCTL") = 0
  BY DEF Quiet, Ops, Suspendable
<1>2. \A o : /\ Asks(s, o) \in Nat /\ Tells(s, o) \in Nat /\ Holds(s, o) \in {0, 1}
  BY Counts
<1>3. Busy(s, "WRITE") = 0 /\ Busy(s, "IOCTL") = 0
  BY <1>1, <1>2 DEF Owed, Busy
<1> QED
  BY <1>3 DEF Clear

(* A request of the running program: x is the record. *)
LEMMA Requested ==
  ASSUME IInv, Running, NEW x \in Items, x.op \in {"WRITE", "IOCTL"},
         Sent(Served, Served', x)
  PROVE  /\ Sound(Served') /\ Served'.ch.open
         /\ Reading(Served', cl)
         /\ \A op \in Ops \ {"READ"} : Owed(Served', op) = One(op = x.op)
<1>1. /\ ch.inuse /\ Sound(Served) /\ Quiet(Served, cl) /\ Served.ch.open
      /\ Served \in Worlds
  BY RunningNow
<1>2. Clear(Served, x.op) /\ x.op \in Ops /\ x.op # "OPEN" /\ x.op # "READ"
  BY <1>1, IdleClear DEF Ops, Suspendable
<1>3. Sound(Served') /\ Charged(Served, Served', x.op)
  BY <1>1, <1>2, SentSound
<1>4. \A op \in Ops : Owed(Served', op) = Owed(Served, op) + One(op = x.op)
  BY <1>3 DEF Charged
<1>5. Reading(Served', cl)
  <2>1. Owed(Served, "READ") \in Nat /\ Owed(Served', "READ") = Owed(Served, "READ")
    BY <1>1, <1>2, <1>4, Counts DEF One, Ops, Suspendable
  <2>2. Served'.lay = Served.lay
    BY DEF Sent
  <2> QED
    BY <1>1, <2>1, <2>2 DEF Quiet, Reading
<1>6. \A op \in Ops \ {"READ"} : Owed(Served', op) = One(op = x.op)
  BY <1>1, <1>4 DEF Quiet, One
<1>7. Served'.ch.open
  BY <1>1 DEF Sent
<1> QED
  BY <1>3, <1>5, <1>6, <1>7

LEMMA WriteKeeps ==
  ASSUME IInv, NEW n \in WriteSizes, ichan_write(n)
  PROVE  Calm
<1> DEFINE x == Request("WRITE", n, "", n)
<1>1. /\ Running /\ cl' = [cl EXCEPT !.pc = "await", !.want = "WRITE"]
      /\ req' = ichan_send(req, "WRITE", n, "", n)
      /\ rep' = rep /\ UNCHANGED DaemonSide /\ ch' = ch /\ lay' = lay
  BY DEF ichan_write, DaemonSide
<1>2. /\ ch.inuse /\ cl \in Clients /\ Len(cl.hold) <= ICHAN_HOLD /\ ~cl.ioposted
  BY <1>1, RunningNow
<1>3. n \in Nat
  BY SizesAssumption
<1>4. /\ x \in [op : Ops \cup {"payload"}, count : Nat, what : Kinds, dlen : Nat]
      /\ x.op = "WRITE" /\ x.count = n /\ x.dlen = n
  BY <1>3 DEF Request, Ops, Suspendable, Kinds
<1>5. req' = Behind(req, x, n)
  BY <1>1 DEF ichan_send, Behind
<1> HIDE DEF x
<1>6. x \in Items
  BY <1>4 DEF Items, Meant
<1>7. Sent(Served, Served', x)
  BY <1>1, <1>4, <1>5, ServedIs, ServedNext DEF Sent
<1>8. /\ Sound(Served') /\ Served'.ch.open
      /\ Reading(Served', cl)
      /\ \A op \in Ops \ {"READ"} : Owed(Served', op) = One(op = "WRITE")
  BY <1>1, <1>4, <1>6, <1>7, Requested
<1>9. /\ cl' \in Clients /\ cl'.pc = "await" /\ cl'.want = "WRITE"
      /\ cl'.hold = cl.hold /\ cl'.posted = cl.posted /\ ~cl'.ioposted
  BY <1>1, <1>2 DEF Clients, Suspendable
<1>10. AtWork(Served', cl')
  BY <1>8, <1>9 DEF AtWork, Counted, Reading, One, Ops, Suspendable
<1> QED
  BY <1>1, <1>2, <1>8, <1>9, <1>10, WorkKeeps DEF Calm

(* The record of an ioctl. *)
LEMMA IoctlItem ==
  ASSUME NEW what \in IoctlKinds, NEW n \in Nat
  PROVE  /\ Request("IOCTL", 1, what, n) \in Items
         /\ Request("IOCTL", 1, what, n).op = "IOCTL"
         /\ Request("IOCTL", 1, what, n).dlen = n
<1>1. what \in Kinds /\ "IOCTL" \in Ops
  BY DEF Kinds, Ops, Suspendable
<1> QED
  BY <1>1 DEF Request, Items, Meant

LEMMA IoctlSent ==
  ASSUME IInv, Running, NEW what \in IoctlKinds, NEW n \in Nat,
         req' = ichan_send(req, "IOCTL", 1, what, n), rep' = rep,
         UNCHANGED DaemonSide
  PROVE  /\ Sound(Served') /\ Served'.ch.open
         /\ Reading(Served', cl)
         /\ \A op \in Ops \ {"READ"} : Owed(Served', op) = One(op = "IOCTL")
<1> DEFINE x == Request("IOCTL", 1, what, n)
<1>1. x \in Items /\ x.op = "IOCTL" /\ x.dlen = n
  BY IoctlItem
<1>2. req' = Behind(req, x, n)
  BY DEF ichan_send, Behind
<1>3. ch' = ch /\ lay' = lay
  BY DEF DaemonSide
<1> HIDE DEF x
<1>4. Sent(Served, Served', x)
  BY <1>1, <1>2, <1>3, ServedIs, ServedNext DEF Sent
<1> QED
  BY <1>1, <1>4, Requested

LEMMA IoctlKeeps ==
  ASSUME IInv, NEW what \in IoctlKinds, ichan_ioctl(what)
  PROVE  Calm
<1>1. /\ Running /\ cl' = [cl EXCEPT !.pc = "await", !.want = "IOCTL"]
      /\ req' = ichan_send(req, "IOCTL", 1, what, ArgLen(what))
      /\ rep' = rep /\ UNCHANGED DaemonSide
  BY DEF ichan_ioctl
<1>2. /\ ch.inuse /\ cl \in Clients /\ Len(cl.hold) <= ICHAN_HOLD /\ ~cl.ioposted
  BY <1>1, RunningNow
<1>3. ArgLen(what) \in Nat
  BY DEF ArgLen
<1>4. /\ Sound(Served') /\ Served'.ch.open
      /\ Reading(Served', cl)
      /\ \A op \in Ops \ {"READ"} : Owed(Served', op) = One(op = "IOCTL")
  BY <1>1, <1>3, IoctlSent
<1>5. /\ cl' \in Clients /\ cl'.pc = "await" /\ cl'.want = "IOCTL"
      /\ cl'.hold = cl.hold /\ cl'.posted = cl.posted /\ ~cl'.ioposted
  BY <1>1, <1>2 DEF Clients, Suspendable
<1>6. AtWork(Served', cl')
  BY <1>4, <1>5 DEF AtWork, Counted, Reading, One, Ops, Suspendable
<1> QED
  BY <1>1, <1>2, <1>4, <1>5, <1>6, WorkKeeps DEF Calm

LEMMA PostIoctlKeeps ==
  ASSUME IInv, ichan_post_ioctl
  PROVE  Calm
<1> DEFINE z == 1
<1>1. /\ Running /\ cl' = [cl EXCEPT !.ioposted = TRUE]
      /\ req' = ichan_send(req, "IOCTL", 1, "listen", z)
      /\ rep' = rep /\ UNCHANGED DaemonSide
  BY DEF ichan_post_ioctl
<1>2. /\ ch.inuse /\ cl \in Clients /\ Len(cl.hold) <= ICHAN_HOLD /\ cl.pc = "app"
  BY <1>1, RunningNow
<1>3. z \in Nat
  OBVIOUS
<1> HIDE DEF z
<1>4. /\ Sound(Served') /\ Served'.ch.open
      /\ Reading(Served', cl)
      /\ \A op \in Ops \ {"READ"} : Owed(Served', op) = One(op = "IOCTL")
  BY <1>1, <1>3, IoctlSent DEF IoctlKinds
<1>5. /\ cl' \in Clients /\ cl'.pc = "app"
      /\ cl'.hold = cl.hold /\ cl'.posted = cl.posted /\ cl'.ioposted
  BY <1>1, <1>2 DEF Clients, Suspendable
<1>6. AtWork(Served', cl')
  BY <1>4, <1>5 DEF AtWork, Counted, Reading, One, Ops, Suspendable
<1> QED
  BY <1>1, <1>2, <1>4, <1>5, <1>6, WorkKeeps DEF Calm

LEMMA WaitIoctlKeeps ==
  ASSUME IInv, ichan_wait_ioctl
  PROVE  Calm
<1>1. /\ cl.pc = "app" /\ cl.ioposted /\ Served' = Served /\ UNCHANGED DaemonSide
      /\ cl' = [cl EXCEPT !.pc = "await", !.want = "IOCTL", !.ioposted = FALSE]
  BY SameServed DEF ichan_wait_ioctl, DaemonSide
<1>2. /\ ch.inuse /\ Sound(Served) /\ AtWork(Served, cl)
      /\ cl \in Clients /\ Len(cl.hold) <= ICHAN_HOLD
  BY <1>1, WorkNow
<1>3. /\ cl' \in Clients /\ cl'.pc = "await" /\ cl'.want = "IOCTL"
      /\ cl'.hold = cl.hold /\ cl'.posted = cl.posted /\ ~cl'.ioposted
  BY <1>1, <1>2 DEF Clients, Suspendable
<1>4. AtWork(Served', cl')
  BY <1>1, <1>2, <1>3 DEF AtWork, Counted, Reading, One, Suspendable
<1> QED
  BY <1>1, <1>2, <1>3, <1>4, WorkKeeps DEF Calm

-----------------------------------------------------------------------------
(* ichan_take() *)
LEMMA TheLesser ==
  ASSUME NEW b \in Nat, NEW m \in Nat
  PROVE  /\ (IF b < m THEN b ELSE m) \in 0 .. b
         /\ (IF b < m THEN b ELSE m) <= m
OBVIOUS

LEMMA TakeIs ==
  ASSUME NEW c \in Clients, Len(c.hold) <= ICHAN_HOLD, NEW r \in Replies
  PROVE  LET d == ichan_take(c, r)
         IN  /\ d \in Clients /\ Len(d.hold) <= ICHAN_HOLD
             /\ d.pc = c.pc /\ d.want = c.want /\ d.ioposted = c.ioposted
             /\ d.tries = c.tries
             /\ r.rop = "READ" => ~d.posted
             /\ r.rop # "READ" => d = c
<1> DEFINE room == ICHAN_HOLD - Len(c.hold)
           n == IF Len(r.data) < room THEN Len(r.data) ELSE room
           h == SubSeq(r.data, 1, n)
           d == ichan_take(c, r)
<1>1. CASE r.rop # "READ"
  <2>1. d = c
    BY <1>1 DEF ichan_take
  <2> QED
    BY <1>1, <2>1
<1>2. CASE r.rop = "READ"
  <2>1. c.hold \in Seq(Units) /\ r.data \in Seq(Units) /\ Len(c.hold) \in Nat
        /\ Len(r.data) \in Nat
    BY LenProperties DEF Clients, Replies
  <2>9. room \in Nat /\ Len(c.hold) + room = ICHAN_HOLD
    BY <2>1, HoldAssumption
  <2>2. n \in 0 .. Len(r.data) /\ n <= room /\ Len(c.hold) + room = ICHAN_HOLD
    <3> HIDE DEF room
    <3> QED
      BY <2>1, <2>9, TheLesser
  <2>3. d = [c EXCEPT !.posted = FALSE, !.hold = c.hold \o h]
    BY <1>2 DEF ichan_take, Clients
  <2> HIDE DEF d, room
  <2>4. n \in Nat
    BY <2>2, <2>1
  <2> HIDE DEF n
  <2>5. h \in Seq(Units) /\ Len(h) = n
    <3>1. 1 \in 1 .. Len(r.data) + 1 /\ n \in 1 - 1 .. Len(r.data)
      BY <2>1, <2>2
    <3> QED
      BY <2>1, <2>2, <2>4, <3>1, SubSeqProperties
  <2> HIDE DEF h
  <2>6. c.hold \o h \in Seq(Units) /\ Len(c.hold \o h) = Len(c.hold) + n
    BY <2>1, <2>5, ConcatProperties
  <2>7. Len(c.hold \o h) <= ICHAN_HOLD
    BY <2>1, <2>2, <2>4, <2>6, HoldAssumption DEF room
  <2>8. /\ d \in Clients /\ d.hold = c.hold \o h /\ ~d.posted
        /\ d.pc = c.pc /\ d.want = c.want /\ d.ioposted = c.ioposted
        /\ d.tries = c.tries
    BY <2>3, <2>6 DEF Clients
  <2> QED
    BY <1>2, <2>7, <2>8 DEF d
<1> QED
  BY <1>1, <1>2

(* What a client that takes the reply r is left with. *)
LEMMA TookReply ==
  ASSUME NEW s, Sound(s), NEW u, Popped(s, u), NEW c \in Clients,
         Len(c.hold) <= ICHAN_HOLD, Counted(s, c), c.pc \in {"await", "cancel"},
         ~c.ioposted
  PROVE  LET r == Head(s.rep)
             d == ichan_take(c, r)
         IN  /\ Sound(u) /\ r \in Replies /\ r.rop \in {"READ", "WRITE", "IOCTL", "CANCEL"}
             /\ d \in Clients /\ Len(d.hold) <= ICHAN_HOLD
             /\ d.pc = c.pc /\ d.want = c.want /\ ~d.ioposted /\ d.tries = c.tries
             /\ r.rop = "READ" => ~d.posted
             /\ r.rop # "READ" => d = c
             /\ Owed(u, "OPEN") = 0 /\ Owed(u, "CLOSE") = 0
             /\ Reading(u, d)
             /\ Owed(s, "WRITE") = Owed(u, "WRITE") + One(r.rop = "WRITE")
             /\ Owed(s, "IOCTL") = Owed(u, "IOCTL") + One(r.rop = "IOCTL")
             /\ Owed(s, "CANCEL") = Owed(u, "CANCEL") + One(r.rop = "CANCEL")
             /\ \A op : Owed(u, op) \in Nat
<1> DEFINE r == Head(s.rep)
           d == ichan_take(c, r)
<1>1. Sound(u) /\ Paid(s, u, r.rop) /\ r \in Replies /\ r.rop \in Ops
  BY PoppedSound
<1> HIDE DEF r
<1>2. /\ d \in Clients /\ Len(d.hold) <= ICHAN_HOLD
      /\ d.pc = c.pc /\ d.want = c.want /\ ~d.ioposted /\ d.tries = c.tries
      /\ r.rop = "READ" => ~d.posted
      /\ r.rop # "READ" => d = c
  BY <1>1, TakeIs
<1> HIDE DEF d
<1>3. \A op : Owed(u, op) \in Nat
  BY <1>1, Counts DEF Sound, Fit
<1>4. /\ Owed(s, "OPEN") = Owed(u, "OPEN") + One("OPEN" = r.rop)
      /\ Owed(s, "CLOSE") = Owed(u, "CLOSE") + One("CLOSE" = r.rop)
      /\ Owed(s, "READ") = Owed(u, "READ") + One("READ" = r.rop)
      /\ Owed(s, "WRITE") = Owed(u, "WRITE") + One(r.rop = "WRITE")
      /\ Owed(s, "IOCTL") = Owed(u, "IOCTL") + One(r.rop = "IOCTL")
      /\ Owed(s, "CANCEL") = Owed(u, "CANCEL") + One(r.rop = "CANCEL")
  BY <1>1 DEF Paid, Ops, Suspendable
<1>5. Owed(s, "OPEN") = 0 /\ Owed(s, "CLOSE") = 0 /\ Reading(s, c)
  BY DEF Counted
<1>6. /\ Owed(u, "OPEN") = 0 /\ Owed(u, "CLOSE") = 0
      /\ r.rop # "OPEN" /\ r.rop # "CLOSE"
  <2>1. Owed(u, "OPEN") \in Nat /\ Owed(u, "CLOSE") \in Nat
    BY <1>3
  <2> QED
    BY <1>4, <1>5, <2>1 DEF One
<1>7. Reading(u, d)
  <2>1. Owed(u, "READ") \in Nat /\ u.lay = s.lay
    BY <1>3 DEF Popped
  <2>2. CASE r.rop = "READ"
    <3> DEFINE m == One(s.lay.strayed)
               z == One(c.posted)
               y == One(d.posted)
    <3>1. /\ y = 0 /\ z \in {0, 1} /\ m \in {0, 1}
          /\ Owed(s, "READ") = Owed(u, "READ") + 1
      BY <1>2, <1>4, <2>2 DEF One
    <3>2. Owed(s, "READ") \in z .. z + m
      BY <1>5 DEF Reading
    <3> HIDE DEF m, z, y
    <3>3. Owed(u, "READ") \in y .. y + m
      BY <2>1, <3>1, <3>2
    <3> QED
      BY <2>1, <3>3 DEF Reading, m, y
  <2>3. CASE r.rop # "READ"
    <3>1. d = c /\ Owed(s, "READ") = Owed(u, "READ")
      BY <1>2, <1>4, <2>1, <2>3 DEF One
    <3> QED
      BY <1>5, <2>1, <3>1 DEF Reading
  <2> QED
    BY <2>2, <2>3
<1>8. r.rop \in {"READ", "WRITE", "IOCTL", "CANCEL"}
  BY <1>1, <1>6 DEF Ops, Suspendable
<1> QED
  BY <1>1, <1>2, <1>3, <1>4, <1>6, <1>7, <1>8 DEF d, r

-----------------------------------------------------------------------------
(* ichan_await() *)
LEMMA AwaitKeeps ==
  ASSUME IInv, ichan_await
  PROVE  Calm
<1> DEFINE r == Head(rep)
           d == ichan_take(cl, r)
           u == [req |-> req, rep |-> Tail(rep), ch |-> ch, lay |-> lay]
<1>1. /\ cl.pc = "await" /\ rep # <<>> /\ rep' = Tail(rep)
      /\ UNCHANGED DaemonSide /\ ch' = ch /\ lay' = lay
      /\ \/ r.rop # cl.want /\ cl' = d /\ req' = req
         \/ /\ r.rop = cl.want /\ cl' = [d EXCEPT !.pc = "app"] /\ req' = req
         \/ /\ r.rop = cl.want /\ r.rop = "READ" /\ RecvLoop(d, r.status)
  BY DEF ichan_await, DaemonSide
<1>2. /\ ch.inuse /\ Sound(Served) /\ AtWork(Served, cl) /\ Served.ch.open
      /\ cl \in Clients /\ Len(cl.hold) <= ICHAN_HOLD /\ Served \in Worlds
  BY <1>1, WorkNow
<1>3. Counted(Served, cl) /\ ~cl.ioposted /\ cl.want \in Suspendable
  BY <1>1, <1>2 DEF AtWork
<1>4. Popped(Served, u)
  BY <1>1, ServedIs DEF Popped, IsWorld
<1>5. u.req = req /\ u.rep = Tail(rep) /\ u.ch = ch /\ u.lay = lay
  OBVIOUS
<1>6. ASSUME req' = req PROVE Served' = u
  BY <1>1, <1>6 DEF Served
<1> HIDE DEF u
<1>7. /\ Sound(u) /\ d \in Clients /\ Len(d.hold) <= ICHAN_HOLD
      /\ d.pc = "await" /\ d.want = cl.want /\ ~d.ioposted
      /\ r.rop # "READ" => d = cl
      /\ Owed(u, "OPEN") = 0 /\ Owed(u, "CLOSE") = 0
      /\ Reading(u, d)
      /\ Owed(Served, "WRITE") = Owed(u, "WRITE") + One(r.rop = "WRITE")
      /\ Owed(Served, "IOCTL") = Owed(u, "IOCTL") + One(r.rop = "IOCTL")
      /\ Owed(Served, "CANCEL") = Owed(u, "CANCEL") + One(r.rop = "CANCEL")
      /\ \A op : Owed(u, op) \in Nat
  BY <1>1, <1>2, <1>3, <1>4, ServedIs, TookReply
<1> HIDE DEF d, r
<1>8. /\ Owed(Served, "WRITE") = One(cl.want = "WRITE")
      /\ Owed(Served, "IOCTL") = One(cl.want = "IOCTL")
      /\ Owed(Served, "CANCEL") = 0
  BY <1>1, <1>3 DEF Counted, One
<1>9. /\ Owed(u, "WRITE") \in Nat /\ Owed(u, "IOCTL") \in Nat
      /\ Owed(u, "CANCEL") \in Nat
  BY <1>7
<1>10. Owed(u, "CANCEL") = 0 /\ r.rop # "CANCEL" /\ u.ch.open
  BY <1>2, <1>5, <1>7, <1>8, <1>9, ServedIs DEF One
<1>11. CASE r.rop # cl.want /\ cl' = d /\ req' = req
  <2>1. /\ Owed(u, "WRITE") = One(cl.want = "WRITE")
        /\ Owed(u, "IOCTL") = One(cl.want = "IOCTL")
    BY <1>7, <1>8, <1>9, <1>11 DEF One
  <2>5. d.want = "READ" => d.posted
    BY <1>1, <1>2, <1>7, <1>11 DEF AtWork
  <2>2. AtWork(u, d)
    BY <1>3, <1>7, <1>10, <2>1, <2>5 DEF AtWork, Counted, One
  <2>3. Going(cl')
    BY <1>6, <1>7, <1>11, <2>2 DEF Going
  <2> QED
    BY <1>1, <1>2, <2>3, GoingKeeps
<1>12. CASE r.rop = cl.want /\ cl' = [d EXCEPT !.pc = "app"] /\ req' = req
  <2>1. Owed(u, "WRITE") = 0 /\ Owed(u, "IOCTL") = 0
    BY <1>7, <1>8, <1>9, <1>12 DEF One
  <2>2. /\ cl' \in Clients /\ cl'.pc = "app" /\ cl'.hold = d.hold
        /\ cl'.posted = d.posted /\ cl'.ioposted = d.ioposted
    BY <1>7, <1>12 DEF Clients
  <2>3. AtWork(u, cl')
    BY <1>7, <1>10, <2>1, <2>2 DEF AtWork, Counted, Reading, One
  <2>4. Going(cl')
    BY <1>6, <1>7, <1>12, <2>2, <2>3 DEF Going
  <2> QED
    BY <1>1, <1>2, <2>4, GoingKeeps
<1>13. CASE r.rop = cl.want /\ r.rop = "READ" /\ RecvLoop(d, r.status)
  <2>1. Owed(u, "WRITE") = 0 /\ Owed(u, "IOCTL") = 0
    BY <1>7, <1>8, <1>9, <1>13 DEF One
  <2>2. Quiet(u, d)
    BY <1>7, <1>10, <2>1 DEF Quiet, Ops, Suspendable
  <2>3. CASE d.hold # <<>>
    <3>1. HandOver(d, u.req)
      BY <1>5, <1>13, <2>3 DEF RecvLoop
    <3>2. Going(cl')
      BY <1>1, <1>5, <1>7, <2>2, <3>1, HandedOver
    <3> QED
      BY <1>1, <1>2, <3>2, GoingKeeps
  <2>4. CASE d.hold = <<>> /\ r.status = 0
    <3>1. cl' = [d EXCEPT !.pc = "app"] /\ req' = req
      BY <1>13, <2>4 DEF RecvLoop
    <3>2. /\ cl' \in Clients /\ cl'.pc = "app" /\ cl'.hold = d.hold
          /\ cl'.posted = d.posted /\ cl'.ioposted = d.ioposted
      BY <1>7, <3>1 DEF Clients
    <3>3. Quiet(u, cl')
      BY <2>2, <3>2 DEF Quiet, Reading
    <3>4. AtWork(u, cl')
      BY <1>7, <3>2, <3>3, QuietWork
    <3>5. Going(cl')
      BY <1>6, <1>7, <3>1, <3>2, <3>4 DEF Going
    <3> QED
      BY <1>1, <1>2, <3>5, GoingKeeps
  <2>5. CASE d.hold = <<>> /\ r.status # 0
    <3>1. cl' = Armed(d) /\ req' = ArmedReq(d, req)
      BY <1>13, <2>5 DEF RecvLoop
    <3>2. Arming(u, Served', d)
      BY <1>1, <1>5, <3>1, ServedNext DEF Arming
    <3>3. Sound(Served') /\ Quiet(Served', cl')
      BY <1>7, <2>2, <3>1, <3>2, ArmIs
    <3>4. /\ cl' \in Clients /\ cl'.pc = "await" /\ cl'.want = "READ"
          /\ cl'.hold = d.hold /\ ~cl'.ioposted
      BY <1>7, <1>13, <3>1, ArmedClient
    <3>7. cl'.posted
      BY <1>7, <2>5, <3>1, ArmedEmpty
    <3>5. AtWork(Served', cl')
      BY <3>3, <3>4, <3>7, QuietWork
    <3>6. Going(cl')
      BY <1>7, <3>3, <3>4, <3>5 DEF Going
    <3> QED
      BY <1>1, <1>2, <3>6, GoingKeeps
  <2> QED
    BY <2>3, <2>4, <2>5
<1> QED
  BY <1>1, <1>11, <1>12, <1>13 DEF d, r

-----------------------------------------------------------------------------
(* A signal, and the NWR_CANCEL behind everything else. *)
LEMMA CancelItem ==
  ASSUME NEW w \in Suspendable
  PROVE  /\ Request("CANCEL", 0, w, 0) \in Items
         /\ Request("CANCEL", 0, w, 0).op = "CANCEL"
         /\ Request("CANCEL", 0, w, 0).what = w
         /\ Request("CANCEL", 0, w, 0).dlen = 0
BY DEF Request, Items, Meant, Ops, Kinds, Suspendable

LEMMA InterruptedKeeps ==
  ASSUME IInv, Interrupted
  PROVE  IInv'
<1> DEFINE x == Request("CANCEL", 0, cl.want, 0)
<1>1. /\ cl.pc = "await" /\ rep = <<>> /\ rep' = rep
      /\ cl' = [cl EXCEPT !.pc = "cancel", !.tries = 0]
      /\ req' = ichan_send(req, "CANCEL", 0, cl.want, 0)
      /\ UNCHANGED DaemonSide /\ ch' = ch /\ lay' = lay
  BY DEF Interrupted, DaemonSide
<1>2. /\ ch.inuse /\ Sound(Served) /\ AtWork(Served, cl) /\ Served.ch.open
      /\ cl \in Clients /\ Len(cl.hold) <= ICHAN_HOLD /\ Served \in Worlds
  BY <1>1, WorkNow
<1>3. Counted(Served, cl) /\ ~cl.ioposted /\ cl.want \in Suspendable
  BY <1>1, <1>2 DEF AtWork
<1>4. x \in Items /\ x.op = "CANCEL" /\ x.what = cl.want /\ x.dlen = 0
  BY <1>3, CancelItem
<1>5. req' = Behind(req, x, 0)
  BY <1>1 DEF ichan_send, Behind
<1> HIDE DEF x
<1>6. Sent(Served, Served', x)
  BY <1>1, <1>4, <1>5, ServedIs, ServedNext DEF Sent
<1>7. Sound(Served') /\ Charged(Served, Served', "CANCEL")
  <2>1. Clear(Served, x.op) /\ x.op \in Ops /\ x.op # "OPEN"
    BY <1>4 DEF Clear, Ops
  <2> QED
    BY <1>2, <1>4, <1>6, <2>1, SentSound
<1>8. /\ \A op \in Ops : Owed(Served', op) = Owed(Served, op) + One(op = "CANCEL")
      /\ Served' \in Worlds /\ Served'.ch.open
  BY <1>2, <1>6, <1>7 DEF Charged, Sound, Fit, Sent
<1>9. /\ cl' \in Clients /\ cl'.pc = "cancel" /\ cl'.want = cl.want
      /\ cl'.hold = cl.hold /\ cl'.posted = cl.posted /\ cl'.ioposted = cl.ioposted
      /\ cl'.tries = 0
  BY <1>1, <1>2 DEF Clients
<1>10. /\ Owed(Served', "OPEN") = 0 /\ Owed(Served', "CLOSE") = 0
       /\ Owed(Served', "READ") = Owed(Served, "READ")
       /\ Owed(Served', "CANCEL") = 1
       /\ Owed(Served', "WRITE") = One(cl.want = "WRITE")
       /\ Owed(Served', "IOCTL") = One(cl.want = "IOCTL")
  <2>1. /\ Owed(Served, "OPEN") = 0 /\ Owed(Served, "CLOSE") = 0
        /\ Owed(Served, "READ") \in Nat
        /\ Owed(Served, "CANCEL") = 0
        /\ Owed(Served, "WRITE") = One(cl.want = "WRITE")
        /\ Owed(Served, "IOCTL") = One(cl.want = "IOCTL")
    BY <1>1, <1>2, <1>3, Counts DEF Counted, One
  <2>2. /\ One("OPEN" = "CANCEL") = 0 /\ One("CLOSE" = "CANCEL") = 0
        /\ One("READ" = "CANCEL") = 0 /\ One("WRITE" = "CANCEL") = 0
        /\ One("IOCTL" = "CANCEL") = 0 /\ One("CANCEL" = "CANCEL") = 1
    BY DEF One
  <2>3. \A op \in {"OPEN", "CLOSE", "READ", "WRITE", "IOCTL", "CANCEL"} :
          Owed(Served', op) = Owed(Served, op) + One(op = "CANCEL")
    BY <1>8 DEF Ops, Suspendable
  <2>4. \A b : One(b) \in {0, 1}
    BY DEF One
  <2> QED
    BY <2>1, <2>2, <2>3, <2>4
<1>11. Counted(Served', cl')
  <2>1. Reading(Served', cl')
    <3>1. Served'.lay = Served.lay /\ Reading(Served, cl)
      BY <1>3, <1>6 DEF Sent, Counted
    <3> QED
      BY <1>9, <1>10, <3>1 DEF Reading
  <2> QED
    BY <1>9, <1>10, <2>1 DEF Counted, One
<1>12. Ordered(Served', cl'.want)
  <2>1. Served'.rep = <<>> /\ Served'.req = req'
    BY <1>1, ServedNext
  <2>2. Tells(Served', "CANCEL") = 0 /\ Len(Served'.rep) = 0
    BY <1>8, <2>1, NothingTold, EmptySeq
  <2>3. Follows(req', req, x, 0)
    <3> DEFINE z == 0
    <3>1. z \in Nat /\ req' = Behind(req, x, z) /\ req \in Seq(Items)
      BY <1>2, <1>5, ServedIs, WorldSeqs
    <3> HIDE DEF z
    <3>2. Follows(req', req, x, z)
      BY <1>4, <3>1, BehindIs
    <3> QED
      BY <3>2 DEF z
  <2>4. ASSUME NEW k \in 1 .. Len(req'), req'[k].op = "CANCEL"
        PROVE  k = Len(req') /\ req'[k].what = cl.want
    <3>1. /\ Len(req) \in Nat /\ Len(req') = Len(req) + 1 /\ req'[Len(req) + 1] = x
          /\ \A i \in 1 .. Len(req) : req'[i] = req[i]
      BY <2>3 DEF Follows
    <3>2. CASE k \in 1 .. Len(req)
      <4>1. Asks(Served, "CANCEL") > 0
        BY <1>2, <2>4, <3>1, <3>2, AskedSomewhere, ServedIs
      <4>2. /\ Asks(Served, "CANCEL") \in Nat /\ Tells(Served, "CANCEL") \in Nat
            /\ Holds(Served, "CANCEL") \in {0, 1}
        BY <1>2, Counts
      <4>3. Owed(Served, "CANCEL") = 0
        BY <1>1, <1>3 DEF Counted, One
      <4> QED
        BY <4>1, <4>2, <4>3 DEF Owed
    <3>3. CASE k = Len(req) + 1
      BY <1>4, <3>1, <3>3
    <3> QED
      BY <3>1, <3>2, <3>3
  <2>5. ASSUME cl.want = "READ", Haunted(Served'.lay)
        PROVE  Asks(Served', "READ") > 0
    <3>1. Served'.lay = Served.lay /\ Served'.ch = Served.ch
      BY <1>6 DEF Sent
    <3>2. Tells(Served, "READ") = 0 /\ ~Served.ch.pend["READ"] /\ ~Served.lay.strayed
      BY <1>2, <2>5, <3>1 DEF Sound, Leftover, Proper
    <3>3. Owed(Served, "READ") = 1
      <4> DEFINE m == One(Served.lay.strayed)
                 z == One(cl.posted)
      <4>1. m = 0 /\ z = 1
        BY <1>1, <1>2, <2>5, <3>2 DEF AtWork, One
      <4>2. Owed(Served, "READ") \in z .. z + m
        BY <1>3 DEF Counted, Reading
      <4> HIDE DEF m, z
      <4> QED
        BY <4>1, <4>2
    <3>4. Owed(Served', "READ") = 1 /\ Tells(Served', "READ") = 0
          /\ Holds(Served', "READ") = 0
      <4>1. Tells(Served', "READ") = 0
        BY <1>8, <2>1, NothingTold
      <4> QED
        BY <1>10, <3>1, <3>2, <3>3, <4>1 DEF Holds
    <3>5. Asks(Served', "READ") \in Nat
      BY <1>8, Counts
    <3> QED
      BY <3>4, <3>5 DEF Owed
  <2> QED
    BY <1>9, <2>1, <2>2, <2>4, <2>5 DEF Ordered
<1>13. AtWork(Served', cl')
  BY <1>3, <1>8, <1>9, <1>11, <1>12 DEF AtWork
<1> QED
  BY <1>1, <1>2, <1>7, <1>9, <1>13, WorkKeeps

-----------------------------------------------------------------------------
(* ichan_cancel() returns with replies outstanding: the daemon has not answered
   in CancelTries tries. *)
GivesUp ==
  /\ cl.pc = "cancel" /\ cl'.pc = "app"
  /\ ~(rep # <<>> /\ Head(rep).rop = "CANCEL")

TriesOn(c, done, e) ==
  /\ e \in Clients /\ e.hold = c.hold /\ e.want = c.want /\ e.ioposted = c.ioposted
  /\ done \/ c.tries + 1 >= CancelTries =>
       e.pc = "app" /\ e.posted = (c.posted /\ c.want # "READ")
  /\ ~done /\ ~(c.tries + 1 >= CancelTries) =>
       e.pc = c.pc /\ e.posted = c.posted /\ e.tries = c.tries + 1

LEMMA TriedIs ==
  ASSUME NEW c \in Clients, NEW done \in BOOLEAN
  PROVE  TriesOn(c, done, Tried(c, done))
<1>1. CASE done \/ c.tries + 1 >= CancelTries
  <2>1. Tried(c, done) = [c EXCEPT !.pc = "app",
                 !.posted = IF c.want = "READ" THEN FALSE ELSE @]
    BY <1>1 DEF Tried
  <2> QED
    BY <1>1, <2>1 DEF Clients, TriesOn
<1>2. CASE ~(done \/ c.tries + 1 >= CancelTries)
  <2>1. Tried(c, done) = [c EXCEPT !.tries = @ + 1]
    BY <1>2 DEF Tried
  <2> QED
    BY <1>2, <2>1 DEF Clients, TriesOn
<1> QED
  BY <1>1, <1>2

LEMMA CancelStep ==
  ASSUME IInv, ichan_cancel
  PROVE  /\ ~GivesUp => IInv'
         /\ Head(rep).rop # "CANCEL" => Debt(Served) = Debt(Served') + 1
<1> DEFINE r == Head(rep)
           d == ichan_take(cl, r)
           w == cl.want
           done == (r.rop = "CANCEL")
<1>1. /\ cl.pc = "cancel" /\ rep # <<>> /\ rep' = Tail(rep) /\ req' = req
      /\ cl' = Tried(d, done)
      /\ UNCHANGED DaemonSide /\ ch' = ch /\ lay' = lay
  BY DEF ichan_cancel, DaemonSide
<1>2. /\ ch.inuse /\ Sound(Served) /\ AtWork(Served, cl) /\ Served.ch.open
      /\ cl \in Clients /\ Len(cl.hold) <= ICHAN_HOLD /\ Served \in Worlds
  BY <1>1, WorkNow
<1>3. Counted(Served, cl) /\ ~cl.ioposted /\ w \in Suspendable /\ Ordered(Served, w)
  BY <1>1, <1>2 DEF AtWork
<1>4. Popped(Served, Served')
  BY <1>1, ServedIs, ServedNext DEF Popped
<1>5. done \in BOOLEAN
  OBVIOUS
<1>6. /\ Sound(Served') /\ d \in Clients /\ Len(d.hold) <= ICHAN_HOLD
      /\ r.rop \in {"READ", "WRITE", "IOCTL", "CANCEL"}
      /\ d.pc = "cancel" /\ d.want = w /\ ~d.ioposted /\ d.tries = cl.tries
      /\ r.rop = "READ" => ~d.posted
      /\ r.rop # "READ" => d = cl
      /\ Owed(Served', "OPEN") = 0 /\ Owed(Served', "CLOSE") = 0
      /\ Reading(Served', d)
      /\ Owed(Served, "WRITE") = Owed(Served', "WRITE") + One(r.rop = "WRITE")
      /\ Owed(Served, "IOCTL") = Owed(Served', "IOCTL") + One(r.rop = "IOCTL")
      /\ Owed(Served, "CANCEL") = Owed(Served', "CANCEL") + One(r.rop = "CANCEL")
      /\ \A op : Owed(Served', op) \in Nat
  BY <1>1, <1>2, <1>3, <1>4, ServedIs, TookReply
<1>7. /\ Paid(Served, Served', r.rop) /\ Len(rep) >= 1 /\ rep[1] = r
      /\ Len(rep') = Len(rep) - 1
      /\ \A k \in 1 .. Len(rep) - 1 : rep'[k] = rep[k + 1]
  BY <1>2, <1>4, PoppedSound, ServedIs, ServedNext
<1>8. rep \in Seq(Replies) /\ Len(rep) \in Nat /\ Served' \in Worlds /\ Served'.ch.open
  BY <1>1, <1>2, <1>6, ServedIs, ServedNext, WorldSeqs, LenProperties DEF Sound, Fit
<1>9. Owed(Served', "WRITE") \in Nat /\ Owed(Served', "IOCTL") \in Nat
      /\ Owed(Served', "CANCEL") \in Nat /\ Owed(Served', "READ") \in Nat
  BY <1>6
<1>10. /\ Owed(Served, "CANCEL") = 1
       /\ Owed(Served, "WRITE") <= One(w = "WRITE")
       /\ Owed(Served, "IOCTL") <= One(w = "IOCTL")
  BY <1>1, <1>3 DEF Counted, One
<1>11. Owed(Served, "READ") = Owed(Served', "READ") + One(r.rop = "READ")
  <2>1. "READ" \in Ops /\ (r.rop = "READ") = ("READ" = r.rop)
    BY DEF Ops, Suspendable
  <2> QED
    BY <1>7, <2>1 DEF Paid
<1>12. /\ cl' \in Clients /\ cl'.hold = d.hold /\ cl'.want = w /\ ~cl'.ioposted
       /\ done \/ d.tries + 1 >= CancelTries =>
            cl'.pc = "app" /\ cl'.posted = (d.posted /\ w # "READ")
       /\ ~done /\ ~(d.tries + 1 >= CancelTries) =>
            /\ cl'.pc = "cancel" /\ cl'.posted = d.posted
            /\ cl'.tries = d.tries + 1
  <2>1. TriesOn(d, done, cl')
    <3> HIDE DEF d, done
    <3> QED
      BY <1>1, <1>5, <1>6, TriedIs
  <2> HIDE DEF d, done
  <2> QED
    BY <1>6, <2>1 DEF TriesOn
<1>13. /\ Owed(Served', "WRITE") <= One(w = "WRITE")
       /\ Owed(Served', "IOCTL") <= One(w = "IOCTL")
  <2>1. One(w = "WRITE") \in {0, 1} /\ One(w = "IOCTL") \in {0, 1}
        /\ One(r.rop = "WRITE") \in {0, 1} /\ One(r.rop = "IOCTL") \in {0, 1}
    BY DEF One
  <2>2. /\ Owed(Served, "WRITE") = Owed(Served', "WRITE") + One(r.rop = "WRITE")
        /\ Owed(Served, "IOCTL") = Owed(Served', "IOCTL") + One(r.rop = "IOCTL")
    BY <1>6
  <2> QED
    BY <1>9, <1>10, <2>1, <2>2
<1> HIDE DEF d, r, w
<1>14. ASSUME done
       PROVE  IInv'
  <2>1. Owed(Served, w) = 0
    <3>1. r.rop = "CANCEL" /\ 1 \in 1 .. Len(rep)
      BY <1>7, <1>8, <1>14
    <3>2. Tells(Served, "CANCEL") > 0
      BY <1>2, <1>7, <3>1, ServedIs, ToldSomewhere
    <3>3. Busy(Served, w) = 0
      BY <1>3, <3>2 DEF Ordered
    <3>4. ASSUME NEW k \in 1 .. Len(rep) PROVE rep[k].rop # w
      <4>1. rep[k].rop = w => k < 1
        BY <1>3, <1>7, <3>1, ServedIs DEF Ordered
      <4> QED
        BY <1>8, <4>1
    <3>5. Tells(Served, w) = 0
      BY <1>2, <3>4, ServedIs, ToldOrNot
    <3>6. Asks(Served, w) \in Nat /\ Holds(Served, w) \in {0, 1}
      BY <1>2, Counts
    <3> QED
      BY <3>3, <3>5, <3>6 DEF Owed, Busy
  <2>2. r.rop = "CANCEL" /\ d = cl
    BY <1>6, <1>14
  <2>3. cl'.pc = "app" /\ cl'.posted = (cl.posted /\ w # "READ")
    BY <1>12, <1>14, <2>2
  <2>4. Owed(Served', "WRITE") = 0 /\ Owed(Served', "IOCTL") = 0
        /\ Owed(Served', "CANCEL") = 0
    <3>1. /\ Owed(Served, "WRITE") = Owed(Served', "WRITE")
          /\ Owed(Served, "IOCTL") = Owed(Served', "IOCTL")
          /\ Owed(Served, "CANCEL") = Owed(Served', "CANCEL") + 1
      BY <1>6, <1>9, <2>2 DEF One
    <3>2. Owed(Served, "WRITE") = 0 /\ Owed(Served, "IOCTL") = 0
      BY <1>9, <1>10, <2>1, <3>1 DEF One
    <3> QED
      BY <1>9, <1>10, <3>1, <3>2
  <2>5. Reading(Served', cl')
    <3>1. CASE w = "READ"
      <4>1. Owed(Served, "READ") = 0 /\ ~cl'.posted
        BY <2>1, <2>3, <3>1
      <4> DEFINE m == One(Served'.lay.strayed)
                 z == One(cl'.posted)
      <4>2. Owed(Served', "READ") = 0 /\ z = 0 /\ m \in {0, 1}
        BY <1>9, <1>11, <2>2, <4>1 DEF One
      <4> HIDE DEF m, z
      <4>3. Owed(Served', "READ") \in z .. z + m
        BY <4>2
      <4> QED
        BY <4>3 DEF m, z, Reading
    <3>2. CASE w # "READ"
      BY <1>6, <2>2, <2>3, <3>2 DEF One, Reading
    <3> QED
      BY <3>1, <3>2
  <2>6. Quiet(Served', cl')
    BY <1>6, <1>8, <2>4, <2>5 DEF Quiet, Ops, Suspendable
  <2>7. AtWork(Served', cl')
    BY <1>12, <2>3, <2>6, QuietWork
  <2> QED
    BY <1>1, <1>2, <1>6, <1>12, <2>3, <2>7, WorkKeeps
<1>15. ASSUME ~done, cl'.pc = "cancel"
       PROVE  IInv'
  <2>1. r.rop # "CANCEL" /\ cl'.posted = d.posted
    BY <1>12, <1>15 DEF r
  <2>2. Owed(Served', "CANCEL") = 1
    BY <1>6, <1>9, <1>10, <2>1 DEF One
  <2>3. Counted(Served', cl')
    BY <1>6, <1>12, <1>13, <1>15, <2>1, <2>2 DEF Counted, Reading, One
  <2>4. Ordered(Served', w)
    <3>1. /\ Busy(Served', w) = Busy(Served, w)
          /\ Tells(Served, "CANCEL") = Tells(Served', "CANCEL") + One("CANCEL" = r.rop)
      BY <1>3, <1>7 DEF Paid, Ops
    <3>2. Tells(Served', "CANCEL") = Tells(Served, "CANCEL")
      <4>1. Tells(Served', "CANCEL") \in Nat
        BY <1>8, Counts
      <4> QED
        BY <2>1, <3>1, <4>1 DEF One
    <3>3. ASSUME NEW j \in 1 .. Len(rep'), NEW k \in 1 .. Len(rep'),
                 rep'[j].rop = "CANCEL", rep'[k].rop = w
          PROVE  k < j
      <4>1. /\ j \in 1 .. Len(rep) - 1 /\ k \in 1 .. Len(rep) - 1
            /\ j + 1 \in 1 .. Len(rep) /\ k + 1 \in 1 .. Len(rep)
        BY <1>7, <1>8
      <4>2. rep'[j] = rep[j + 1] /\ rep'[k] = rep[k + 1]
        BY <1>7, <4>1
      <4>3. k + 1 < j + 1
        BY <1>3, <3>3, <4>1, <4>2, ServedIs DEF Ordered
      <4> QED
        BY <4>1, <4>3
    <3>4. Served'.req = Served.req /\ Served'.lay = Served.lay
      BY <1>1, ServedIs, ServedNext
    <3>5. Asks(Served', "READ") = Asks(Served, "READ")
      BY <3>4 DEF Asks
    <3>6. w = "READ" /\ Haunted(Served'.lay) => Asks(Served', "READ") > 0
      BY <1>3, <3>4, <3>5 DEF Ordered
    <3> QED
      BY <1>1, <1>3, <3>1, <3>2, <3>3, <3>6, ServedIs, ServedNext DEF Ordered
  <2>5. AtWork(Served', cl')
    BY <1>3, <1>8, <1>12, <2>3, <2>4 DEF AtWork
  <2> QED
    BY <1>1, <1>2, <1>6, <1>12, <1>15, <2>5, WorkKeeps
<1>16. ~GivesUp => done \/ cl'.pc = "cancel"
  BY <1>1, <1>12 DEF GivesUp, r
<1>17. Head(rep).rop # "CANCEL" => Debt(Served) = Debt(Served') + 1
  <2> SUFFICES ASSUME r.rop # "CANCEL" PROVE Debt(Served) = Debt(Served') + 1
    BY DEF r
  <2>1. One(r.rop = "READ") + One(r.rop = "WRITE") + One(r.rop = "IOCTL") = 1
    BY <1>6 DEF One
  <2>2. One(r.rop = "READ") \in {0, 1} /\ One(r.rop = "WRITE") \in {0, 1}
        /\ One(r.rop = "IOCTL") \in {0, 1}
    BY DEF One
  <2>3. /\ Owed(Served, "WRITE") = Owed(Served', "WRITE") + One(r.rop = "WRITE")
        /\ Owed(Served, "IOCTL") = Owed(Served', "IOCTL") + One(r.rop = "IOCTL")
    BY <1>6
  <2> QED
    BY <1>9, <1>11, <2>1, <2>2, <2>3 DEF Debt
<1> QED
  BY <1>14, <1>15, <1>16, <1>17

(* Another signal. *)
LEMMA CancelInterruptedStep ==
  ASSUME IInv, CancelInterrupted
  PROVE  /\ ~GivesUp => IInv'
         /\ Served' = Served /\ sigs' = sigs + 1 /\ sigs < MaxSignals
         /\ cl.pc = "cancel" /\ cl' = Tried(cl, FALSE)
<1>1. /\ cl.pc = "cancel" /\ rep = <<>> /\ cl' = Tried(cl, FALSE)
      /\ Served' = Served /\ UNCHANGED DaemonSide
      /\ sigs' = sigs + 1 /\ sigs < MaxSignals
  BY SameServed DEF CancelInterrupted, DaemonSide
<1>2. /\ ch.inuse /\ Sound(Served) /\ AtWork(Served, cl)
      /\ cl \in Clients /\ Len(cl.hold) <= ICHAN_HOLD
  BY <1>1, WorkNow
<1>3. TriesOn(cl, FALSE, cl')
  <2> DEFINE no == FALSE
  <2>1. no \in BOOLEAN /\ cl' = Tried(cl, no)
    BY <1>1
  <2> HIDE DEF no
  <2>2. TriesOn(cl, no, cl')
    BY <1>2, <2>1, TriedIs
  <2> QED
    BY <2>2 DEF no
<1>4. ASSUME ~GivesUp PROVE IInv'
  <2>1. cl'.pc # "app"
    BY <1>1, <1>4 DEF GivesUp
  <2>2. /\ cl' \in Clients /\ cl'.pc = "cancel" /\ cl'.want = cl.want
        /\ cl'.hold = cl.hold /\ cl'.posted = cl.posted
        /\ cl'.ioposted = cl.ioposted
    BY <1>1, <1>3, <2>1 DEF TriesOn
  <2>3. AtWork(Served', cl')
    BY <1>1, <1>2, <2>2 DEF AtWork, Counted, Reading
  <2> QED
    BY <1>1, <1>2, <2>2, <2>3, WorkKeeps
<1> QED
  BY <1>1, <1>4

(* ichan_close() and ichan_abort() *)
LEMMA CloseItem ==
  /\ Request("CLOSE", 0, "", 0) \in Items
  /\ Request("CLOSE", 0, "", 0).op = "CLOSE" /\ Request("CLOSE", 0, "", 0).dlen = 0
BY DEF Request, Items, Meant, Ops, Kinds

LEMMA ClientCloseKeeps ==
  ASSUME IInv, ichan_close
  PROVE  Calm
<1> DEFINE x == Request("CLOSE", 0, "", 0)
<1>1. /\ cl.pc = "app" /\ cl' = NoClient /\ rep' = rep
      /\ req' = ichan_send(req, "CLOSE", 0, "", 0)
      /\ UNCHANGED DaemonSide /\ ch' = ch /\ lay' = lay
  BY DEF ichan_close, DaemonSide
<1>2. ch.inuse /\ Sound(Served) /\ Served.ch.open
  BY <1>1, WorkNow
<1>3. x \in Items /\ x.op = "CLOSE" /\ x.dlen = 0
  BY CloseItem
<1>4. req' = Behind(req, x, 0)
  BY <1>1 DEF ichan_send, Behind
<1> HIDE DEF x
<1>5. Sent(Served, Served', x)
  BY <1>1, <1>3, <1>4, ServedIs, ServedNext DEF Sent
<1>6. Clear(Served, x.op) /\ x.op \in Ops /\ x.op # "OPEN"
  BY <1>3 DEF Clear, Ops
<1>7. Sound(Served')
  BY <1>2, <1>3, <1>5, <1>6, SentSound
<1>8. Attended(Served', cl')
  BY <1>1, NoClientIs DEF Attended
<1> QED
  BY <1>1, <1>2, <1>7, <1>8, NoClientIs, ClientKeeps DEF Calm

-----------------------------------------------------------------------------
(* Every step. *)
InetStep == Daemon \/ Network

LEMMA DaemonSteady ==
  ASSUME IInv, InetStep
  PROVE  Steady
<1>1. CASE sr_chan_req BY <1>1, RequestKeeps
<1>2. CASE sr_chan_req_payload BY <1>2, PayloadKeeps
<1>3. CASE ChanClose BY <1>3, CloseKeeps
<1>4. CASE ChanEof BY <1>4, EofKeeps
<1>5. CASE sr_accept BY <1>5, AcceptKeeps
<1>6. CASE \E push \in BOOLEAN : Arrive(push) BY <1>6, ArriveKeeps
<1>7. CASE Fin BY <1>7, FinKeeps
<1>8. CASE Reset BY <1>8, ResetKeeps
<1>9. CASE WindowOpens BY <1>9, WindowKeeps
<1>10. CASE \E status \in {0, -1} : tcp_restart_connect(status)
  <2>1. PICK status \in {0, -1} : tcp_restart_connect(status)
    BY <1>10
  <2>2. status \in Int
    OBVIOUS
  <2> QED
    BY <2>1, <2>2, ConnectKeeps
<1> QED
  BY <1>1, <1>2, <1>3, <1>4, <1>5, <1>6, <1>7, <1>8, <1>9, <1>10
     DEF InetStep, Daemon, Network

(* The steps of the client but those of ichan_cancel(). *)
Program ==
  \/ \E dev \in Devices : ichan_open(dev)
  \/ OpenReply \/ OpenInterrupted
  \/ ichan_arm \/ \E max \in ReadSizes : ichan_recv(max)
  \/ \E n \in WriteSizes : ichan_write(n)
  \/ \E what \in IoctlKinds : ichan_ioctl(what)
  \/ ichan_post_ioctl \/ ichan_wait_ioctl
  \/ ichan_await \/ ichan_close \/ Exit

LEMMA ProgramCalm ==
  ASSUME IInv, Program
  PROVE  Calm
<1>1. CASE \E dev \in Devices : ichan_open(dev) BY <1>1, OpenKeeps
<1>2. CASE OpenReply BY <1>2, OpenReplyKeeps
<1>3. CASE OpenInterrupted BY <1>3, OpenInterruptedKeeps
<1>4. CASE ichan_arm BY <1>4, ArmKeeps
<1>5. CASE \E max \in ReadSizes : ichan_recv(max) BY <1>5, RecvKeeps
<1>6. CASE \E n \in WriteSizes : ichan_write(n) BY <1>6, WriteKeeps
<1>7. CASE \E what \in IoctlKinds : ichan_ioctl(what) BY <1>7, IoctlKeeps
<1>8. CASE ichan_post_ioctl BY <1>8, PostIoctlKeeps
<1>9. CASE ichan_wait_ioctl BY <1>9, WaitIoctlKeeps
<1>10. CASE ichan_await BY <1>10, AwaitKeeps
<1>11. CASE ichan_close BY <1>11, ClientCloseKeeps
<1>12. CASE Exit BY <1>12, ExitKeeps
<1> QED
  BY <1>1, <1>2, <1>3, <1>4, <1>5, <1>6, <1>7, <1>8, <1>9, <1>10, <1>11, <1>12
     DEF Program

LEMMA EveryStep ==
  ASSUME Next
  PROVE  InetStep \/ Program \/ Interrupted \/ ichan_cancel \/ CancelInterrupted
BY DEF Next, Client, Program, InetStep

LEMMA Stutter ==
  ASSUME IInv, UNCHANGED vars
  PROVE  IInv'
<1>1. /\ Served' = Served /\ cl' = cl /\ ch' = ch /\ lay' = lay
      /\ misparsed' = misparsed
  BY DEF vars, Served
<1> QED
  BY <1>1 DEF IInv

LEMMA StepKeeps ==
  ASSUME IInv, [Next]_vars, ~GivesUp \/ UNCHANGED vars
  PROVE  IInv'
<1>1. CASE UNCHANGED vars BY <1>1, Stutter
<1>2. ASSUME Next, ~GivesUp PROVE IInv'
  <2>1. CASE InetStep BY <2>1, DaemonSteady DEF Steady
  <2>2. CASE Program BY <2>2, ProgramCalm DEF Calm
  <2>3. CASE Interrupted BY <2>3, InterruptedKeeps
  <2>4. CASE ichan_cancel BY <1>2, <2>4, CancelStep
  <2>5. CASE CancelInterrupted BY <1>2, <2>5, CancelInterruptedStep
  <2> QED
    BY <1>2, <2>1, <2>2, <2>3, <2>4, <2>5, EveryStep
<1> QED
  BY <1>1, <1>2

LEMMA InitKeeps ==
  ASSUME Init
  PROVE  IInv
<1>1. /\ ch = [FreshChan EXCEPT !.inuse = FALSE] /\ lay = NoLayer
      /\ cl = NoClient /\ misparsed = FALSE
  BY DEF Init
<1>2. ch \in Chans /\ ~ch.inuse
  BY <1>1 DEF FreshChan, Chans, Ops, Suspendable
<1>3. lay \in Layers
  BY <1>1, FreshLayerIs DEF NoLayer
<1>4. Unserved(Served, cl)
  <2>1. Served.lay = [NoLayer EXCEPT !.stale = NoLayer.stale] /\ NoLayer.stale = 0
    BY <1>1, ServedIs DEF NoLayer, FreshLayer
  <2>2. Served.lay = [NoLayer EXCEPT !.stale = Served.lay.stale]
    BY <1>1, <2>1, ServedIs
  <2> QED
    BY <1>1, <2>2, NoClientIs DEF Unserved
<1> QED
  BY <1>1, <1>2, <1>3, <1>4, NoClientIs DEF IInv
-----------------------------------------------------------------------------
(* The client that counts its replies: ichan_cancel() does not give up. *)
PInv == IInv /\ Patient /\ sigs \in 0 .. MaxSignals

(* What is owed to a client in ichan_cancel(). *)
LEMMA DebtBound ==
  ASSUME NEW s \in Worlds, NEW c, Counted(s, c), c.pc = "cancel"
  PROVE  Debt(s) \in 0 .. 2 + One(s.lay.strayed)
<1> DEFINE m == One(s.lay.strayed)
           z == One(c.posted)
<1>1. /\ Owed(s, "READ") \in z .. z + m
      /\ Owed(s, "WRITE") <= One(c.want = "WRITE")
      /\ Owed(s, "IOCTL") <= One(c.want = "IOCTL")
  BY DEF Counted, Reading
<1>2. /\ Owed(s, "READ") \in Nat /\ Owed(s, "WRITE") \in Nat
      /\ Owed(s, "IOCTL") \in Nat
  BY Counts
<1>3. One(c.want = "WRITE") + One(c.want = "IOCTL") <= 1
  BY DEF One
<1>4. One(c.want = "WRITE") \in {0, 1} /\ One(c.want = "IOCTL") \in {0, 1}
      /\ z \in {0, 1} /\ m \in {0, 1}
  BY DEF One
<1> HIDE DEF m, z
<1>5. Debt(s) \in 0 .. 2 + m
  BY <1>1, <1>2, <1>3, <1>4 DEF Debt
<1> QED
  BY <1>5 DEF m

LEMMA DebtIs ==
  ASSUME IInv, cl.pc = "cancel"
  PROVE  /\ Debt(Served) \in Nat /\ cl.tries \in Nat
         /\ rep # <<>> /\ Head(rep).rop # "CANCEL" => Debt(Served) >= 1
<1>1. /\ ch.inuse /\ Sound(Served) /\ AtWork(Served, cl)
      /\ cl \in Clients /\ Served \in Worlds
  BY WorkNow
<1>2. Counted(Served, cl) /\ cl.want \in Suspendable
  BY <1>1 DEF AtWork
<1>3. Owed(Served, "OPEN") = 0 /\ Owed(Served, "CLOSE") = 0
  BY <1>2 DEF Counted
<1>4. /\ Owed(Served, "READ") \in Nat /\ Owed(Served, "WRITE") \in Nat
      /\ Owed(Served, "IOCTL") \in Nat
  BY <1>1, Counts
<1>5. Debt(Served) \in Nat
  BY <1>4 DEF Debt
<1>6. cl.tries \in Nat
  BY <1>1 DEF Clients
<1>7. ASSUME rep # <<>>, Head(rep).rop # "CANCEL"
      PROVE  Debt(Served) >= 1
  <2>1. rep \in Seq(Replies) /\ Len(rep) \in Nat
    BY <1>1, ServedIs, WorldSeqs, LenProperties
  <2>2. Len(rep) >= 1
    BY <1>7, <2>1, EmptySeq
  <2>3. 1 \in 1 .. Len(rep) /\ Head(rep) = rep[1] /\ rep[1] \in Replies
    <3>1. 1 \in 1 .. Len(rep)
      BY <2>1, <2>2
    <3>2. rep[1] \in Replies
      BY <2>1, <3>1, ElementOfSeq
    <3> QED
      BY <1>7, <2>1, <3>1, <3>2, HeadTailProperties
  <2> DEFINE op == rep[1].rop
  <2>4. op \in Ops /\ op # "CANCEL"
    BY <1>7, <2>3 DEF Replies
  <2>5. Tells(Served, op) > 0
    BY <1>1, <2>3, ToldSomewhere, ServedIs
  <2> HIDE DEF op
  <2>6. Owed(Served, op) > 0
    BY <1>1, <2>5, Counts DEF Owed
  <2>7. op \in Suspendable
    BY <1>3, <2>4, <2>6 DEF Ops
  <2> QED
    BY <1>4, <2>6, <2>7 DEF Debt, Suspendable
<1> QED
  BY <1>5, <1>6, <1>7

LEMMA PrimedDebt ==
  ASSUME IInv', cl'.pc = "cancel"
  PROVE  Debt(Served') \in 0 .. 2 + One(Served'.lay.strayed)
<1>1. ch'.inuse
  BY DEF IInv, Unserved
<1>2. Sound(Served') /\ Attended(Served', cl')
  BY <1>1 DEF IInv
<1>3. Served' \in Worlds /\ Counted(Served', cl')
  BY <1>2 DEF Sound, Fit, Attended, AtWork
<1> QED
  BY <1>3, DebtBound

LEMMA PatientDaemon ==
  ASSUME PInv, InetStep
  PROVE  PInv'
<1>1. Steady
  BY DaemonSteady DEF PInv
<1>2. IInv' /\ cl' = cl /\ sigs' = sigs
  BY <1>1 DEF Steady
<1>3. ASSUME cl.pc = "cancel"
      PROVE  cl'.tries + Debt(Served') <= sigs' + 1 + One(Served'.lay.strayed)
  <2> DEFINE m == One(Served.lay.strayed)
             n == One(Served'.lay.strayed)
             e == Owed(Served, "READ")
             f == Owed(Served', "READ")
             g == Owed(Served, "WRITE") + Owed(Served, "IOCTL")
  <2>1. /\ Served \in Worlds /\ Served' \in Worlds /\ cl.tries \in Nat
        /\ ch.inuse
    <3>1. ch.inuse /\ Served \in Worlds /\ cl \in Clients
      BY <1>3, WorkNow DEF PInv
    <3>2. Sound(Served')
      BY <1>2, <1>3 DEF IInv, Unserved
    <3> QED
      BY <3>1, <3>2 DEF Sound, Fit, Clients
  <2>2. /\ Owed(Served', "WRITE") = Owed(Served, "WRITE")
        /\ Owed(Served', "IOCTL") = Owed(Served, "IOCTL")
        /\ f + m <= e + n
    BY <1>1, <1>3 DEF Steady, Evenly, Ops, Suspendable
  <2>3. /\ Owed(Served, "WRITE") \in Nat /\ Owed(Served, "IOCTL") \in Nat
        /\ e \in Nat /\ f \in Nat
    BY <2>1, Counts
  <2>4. m \in {0, 1} /\ n \in {0, 1}
    BY DEF One
  <2>5. /\ Debt(Served) = e + g /\ Debt(Served') = f + g /\ g \in Nat
    BY <2>2, <2>3 DEF Debt
  <2>6. cl.tries + Debt(Served) <= sigs + 1 + m
    BY <1>3 DEF PInv, Patient
  <2>7. sigs \in Nat /\ cl'.tries = cl.tries /\ sigs' = sigs
    BY <1>2, BoundsAssumption DEF PInv
  <2> HIDE DEF m, n, e, f, g
  <2>8. cl'.tries + Debt(Served') <= sigs' + 1 + n
    BY <2>1, <2>2, <2>3, <2>4, <2>5, <2>6, <2>7
  <2> QED
    BY <2>8 DEF n
<1>4. Patient'
  BY <1>2, <1>3 DEF Patient, PInv
<1> QED
  BY <1>2, <1>4 DEF PInv

LEMMA PatientProgram ==
  ASSUME PInv, Program
  PROVE  PInv'
<1>1. IInv' /\ Patient'
  BY ProgramCalm DEF PInv, Calm, Patient
<1>2. sigs' = sigs \/ (sigs < MaxSignals /\ sigs' = sigs + 1)
  BY DEF Program, ichan_open, OpenReply, OpenInterrupted, ichan_arm, ichan_recv,
         ichan_write, ichan_ioctl, ichan_post_ioctl, ichan_wait_ioctl,
         ichan_await, ichan_close, Exit
<1>3. sigs' \in 0 .. MaxSignals
  BY <1>2, BoundsAssumption DEF PInv
<1> QED
  BY <1>1, <1>3 DEF PInv

LEMMA PatientInterrupted ==
  ASSUME PInv, Interrupted
  PROVE  PInv'
<1>1. IInv'
  BY InterruptedKeeps DEF PInv
<1>2. sigs < MaxSignals /\ sigs' = sigs + 1 /\ cl \in Clients
      /\ cl' = [cl EXCEPT !.pc = "cancel", !.tries = 0]
  BY DEF Interrupted, PInv, IInv
<1>3. cl'.pc = "cancel" /\ cl'.tries = 0
  BY <1>2 DEF Clients
<1>4. Debt(Served') \in 0 .. 2 + One(Served'.lay.strayed)
  BY <1>1, <1>3, PrimedDebt
<1>5. Patient'
  <2> DEFINE m == One(Served'.lay.strayed)
             e == Debt(Served')
  <2>1. e \in 0 .. 2 + m /\ m \in {0, 1} /\ sigs \in Nat
    BY <1>4, BoundsAssumption DEF One, PInv
  <2> HIDE DEF m, e
  <2>2. cl'.tries + e <= sigs' + 1 + m
    BY <1>2, <1>3, <2>1
  <2> QED
    BY <2>2 DEF Patient, m, e
<1>6. sigs' \in 0 .. MaxSignals
  BY <1>2, BoundsAssumption DEF PInv
<1> QED
  BY <1>1, <1>5, <1>6 DEF PInv
LEMMA TriesLeft ==
  ASSUME PInv, cl.pc = "cancel", rep = <<>> => sigs < MaxSignals,
         Head(rep).rop # "CANCEL", MaxSignals + 3 <= CancelTries
  PROVE  cl.tries + 1 < CancelTries
<1> DEFINE m == One(Served.lay.strayed)
<1>1. /\ cl.tries \in Nat /\ Debt(Served) \in Nat
      /\ rep # <<>> => Debt(Served) >= 1
  BY DebtIs DEF PInv
<1>2. cl.tries + Debt(Served) <= sigs + 1 + m /\ sigs \in 0 .. MaxSignals
  BY DEF PInv, Patient
<1>3. MaxSignals \in Nat /\ CancelTries \in Nat /\ m \in {0, 1}
  BY BoundsAssumption DEF One
<1> HIDE DEF m
<1> QED
  BY <1>1, <1>2, <1>3

LEMMA PatientCancel ==
  ASSUME PInv, ichan_cancel, MaxSignals + 3 <= CancelTries
  PROVE  PInv' /\ ~GivesUp
<1>1. /\ cl.pc = "cancel" /\ rep # <<>> /\ sigs' = sigs
      /\ cl' = Tried(ichan_take(cl, Head(rep)), Head(rep).rop = "CANCEL")
  BY DEF ichan_cancel
<1> DEFINE d == ichan_take(cl, Head(rep))
           done == Head(rep).rop = "CANCEL"
<1>2. /\ cl \in Clients /\ d \in Clients /\ d.tries = cl.tries /\ d.pc = "cancel"
  <2>1. Served \in Worlds /\ cl \in Clients /\ Len(cl.hold) <= ICHAN_HOLD
    BY <1>1, WorkNow DEF PInv
  <2>2. rep \in Seq(Replies) /\ Head(rep) \in Replies
    BY <1>1, <2>1, ServedIs, WorldSeqs, HeadTailProperties
  <2> QED
    BY <1>1, <2>1, <2>2, TakeIs
<1>3. cl' = Tried(d, done) /\ done \in BOOLEAN
  BY <1>1
<1> HIDE DEF d
<1>4. TriesOn(d, done, cl')
  <2> HIDE DEF done
  <2> QED
    BY <1>2, <1>3, TriedIs
<1>5. ~done => cl.tries + 1 < CancelTries
  BY <1>1, TriesLeft
<1>6. ~GivesUp
  <2> SUFFICES ASSUME GivesUp PROVE FALSE
    OBVIOUS
  <2>1. ~done /\ cl'.pc = "app"
    BY <1>1 DEF GivesUp
  <2>2. ~(d.tries + 1 >= CancelTries)
    BY <1>2, <1>5, <2>1, BoundsAssumption DEF Clients
  <2>3. cl'.pc = "cancel"
    BY <1>2, <1>4, <2>1, <2>2 DEF TriesOn
  <2> QED
    BY <2>1, <2>3
<1>7. IInv'
  BY <1>6, CancelStep DEF PInv
<1>8. Patient'
  <2> SUFFICES ASSUME cl'.pc = "cancel"
               PROVE  cl'.tries + Debt(Served') <= sigs' + 1 + One(Served'.lay.strayed)
    BY DEF Patient
  <2> DEFINE m == One(Served.lay.strayed)
  <2>1. ~done /\ ~(d.tries + 1 >= CancelTries)
    BY <1>4 DEF TriesOn
  <2>2. cl'.tries = cl.tries + 1
    BY <1>2, <1>4, <2>1 DEF TriesOn
  <2>3. Debt(Served) = Debt(Served') + 1
    BY <2>1, CancelStep DEF PInv
  <2>4. /\ cl.tries \in Nat /\ Debt(Served) \in Nat
        /\ cl.tries + Debt(Served) <= sigs + 1 + m
    BY <1>1, DebtIs DEF PInv, Patient
  <2>5. Debt(Served') \in Int /\ m \in {0, 1} /\ One(Served'.lay.strayed) = m
    <3>1. Served'.lay = Served.lay
      BY ServedIs, ServedNext DEF ichan_cancel, DaemonSide
    <3>2. One(Served'.lay.strayed) \in {0, 1}
      BY DEF One
    <3>3. Debt(Served') \in 0 .. 2 + One(Served'.lay.strayed)
      BY <1>7, PrimedDebt
    <3> QED
      BY <3>1, <3>2, <3>3
  <2> HIDE DEF m
  <2> QED
    BY <1>1, <2>2, <2>3, <2>4, <2>5 DEF PInv
<1> QED
  BY <1>1, <1>6, <1>7, <1>8 DEF PInv

LEMMA PatientCancelInterrupted ==
  ASSUME PInv, CancelInterrupted, MaxSignals + 3 <= CancelTries
  PROVE  PInv' /\ ~GivesUp
<1>1. /\ cl.pc = "cancel" /\ rep = <<>> /\ sigs < MaxSignals
      /\ sigs' = sigs + 1 /\ Served' = Served /\ cl' = Tried(cl, FALSE)
      /\ cl \in Clients
  BY CancelInterruptedStep DEF CancelInterrupted, PInv, IInv
<1> DEFINE m == One(Served.lay.strayed)
<1>2. /\ cl.tries \in Nat /\ Debt(Served) \in Nat
      /\ cl.tries + Debt(Served) <= sigs + 1 + m /\ sigs \in 0 .. MaxSignals
  BY <1>1, DebtIs DEF PInv, Patient
<1>3. MaxSignals \in Nat /\ CancelTries \in Nat /\ m \in {0, 1}
  BY BoundsAssumption DEF One
<1> HIDE DEF m
<1>4. cl.tries + 1 < CancelTries
  BY <1>1, <1>2, <1>3
<1>5. cl' = [cl EXCEPT !.tries = @ + 1]
  BY <1>1, <1>2, <1>3, <1>4 DEF Tried
<1>6. cl'.pc = "cancel" /\ cl'.tries = cl.tries + 1
  BY <1>1, <1>5 DEF Clients
<1>7. ~GivesUp
  BY <1>6 DEF GivesUp
<1>8. IInv'
  BY <1>7, CancelInterruptedStep DEF PInv
<1>9. Patient'
  <2>1. Debt(Served') = Debt(Served) /\ One(Served'.lay.strayed) = m
    BY <1>1 DEF m
  <2> DEFINE e == Debt(Served)
             t == cl.tries
  <2>2. t \in Nat /\ e \in Int /\ sigs \in Int /\ t + e <= sigs + 1 + m
    BY <1>2
  <2>3. cl'.tries = t + 1 /\ Debt(Served') = e /\ sigs' = sigs + 1
    BY <1>1, <1>6, <2>1
  <2> HIDE DEF e, t
  <2>4. (t + 1) + e <= (sigs + 1) + 1 + m
    BY <1>3, <2>2
  <2>5. cl'.tries + Debt(Served') <= sigs' + 1 + One(Served'.lay.strayed)
    BY <2>1, <2>3, <2>4
  <2> QED
    BY <2>5 DEF Patient
<1>10. sigs' \in 0 .. MaxSignals
  BY <1>1, <1>2, <1>3
<1> QED
  BY <1>7, <1>8, <1>9, <1>10 DEF PInv

LEMMA ProgramNoCancel ==
  ASSUME Program, cl.pc = "cancel"
  PROVE  cl'.pc # "app"
BY DEF Program, ichan_open, OpenReply, OpenInterrupted, ichan_arm, Running,
       ichan_recv, ichan_write, ichan_ioctl, ichan_post_ioctl, ichan_wait_ioctl,
       ichan_await, ichan_close, Exit, NoClient

LEMMA PatientStep ==
  ASSUME PInv, [Next]_vars, MaxSignals + 3 <= CancelTries
  PROVE  PInv' /\ (~GivesUp \/ UNCHANGED vars)
<1>1. CASE UNCHANGED vars
  <2>1. IInv'
    BY <1>1, Stutter DEF PInv
  <2>2. Served' = Served /\ cl' = cl /\ sigs' = sigs
    BY <1>1 DEF vars, Served
  <2> QED
    BY <1>1, <2>1, <2>2 DEF PInv, Patient
<1>2. CASE InetStep
  <2>1. cl' = cl
    BY <1>2, DaemonSteady DEF PInv, Steady
  <2> QED
    BY <1>2, <2>1, PatientDaemon DEF GivesUp
<1>3. CASE Program
  <2>1. ~GivesUp
    BY <1>3, ProgramNoCancel DEF GivesUp
  <2> QED
    BY <1>3, <2>1, PatientProgram
<1>4. CASE Interrupted
  <2>1. ~GivesUp
    BY <1>4 DEF Interrupted, GivesUp
  <2> QED
    BY <1>4, <2>1, PatientInterrupted
<1>5. CASE ichan_cancel
  BY <1>5, PatientCancel
<1>6. CASE CancelInterrupted
  BY <1>6, PatientCancelInterrupted
<1> QED
  BY <1>1, <1>2, <1>3, <1>4, <1>5, <1>6, EveryStep

-----------------------------------------------------------------------------
(* The theorems.  A behaviour in which ichan_cancel() never gives up keeps the
   invariant, ... *)
THEOREM Invariance == Spec /\ [][~GivesUp]_vars => []IInv
<1>1. Init => IInv
  BY InitKeeps
<1>2. IInv /\ [Next]_vars /\ [~GivesUp]_vars => IInv'
  BY StepKeeps
<1> QED
  BY <1>1, <1>2, PTL DEF Spec

(* ... and it never gives up if it has a try for each signal that the client
   may catch, and three to spare: for the reply to what it cancels, for a READ
   that it had posted, and for the one READ more that a former channel's may
   come to.  ICHAN_CANCEL_TRIES is 64. *)
THEOREM NeverGivesUp ==
  ASSUME MaxSignals + 3 <= CancelTries
  PROVE  Spec => [](IInv /\ Patient) /\ [][~GivesUp]_vars
<1>1. Init => PInv
  <2> SUFFICES ASSUME Init PROVE PInv
    OBVIOUS
  <2>1. IInv
    BY InitKeeps
  <2>2. Patient /\ sigs \in 0 .. MaxSignals
    BY BoundsAssumption DEF Init, NoClient, Patient
  <2> QED
    BY <2>1, <2>2 DEF PInv
<1>2. PInv /\ [Next]_vars => PInv' /\ [~GivesUp]_vars
  BY PatientStep
<1>3. PInv => IInv /\ Patient
  BY DEF PInv
<1> QED
  BY <1>1, <1>2, <1>3, PTL DEF Spec

(* TypeOK *)
THEOREM TypeCorrect == Spec /\ [][~GivesUp]_vars => []TypeOK
<1>1. IInv => TypeOK
  BY DEF IInv, TypeOK, Chans, Layers, Clients, Ops
<1> QED
  BY <1>1, Invariance, PTL

(* OnlyWritesMisread: payload is taken for a request only while a WRITE is
   suspended with payload left to fetch. *)
THEOREM Misreading == Spec /\ [][~GivesUp]_vars => []OnlyWritesMisread
<1>1. IInv => OnlyWritesMisread
  BY DEF IInv, OnlyWritesMisread
<1> QED
  BY <1>1, Invariance, PTL

(* PendMatchesLayer: an NWR_CANCEL never reaches a layer for an operation that
   has finished, nor for one of a former channel. *)
THEOREM PendExact == Spec /\ [][~GivesUp]_vars => []PendMatchesLayer
<1>1. IInv => PendMatchesLayer
  BY ServedIs DEF IInv, Sound, Matched, Leftover, PendMatchesLayer
<1> QED
  BY <1>1, Invariance, PTL

LEMMA OutstandingOwed ==
  ASSUME NEW op
  PROVE  Outstanding(op) = Owed(Served, op)
BY DEF Outstanding, Asked, Answered, Owed, Asks, Tells, Holds, Served

LEMMA RepliesOne ==
  ASSUME IInv
  PROVE  OneReplyEach
<1> SUFFICES ASSUME cl.pc \in {"app", "await", "cancel"}, ch.inuse
             PROVE  OneReplyEach
  BY DEF OneReplyEach, Working
<1>1. AtWork(Served, cl) /\ Served \in Worlds
  BY DEF IInv, Attended, Sound, Fit
<1>2. Counted(Served, cl)
  BY <1>1 DEF AtWork
<1>3. /\ Outstanding("READ") - (IF cl.posted THEN 1 ELSE 0)
           \in IF lay.strayed THEN {0, 1} ELSE {0}
      /\ Outstanding("CANCEL") = IF cl.pc = "cancel" THEN 1 ELSE 0
  <2> DEFINE m == One(lay.strayed)
             z == One(cl.posted)
  <2>1. Outstanding("READ") \in z .. z + m
    BY <1>2, OutstandingOwed, ServedIs DEF Counted, Reading
  <2>2. /\ z = IF cl.posted THEN 1 ELSE 0
        /\ m = IF lay.strayed THEN 1 ELSE 0
    BY DEF One
  <2>3. Outstanding("CANCEL") = IF cl.pc = "cancel" THEN 1 ELSE 0
    BY <1>2, OutstandingOwed DEF Counted, One
  <2> HIDE DEF m, z
  <2>4. z \in {0, 1} /\ (m = 0 \/ (m = 1 /\ lay.strayed))
    BY <2>2
  <2>5. Outstanding("READ") - z \in 0 .. m
    BY <2>1, <2>4
  <2>6. 0 .. m \subseteq IF lay.strayed THEN {0, 1} ELSE {0}
    BY <2>2, <2>4
  <2> QED
    BY <2>2, <2>3, <2>5, <2>6
<1>4. Outstanding("WRITE") \in Nat /\ Outstanding("IOCTL") \in Nat
  BY <1>1, OutstandingOwed, Counts
<1>5. CASE cl.pc = "app"
  <2>1. Outstanding("WRITE") = 0 /\ Outstanding("IOCTL") = One(cl.ioposted)
    BY <1>2, <1>5, OutstandingOwed DEF Counted
  <2> QED
    BY <1>3, <1>5, <2>1 DEF OneReplyEach, One
<1>6. CASE cl.pc = "await"
  <2>1. /\ Outstanding("WRITE") = One(cl.want = "WRITE")
        /\ Outstanding("IOCTL") = One(cl.want = "IOCTL") /\ ~cl.ioposted
    BY <1>1, <1>2, <1>6, OutstandingOwed DEF Counted, AtWork
  <2> QED
    BY <1>3, <1>6, <2>1 DEF OneReplyEach, One
<1>7. CASE cl.pc = "cancel"
  <2>1. /\ Outstanding("WRITE") <= One(cl.want = "WRITE")
        /\ Outstanding("IOCTL") <= One(cl.want = "IOCTL") /\ ~cl.ioposted
    BY <1>1, <1>2, <1>7, OutstandingOwed DEF Counted, AtWork
  <2> QED
    BY <1>3, <1>4, <1>7, <2>1 DEF OneReplyEach, One
<1> QED
  BY <1>5, <1>6, <1>7

(* OneReplyEach: each request gets exactly one reply, tagged as its own,
   whatever is cancelled, refused or reset meanwhile; and a channel that has a
   former one's READ answered to it is never more than one READ ahead. *)
THEOREM OneReply == Spec /\ [][~GivesUp]_vars => []OneReplyEach
BY RepliesOne, Invariance, PTL

(* The same without a word about giving up, for a client with enough tries. *)
THEOREM EnoughTries ==
  ASSUME MaxSignals + 3 <= CancelTries
  PROVE  Spec => [](TypeOK /\ OnlyWritesMisread /\ PendMatchesLayer /\ OneReplyEach)
BY NeverGivesUp, TypeCorrect, Misreading, PendExact, OneReply, PTL

-----------------------------------------------------------------------------
(***************************************************************************)
(* StreamKept: the bytes a program reads are those the peer sent, whole    *)
(* and in order, whatever was cancelled, posted, suspended or held back on *)
(* the way.                                                                *)
(*                                                                         *)
(* The data are in four places: with the program, in the hold buffer of    *)
(* the client, in replies on the FIFO, and with the layer.  The invariant  *)
(* is that these four, in that order, are what has been sent.              *)
(***************************************************************************)
(* The data of the READs.  The replies carry it in pieces, and FlattenSeq puts
   the pieces together one by one. *)
RData(r) == IF r.rop = "READ" THEN r.data ELSE <<>>

Flat(q) == FlattenSeq([k \in 1 .. Len(q) |-> RData(q[k])])

(* g[k] is the data of the first k replies. *)
Runs(g, q, n) ==
  /\ g \in [0 .. n -> Seq(Units)] /\ g[0] = <<>>
  /\ \A k \in 1 .. n : g[k] = g[k - 1] \o RData(q[k])

LEMMA DataIs ==
  ASSUME NEW r \in Replies
  PROVE  RData(r) \in Seq(Units)
BY NoData DEF RData, Replies

LEMMA Grouped ==
  ASSUME NEW S, NEW a \in Seq(S), NEW b \in Seq(S), NEW c \in Seq(S)
  PROVE  (a \o b) \o c = a \o (b \o c)
BY ConcatAssociative

(* A sequence is what two parts of it make together. *)
LEMMA Divided ==
  ASSUME NEW S, NEW q \in Seq(S), NEW n \in 0 .. Len(q)
  PROVE  /\ SubSeq(q, 1, n) \in Seq(S) /\ Len(SubSeq(q, 1, n)) = n
         /\ SubSeq(q, n + 1, Len(q)) \in Seq(S)
         /\ Len(SubSeq(q, n + 1, Len(q))) = Len(q) - n
         /\ SubSeq(q, 1, n) \o SubSeq(q, n + 1, Len(q)) = q
<1> DEFINE k == Len(q)
           o == 1
           m == n + 1
<1>1. k \in Nat /\ \A i \in 1 .. k : q[i] \in S
  BY LenProperties, ElementOfSeq
<1>2. n \in Nat /\ n <= k /\ k = Len(q) /\ o = 1 /\ m = n + 1
  BY <1>1
<1> HIDE DEF k, o, m
<1>3. o \in Int /\ m \in Int /\ n \in Int /\ k \in Int
  BY <1>1, <1>2
<1>4. SubSeq(q, o, n) \in Seq(S) /\ Len(SubSeq(q, o, n)) = IF o <= n THEN n - o + 1 ELSE 0
  <2>1. \A i \in o .. n : q[i] \in S
    BY <1>1, <1>2
  <2> QED
    BY <1>3, <2>1, SubSeqProperties
<1>5. SubSeq(q, m, k) \in Seq(S) /\ Len(SubSeq(q, m, k)) = IF m <= k THEN k - m + 1 ELSE 0
  <2>1. \A i \in m .. k : q[i] \in S
    BY <1>1, <1>2
  <2> QED
    BY <1>3, <2>1, SubSeqProperties
<1>6. SubSeq(q, o, n) \o SubSeq(q, n + 1, k) = SubSeq(q, o, k)
  <2>1. o \in 1 .. Len(q) + 1 /\ n \in o - 1 .. Len(q) /\ k \in n .. Len(q)
    BY <1>1, <1>2
  <2> QED
    BY <2>1, ConcatAdjacentSubSeq
<1>7. SubSeq(q, 1, k) = q
  BY <1>2, SubSeqFull
<1>8. /\ (IF o <= n THEN n - o + 1 ELSE 0) = n
      /\ (IF m <= k THEN k - m + 1 ELSE 0) = k - n
  BY <1>1, <1>2
<1> QED
  BY <1>2, <1>4, <1>5, <1>6, <1>7, <1>8

LEMMA Parted ==
  ASSUME NEW S, NEW q \in Seq(S), q # <<>>
  PROVE  /\ Head(q) \in S /\ Tail(q) \in Seq(S) /\ <<Head(q)>> \o Tail(q) = q
         /\ <<Head(q)>> \in Seq(S)
<1> DEFINE x == Head(q)
           r == Tail(q)
           o == <<x>>
           z == o \o r
<1>1. /\ x \in S /\ r \in Seq(S) /\ Len(r) = Len(q) - 1 /\ Len(q) \in Nat
      /\ \A i \in 1 .. Len(r) : r[i] = q[i + 1]
  BY HeadTailProperties, LenProperties
<1>2. x = q[1] /\ Len(q) # 0
  BY EmptySeq
<1> HIDE DEF x, r
<1>3. o \in Seq(S) /\ Len(o) = 1 /\ o[1] = x
  BY <1>1
<1> HIDE DEF o
<1>4. /\ z \in Seq(S) /\ Len(z) = Len(o) + Len(r)
      /\ \A i \in 1 .. Len(o) + Len(r) :
           z[i] = IF i <= Len(o) THEN o[i] ELSE r[i - Len(o)]
  BY <1>1, <1>3, ConcatProperties
<1> HIDE DEF z
<1>5. Len(z) = Len(q)
  BY <1>1, <1>3, <1>4
<1>6. ASSUME NEW i \in 1 .. Len(z) PROVE z[i] = q[i]
  <2>1. CASE i = 1
    BY <1>1, <1>2, <1>3, <1>4, <1>6, <2>1
  <2>2. CASE i # 1
    <3>1. i - 1 \in 1 .. Len(r) /\ (i - 1) + 1 = i /\ i \in 1 .. Len(o) + Len(r)
      BY <1>1, <1>3, <1>4, <2>2
    <3>2. r[i - 1] = q[i]
      BY <1>1, <3>1
    <3>3. z[i] = r[i - 1]
      BY <1>3, <1>4, <2>2, <3>1
    <3> QED
      BY <3>2, <3>3
  <2> QED
    BY <2>1, <2>2
<1>7. z = q
  BY <1>4, <1>5, <1>6, SeqEqual
<1> QED
  BY <1>1, <1>3, <1>7 DEF z, o, x, r

LEMMA LaterIn ==
  ASSUME NEW p \in Seq(Items), NEW q \in Seq(Items), Later(p, q), NEW k \in 1 .. Len(q)
  PROVE  \E j \in 1 .. Len(p) : q[k] = p[j]
<1> DEFINE m == Len(p)
           n == Len(q)
<1>1. m \in Nat /\ n \in Nat /\ n <= m /\ k \in 1 .. n
  BY LenProperties DEF Later
<1> HIDE DEF m, n
<1>2. m - n + k \in 1 .. m
  BY <1>1
<1> QED
  BY <1>2 DEF m, n, Later

LEMMA RunsOne ==
  ASSUME NEW q \in Seq(Replies)
  PROVE  \E g : Runs(g, q, Len(q))
<1> DEFINE S == Seq(Units)
           D == [k \in Nat |-> IF k \in 1 .. Len(q) THEN RData(q[k]) ELSE <<>>]
           h == [x \in Nat \X S |-> x[2] \o D[x[1]]]
           a == <<>>
           n == Len(q)
<1>1. n \in Nat /\ \A k \in 1 .. n : q[k] \in Replies
  BY LenProperties, ElementOfSeq
<1>2. \A k \in Nat : D[k] \in S
  BY <1>1, DataIs, NoData
<1>3. \A k \in 1 .. n : D[k] = RData(q[k])
  BY <1>1
<1>4. a \in S
  BY NoData
<1> HIDE DEF D
<1>5. ASSUME NEW x \in Nat \X S PROVE x[2] \o D[x[1]] \in S
  <2>1. x[1] \in Nat /\ x[2] \in S
    OBVIOUS
  <2>2. D[x[1]] \in S
    BY <1>2, <2>1
  <2> QED
    BY <2>1, <2>2, ConcatProperties
<1>6. h \in Steps(S)
  BY <1>5 DEF Steps
<1>7. \A k \in Nat, v \in S : h[<<k, v>>] = v \o D[k]
  OBVIOUS
<1> HIDE DEF h, a, n
<1>8. PICK g \in [0 .. n -> S] : Recurs(g, a, h, n)
  <2> HIDE DEF S
  <2> QED
    BY <1>1, <1>4, <1>6, Recursion
<1>9. \A k \in 1 .. n : g[k] = g[k - 1] \o RData(q[k])
  <2> SUFFICES ASSUME NEW k \in 1 .. n PROVE g[k] = g[k - 1] \o RData(q[k])
    OBVIOUS
  <2>1. g[k] = h[<<k, g[k - 1]>>]
    BY <1>8 DEF Recurs
  <2>2. k \in Nat /\ k - 1 \in 0 .. n
    BY <1>1
  <2>3. g[k - 1] \in S
    BY <2>2
  <2>4. h[<<k, g[k - 1]>>] = g[k - 1] \o D[k]
    BY <1>7, <2>2, <2>3
  <2> QED
    BY <1>3, <2>1, <2>4
<1>10. Runs(g, q, n)
  BY <1>8, <1>9 DEF Runs, Recurs, a
<1> QED
  BY <1>10 DEF n

(* There is one such function, whatever comes after the first replies. *)
Agree(q, p, n) == \A k \in 1 .. n : q[k] = p[k]

LEMMA RunsAgree ==
  ASSUME NEW q, NEW p, NEW m \in Nat, NEW n \in Nat, m <= n, Agree(q, p, m),
         NEW g, NEW h, Runs(g, q, m), Runs(h, p, n)
  PROVE  \A k \in 0 .. m : g[k] = h[k]
<1> DEFINE T == {k \in Nat : k <= m => g[k] = h[k]}
<1>1. 0 \in T
  BY DEF Runs
<1>2. ASSUME NEW k \in T PROVE k + 1 \in T
  <2> SUFFICES ASSUME k + 1 <= m PROVE g[k + 1] = h[k + 1]
    OBVIOUS
  <2>1. /\ k + 1 \in 1 .. m /\ k + 1 \in 1 .. n /\ (k + 1) - 1 = k
        /\ g[k] = h[k]
    OBVIOUS
  <2>2. g[k + 1] = g[k] \o RData(q[k + 1]) /\ h[k + 1] = h[k] \o RData(p[k + 1])
    BY <2>1 DEF Runs
  <2> QED
    BY <2>1, <2>2 DEF Agree
<1>3. T \in SUBSET Nat
  OBVIOUS
<1> HIDE DEF T
<1>4. T = Nat
  BY <1>1, <1>2, <1>3, NatInd
<1> QED
  BY <1>4 DEF T

(* FlattenSeq computes it. *)
LEMMA FlatRuns ==
  ASSUME NEW q \in Seq(Replies), NEW g, Runs(g, q, Len(q))
  PROVE  Flat(q) = g[Len(q)] /\ Flat(q) \in Seq(Units)
<1> DEFINE n == Len(q)
           s == [k \in 1 .. n |-> RData(q[k])]
<1>1. n \in Nat /\ \A k \in 1 .. n : q[k] \in Replies
  BY LenProperties, ElementOfSeq
<1>2. Len(s) = n /\ \A k \in 1 .. n : s[k] = RData(q[k])
  BY <1>1
<1>3. g[n] \in Seq(Units) /\ g[0] = <<>>
  BY <1>1 DEF Runs
<1>4. CASE n = 0
  <2>1. s = <<>>
    BY <1>4
  <2>2. Flat(q) = s
    BY <1>2, <1>4 DEF Flat, FlattenSeq
  <2> QED
    BY <1>3, <1>4, <2>1, <2>2
<1>5. CASE n # 0
  <2> DEFINE F(f) == [i \in 1 .. n |-> IF i = 1 THEN s[i] ELSE f[i - 1] \o s[i]]
             e == [i \in 1 .. n |-> g[i]]
             c == CHOOSE f : f = F(f)
  <2> HIDE DEF s
  <2>1. e = F(e)
    <3>1. ASSUME NEW i \in 1 .. n
          PROVE  g[i] = IF i = 1 THEN s[i] ELSE e[i - 1] \o s[i]
      <4>1. g[i] = g[i - 1] \o s[i] /\ s[i] \in Seq(Units)
        BY <1>1, <1>2, DataIs DEF Runs
      <4>2. CASE i = 1
        <5>1. g[i - 1] = <<>>
          BY <1>3, <4>2
        <5>2. <<>> \o s[i] = s[i]
          BY <4>1, ConcatEmptySeq
        <5> QED
          BY <4>1, <4>2, <5>1, <5>2
      <4>3. CASE i # 1
        <5>1. i - 1 \in 1 .. n
          BY <1>1, <4>3
        <5> QED
          BY <4>1, <4>3, <5>1
      <4> QED
        BY <4>2, <4>3
    <3> QED
      BY <3>1
  <2>2. c = F(c)
    BY <2>1
  <2>3. Flat(q) = c[n]
    BY <1>2, <1>5 DEF Flat, FlattenSeq, s
  <2> HIDE DEF c
  <2> DEFINE T == {k \in Nat : k \in 1 .. n => c[k] = g[k]}
  <2>4. 0 \in T
    OBVIOUS
  <2>5. ASSUME NEW k \in T PROVE k + 1 \in T
    <3> SUFFICES ASSUME k + 1 \in 1 .. n PROVE c[k + 1] = g[k + 1]
      OBVIOUS
    <3>1. c[k + 1] = IF k + 1 = 1 THEN s[k + 1] ELSE c[(k + 1) - 1] \o s[k + 1]
      BY <2>2
    <3>2. e[k + 1] = IF k + 1 = 1 THEN s[k + 1] ELSE e[(k + 1) - 1] \o s[k + 1]
      BY <2>1
    <3>3. k + 1 = 1 \/ ((k + 1) - 1 = k /\ k \in 1 .. n /\ c[k] = e[k])
      OBVIOUS
    <3> QED
      BY <3>1, <3>2, <3>3
  <2>6. T \in SUBSET Nat
    OBVIOUS
  <2> HIDE DEF T
  <2>7. T = Nat
    BY <2>4, <2>5, <2>6, NatInd
  <2>8. c[n] = g[n]
    BY <1>1, <1>5, <2>7 DEF T
  <2> QED
    BY <1>3, <2>3, <2>8
<1> QED
  BY <1>4, <1>5

LEMMA FlatType ==
  ASSUME NEW q \in Seq(Replies)
  PROVE  Flat(q) \in Seq(Units)
BY RunsOne, FlatRuns

LEMMA FlatEmpty == Flat(<<>>) = <<>>
<1> DEFINE q == <<>>
<1>1. q \in Seq(Replies) /\ Len(q) = 0
  BY EmptySeq
<1> HIDE DEF q
<1>2. PICK g : Runs(g, q, Len(q))
  BY <1>1, RunsOne
<1>3. Flat(q) = g[0] /\ g[0] = <<>>
  BY <1>1, <1>2, FlatRuns DEF Runs
<1> QED
  BY <1>3 DEF q

(* A reply put behind the others, ... *)
LEMMA FlatAppend ==
  ASSUME NEW q \in Seq(Replies), NEW r \in Replies
  PROVE  Flat(Append(q, r)) = Flat(q) \o RData(r)
<1> DEFINE p == Append(q, r)
           n == Len(q)
<1>1. n \in Nat
  BY LenProperties
<1>2. /\ p \in Seq(Replies) /\ Len(p) = n + 1
      /\ \A k \in 1 .. n : p[k] = q[k]
      /\ p[n + 1] = r
  BY AppendProperties
<1> HIDE DEF p
<1>3. PICK g : Runs(g, q, Len(q))
  BY RunsOne
<1>4. PICK h : Runs(h, p, Len(p))
  BY <1>2, RunsOne
<1>5. Flat(q) = g[n] /\ Flat(p) = h[n + 1]
  BY <1>2, <1>3, <1>4, FlatRuns
<1>6. g[n] = h[n]
  <2> HIDE DEF n
  <2>1. Runs(g, q, n) /\ Runs(h, p, n + 1) /\ n <= n + 1 /\ n + 1 \in Nat
    BY <1>1, <1>2, <1>3, <1>4 DEF n
  <2>2. Agree(q, p, n)
    BY <1>2 DEF Agree
  <2>3. \A k \in 0 .. n : g[k] = h[k]
    <3> DEFINE m == n + 1
    <3>1. m \in Nat /\ n <= m /\ Runs(g, q, n) /\ Runs(h, p, m)
      BY <2>1
    <3> HIDE DEF m
    <3> QED
      BY <1>1, <2>2, <3>1, RunsAgree
  <2> QED
    BY <1>1, <2>3
<1>7. h[n + 1] = h[n] \o RData(p[n + 1])
  <2>1. n + 1 \in 1 .. Len(p) /\ (n + 1) - 1 = n
    BY <1>1, <1>2
  <2> QED
    BY <1>4, <2>1 DEF Runs
<1> QED
  BY <1>2, <1>5, <1>6, <1>7 DEF p

(* ... and the first one taken off. *)
LEMMA FlatTail ==
  ASSUME NEW q \in Seq(Replies), q # <<>>
  PROVE  Flat(q) = RData(Head(q)) \o Flat(Tail(q))
<1> DEFINE p == Tail(q)
           r == Head(q)
           m == Len(p)
<1>1. /\ p \in Seq(Replies) /\ r \in Replies /\ r = q[1]
      /\ Len(p) = Len(q) - 1 /\ Len(q) \in Nat
      /\ \A k \in 1 .. Len(p) : p[k] = q[k + 1]
  BY HeadTailProperties, LenProperties
<1>2. m \in Nat /\ Len(q) = m + 1
  BY <1>1, LenProperties
<1>3. RData(r) \in Seq(Units)
  BY <1>1, DataIs
<1>4. \A k \in 1 .. m : RData(p[k]) \in Seq(Units) /\ p[k] = q[k + 1]
  BY <1>1, DataIs, ElementOfSeq
<1> HIDE DEF p, r
<1>5. PICK g : Runs(g, p, m)
  BY <1>1, RunsOne
<1>6. PICK h : Runs(h, q, Len(q))
  BY RunsOne
<1>7. Flat(p) = g[m] /\ Flat(q) = h[m + 1]
  BY <1>1, <1>2, <1>5, <1>6, FlatRuns
<1> HIDE DEF m
<1>8. /\ g[0] = <<>> /\ h[0] = <<>> /\ \A k \in 0 .. m : g[k] \in Seq(Units)
      /\ \A k \in 1 .. m : g[k] = g[k - 1] \o RData(p[k])
      /\ \A k \in 1 .. m + 1 : h[k] = h[k - 1] \o RData(q[k])
  BY <1>2, <1>5, <1>6 DEF Runs
<1> DEFINE T == {k \in Nat : k <= m => h[k + 1] = RData(r) \o g[k]}
<1>9. 0 \in T
  <2>1. h[1] = h[0] \o RData(r)
    <3>1. 1 \in 1 .. m + 1 /\ 1 - 1 = 0
      BY <1>2
    <3> QED
      BY <1>1, <1>8, <3>1
  <2>2. <<>> \o RData(r) = RData(r) /\ RData(r) \o <<>> = RData(r)
    BY <1>3, ConcatEmptySeq
  <2>3. h[0 + 1] = RData(r) \o g[0]
    BY <1>8, <2>1, <2>2
  <2> QED
    BY <2>3
<1>10. ASSUME NEW k \in T PROVE k + 1 \in T
  <2> SUFFICES ASSUME k + 1 <= m PROVE h[(k + 1) + 1] = RData(r) \o g[k + 1]
    OBVIOUS
  <2>1. /\ k \in Nat /\ k \in 0 .. m /\ k + 1 \in 1 .. m
        /\ (k + 1) + 1 \in 1 .. m + 1 /\ ((k + 1) + 1) - 1 = k + 1
        /\ (k + 1) - 1 = k /\ h[k + 1] = RData(r) \o g[k]
    BY <1>2
  <2>2. /\ h[(k + 1) + 1] = h[k + 1] \o RData(q[(k + 1) + 1])
        /\ g[k + 1] = g[k] \o RData(p[k + 1])
    BY <1>8, <2>1
  <2>3. p[k + 1] = q[(k + 1) + 1] /\ RData(p[k + 1]) \in Seq(Units)
    BY <1>4, <2>1
  <2>4. g[k] \in Seq(Units)
    BY <1>8, <2>1
  <2>5. (RData(r) \o g[k]) \o RData(p[k + 1]) = RData(r) \o (g[k] \o RData(p[k + 1]))
    <3> DEFINE x == RData(r)
               y == g[k]
               z == RData(p[k + 1])
    <3>1. x \in Seq(Units) /\ y \in Seq(Units) /\ z \in Seq(Units)
      BY <1>3, <2>3, <2>4
    <3> HIDE DEF x, y, z
    <3>2. (x \o y) \o z = x \o (y \o z)
      BY <3>1, Grouped
    <3> QED
      BY <3>2 DEF x, y, z
  <2> QED
    BY <2>1, <2>2, <2>3, <2>5
<1>11. T \in SUBSET Nat
  OBVIOUS
<1> HIDE DEF T
<1>12. T = Nat
  BY <1>9, <1>10, <1>11, NatInd
<1>13. h[m + 1] = RData(r) \o g[m]
  <2>1. m \in T /\ m <= m
    BY <1>2, <1>12
  <2> QED
    BY <2>1, Zenon DEF T
<1> QED
  BY <1>7, <1>13 DEF p, r

-----------------------------------------------------------------------------
(* The stream, as the record s of the daemon's state has it.  The client has
   p of it, in the program's hands and in its own, and room for b units more:
   no READ asks for more than that, and no reply carries more. *)
UpTo(n) == [k \in 1 .. n |-> k]

Roomy(s, b) ==
  /\ \A k \in 1 .. Len(s.req) : s.req[k].op = "READ" => s.req[k].count <= b
  /\ s.lay.rd <= b
  /\ \A k \in 1 .. Len(s.rep) : s.rep[k].rop = "READ" => Len(s.rep[k].data) <= b

Onward(s) == Flat(s.rep) \o s.lay.rcvd

Whole(s, p) == p \o Onward(s) = UpTo(s.lay.seq)

(* Nothing comes before there is a connection, and there is one connection. *)
Joined(s) ==
  /\ s.lay.conn = "no" => s.lay.seq = 0
  /\ s.lay.io => s.lay.conn = "no"
  /\ ~s.ch.open => s.lay.conn = "no"
  /\ s.ch.open /\ s.lay.dev # "tcp" => s.lay.conn = "yes"

Flow(s, p, b) ==
  /\ s.lay.conn # "dead" => Whole(s, p)
  /\ Joined(s)
  /\ Roomy(s, b)

(* A step that leaves the connection alone. *)
Along(s, t) ==
  /\ t.ch.open = s.ch.open
  /\ t.lay.dev = s.lay.dev /\ t.lay.conn = s.lay.conn /\ t.lay.seq = s.lay.seq
  /\ t.lay.io => s.lay.io \/ s.lay.conn = "no"

LEMMA FlowMoves ==
  ASSUME NEW s, NEW t, NEW p, NEW b, Flow(s, p, b), Along(s, t),
         Onward(t) = Onward(s), Roomy(t, b)
  PROVE  Flow(t, p, b)
<1>1. Joined(t)
  BY DEF Flow, Along, Joined
<1>2. t.lay.conn # "dead" => Whole(t, p)
  BY DEF Flow, Along, Whole
<1> QED
  BY <1>1, <1>2 DEF Flow

(* Nothing but the layer has changed, and no data in it. *)
LEMMA FlowRelaid ==
  ASSUME NEW s, NEW t, NEW p, NEW b, Flow(s, p, b), Along(s, t),
         t.req = s.req, t.rep = s.rep, t.lay.rcvd = s.lay.rcvd, t.lay.rd <= b
  PROVE  Flow(t, p, b)
<1>1. Onward(t) = Onward(s)
  BY DEF Onward
<1>2. Roomy(t, b)
  BY DEF Roomy, Flow
<1> QED
  BY <1>1, <1>2, FlowMoves

(* Requests taken off the FIFO ask for no more than before. *)
LEMMA RoomLater ==
  ASSUME NEW s \in Worlds, NEW t \in Worlds, NEW b, Roomy(s, b), Later(s.req, t.req),
         NEW k \in 1 .. Len(t.req), t.req[k].op = "READ"
  PROVE  t.req[k].count <= b
<1>1. \E j \in 1 .. Len(s.req) : t.req[k] = s.req[j]
  <2>1. s.req \in Seq(Items) /\ t.req \in Seq(Items)
    BY WorldSeqs
  <2> QED
    BY <2>1, LaterIn
<1> QED
  BY <1>1 DEF Roomy

LEMMA FlowDropped ==
  ASSUME NEW s \in Worlds, NEW t \in Worlds, NEW p, NEW b, Flow(s, p, b),
         Later(s.req, t.req), t.rep = s.rep, t.lay = s.lay, t.ch.open = s.ch.open
  PROVE  Flow(t, p, b)
<1>1. Onward(t) = Onward(s) /\ Along(s, t)
  BY DEF Onward, Along
<1>2. Roomy(t, b)
  BY RoomLater DEF Flow, Roomy
<1> QED
  BY <1>1, <1>2, FlowMoves

(* A reply has been put behind the others, with some of what the layer had. *)
Spoke(s, t, r) ==
  /\ Later(s.req, t.req) /\ t.rep = Append(s.rep, r)

Carries(s, t, r) ==
  /\ Along(s, t) /\ t.lay.rd <= s.lay.rd
  /\ RData(r) \o t.lay.rcvd = s.lay.rcvd
  /\ r.rop = "READ" => Len(r.data) <= s.lay.rd

LEMMA FlowSpoke ==
  ASSUME NEW s \in Worlds, NEW t \in Worlds, NEW r \in Replies, Spoke(s, t, r),
         NEW p, NEW b \in Nat, Flow(s, p, b), Carries(s, t, r)
  PROVE  Flow(t, p, b)
<1>1. /\ s.rep \in Seq(Replies) /\ t.rep = Append(s.rep, r)
      /\ s.lay \in Layers /\ t.lay \in Layers
  BY WorldSeqs DEF Spoke
<1>2. s.lay.rcvd \in Seq(Units) /\ t.lay.rcvd \in Seq(Units)
  BY <1>1, UnitSeq DEF Layers
<1>3. Onward(t) = Onward(s)
  <2>1. Flat(t.rep) = Flat(s.rep) \o RData(r)
    BY <1>1, FlatAppend
  <2> DEFINE x == Flat(s.rep)
             y == RData(r)
             z == t.lay.rcvd
  <2>2. x \in Seq(Units) /\ y \in Seq(Units) /\ z \in Seq(Units)
    BY <1>1, <1>2, FlatType, DataIs
  <2>3. Flat(t.rep) = x \o y /\ y \o z = s.lay.rcvd
    BY <2>1 DEF Carries
  <2> HIDE DEF x, y, z
  <2>4. (x \o y) \o z = x \o (y \o z)
    BY <2>2, Grouped
  <2> QED
    BY <2>3, <2>4 DEF x, z, Onward
<1>4. s.lay.rd \in Nat /\ t.lay.rd \in Nat /\ s.lay.rd <= b /\ t.lay.rd <= s.lay.rd
  BY <1>1 DEF Layers, Flow, Roomy, Carries
<1>5. ASSUME NEW k \in 1 .. Len(t.rep), t.rep[k].rop = "READ"
      PROVE  Len(t.rep[k].data) <= b
  <2>1. /\ Len(s.rep) \in Nat /\ Len(t.rep) = Len(s.rep) + 1
        /\ \A j \in 1 .. Len(s.rep) : t.rep[j] = s.rep[j]
        /\ t.rep[Len(s.rep) + 1] = r
    BY <1>1, AppendProperties, LenProperties
  <2>2. CASE k \in 1 .. Len(s.rep)
    BY <1>5, <2>1, <2>2 DEF Flow, Roomy
  <2>3. CASE k = Len(s.rep) + 1
    <3>1. r.rop = "READ" /\ t.rep[k] = r /\ Len(r.data) <= s.lay.rd
      BY <1>5, <2>1, <2>3 DEF Carries
    <3>2. Len(r.data) \in Nat
      BY LenProperties DEF Replies
    <3> QED
      BY <1>4, <3>1, <3>2
  <2> QED
    BY <2>1, <2>2, <2>3
<1>6. Later(s.req, t.req) /\ Roomy(s, b)
  BY DEF Spoke, Flow
<1>7. \A k \in 1 .. Len(t.req) : t.req[k].op = "READ" => t.req[k].count <= b
  BY <1>6, RoomLater
<1>8. Roomy(t, b)
  BY <1>4, <1>5, <1>7 DEF Roomy
<1> QED
  BY <1>3, <1>8, FlowMoves DEF Carries

(* A reply without data. *)
LEMMA FlowBare ==
  ASSUME NEW s \in Worlds, NEW t \in Worlds, t.lay = s.lay, t.ch.open = s.ch.open,
         NEW r \in Replies, r.rop # "READ" \/ r.data = <<>>, Spoke(s, t, r),
         NEW p, NEW b \in Nat, Flow(s, p, b)
  PROVE  Flow(t, p, b)
<1>1. s.lay \in Layers /\ s.lay.rd \in Nat /\ s.lay.rcvd \in Seq(1 .. MaxData)
  BY WorldSeqs DEF Layers
<1>2. RData(r) = <<>> /\ <<>> \o s.lay.rcvd = s.lay.rcvd
  BY <1>1, ConcatEmptySeq DEF RData
<1>3. r.rop = "READ" => Len(r.data) <= s.lay.rd
  BY <1>1, EmptySeq
<1>4. Carries(s, t, r)
  BY <1>1, <1>2, <1>3 DEF Carries, Along
<1> QED
  BY <1>4, FlowSpoke

-----------------------------------------------------------------------------
(* The daemon's replies. *)
LEMMA ToldSpoke ==
  ASSUME NEW s, Fit(s), NEW t \in Worlds, NEW r \in Replies, Told(s, t, r)
  PROVE  Spoke(s, t, r) /\ t.ch.open = s.ch.open
BY ToldFit DEF Spoke, Told, Passes

LEMMA CompleteFlow ==
  ASSUME NEW s, Fit(s), NEW status \in Int, NEW rop \in Ops,
         NEW p, NEW b \in Nat, Flow(s, p, b)
  PROVE  Flow(Complete(s, status, rop), p, b)
<1> DEFINE t == Complete(s, status, rop)
           r == Reply(rop, status, <<>>)
<1>1. /\ t \in Worlds /\ t.lay = s.lay /\ Told(s, t, r) /\ s \in Worlds
  BY CompleteTold DEF Fit
<1>2. r \in Replies /\ r.data = <<>>
  BY ReplyIs, NoData DEF Reply
<1> HIDE DEF t, r
<1>3. Spoke(s, t, r) /\ t.ch.open = s.ch.open
  BY <1>1, <1>2, ToldSpoke
<1>4. Flow(t, p, b)
  BY <1>1, <1>2, <1>3, FlowBare
<1> QED
  BY <1>4 DEF t

LEMMA RepliesFlow ==
  ASSUME NEW s, Fit(s), NEW status \in Int, NEW p, NEW b \in Nat, Flow(s, p, b)
  PROVE  /\ Flow(get_reply(s, status, FALSE), p, b)
         /\ Flow(get_reply(s, status, TRUE), p, b)
         /\ Flow(put_reply(s, status, FALSE), p, b)
<1>1. "READ" \in Ops /\ "WRITE" \in Ops /\ "IOCTL" \in Ops
  BY DEF Ops, Suspendable
<1>2. /\ get_reply(s, status, FALSE) = Complete(s, status, "WRITE")
      /\ get_reply(s, status, TRUE) = Complete(s, status, "IOCTL")
      /\ put_reply(s, status, FALSE) = Complete(s, status, "READ")
  BY DEF get_reply, put_reply, sr_whichop
<1>3. Flow(Complete(s, status, "WRITE"), p, b)
  BY <1>1, CompleteFlow
<1>4. Flow(Complete(s, status, "IOCTL"), p, b)
  BY <1>1, CompleteFlow
<1>5. Flow(Complete(s, status, "READ"), p, b)
  BY <1>1, CompleteFlow
<1> QED
  BY <1>2, <1>3, <1>4, <1>5

LEMMA FailFlow ==
  ASSUME NEW s, Fit(s), NEW p, NEW b \in Nat, Flow(s, p, b)
  PROVE  /\ Flow(get_reply(s, -1, FALSE), p, b)
         /\ Flow(get_reply(s, -1, TRUE), p, b)
         /\ Flow(put_reply(s, -1, FALSE), p, b)
<1> DEFINE z == -1
<1>1. z \in Int
  OBVIOUS
<1> HIDE DEF z
<1>2. /\ Flow(get_reply(s, z, FALSE), p, b)
      /\ Flow(get_reply(s, z, TRUE), p, b)
      /\ Flow(put_reply(s, z, FALSE), p, b)
  BY <1>1, RepliesFlow
<1> QED
  BY <1>2 DEF z

LEMMA ReplyFlow ==
  ASSUME NEW s, Fit(s), NEW status \in Int, NEW p, NEW b \in Nat, Flow(s, p, b)
  PROVE  Flow(sr_reply(s, status), p, b)
<1> DEFINE rop == s.ch.curop
           t == sr_send_reply(s, status, rop)
           r == Reply(rop, status, <<>>)
<1>1. /\ rop \in Ops /\ sr_reply(s, status) = t /\ s \in Worlds
      /\ s.ch \in Chans
  BY DEF Fit, Worlds, Chans, sr_reply
<1> HIDE DEF rop
<1>2. /\ t \in Worlds
      /\ t.req = Rest(s.req, s.ch.avail)
      /\ t.rep = Append(s.rep, r)
      /\ t.lay = s.lay
      /\ t.ch = [s.ch EXCEPT !.avail = 0, !.replied = TRUE]
  BY <1>1, SendReplyIs
<1>3. r \in Replies /\ r.data = <<>>
  BY <1>1, ReplyIs, NoData DEF Reply
<1>7. sr_reply(s, status) = t
  BY <1>1
<1> HIDE DEF t, r
<1>4. t.ch.open = s.ch.open
  BY <1>1, <1>2 DEF Chans
<1>5. Later(s.req, t.req)
  <2>1. s.req \in Seq(Items) /\ s.ch.avail \in Nat /\ Lead(s.req, s.ch.avail)
    BY DEF Fit, Worlds, Chans
  <2>2. s.ch.avail \in 0 .. Len(s.req)
    BY <2>1, LeadRest
  <2> QED
    BY <1>2, <2>1, <2>2, RestIs
<1>6. Flow(t, p, b)
  BY <1>1, <1>2, <1>3, <1>4, <1>5, FlowBare DEF Spoke
<1> QED
  BY <1>6, <1>7

(* The data of a READ. *)
LEMMA PutFlow ==
  ASSUME NEW s, Fit(s), NEW u, Relaid(s, u), Along(s, u), u.lay.rd = 0,
         NEW data \in Seq(Units), data \o u.lay.rcvd = s.lay.rcvd,
         Len(data) <= s.lay.rd, NEW status \in Int,
         NEW p, NEW b \in Nat, Flow(s, p, b)
  PROVE  Flow(put_reply(sr_put_userdata(u, data, FALSE), status, FALSE), p, b)
<1> DEFINE t == put_reply(sr_put_userdata(u, data, FALSE), status, FALSE)
           r == Reply("READ", Len(data), data)
<1>1. Fit(u) /\ s \in Worlds /\ s.lay \in Layers
  BY RelaidFit, WorldSeqs DEF Fit
<1>2. "READ" \in Ops /\ "READ" = sr_whichop(u, FALSE, TRUE)
  BY DEF Ops, Suspendable, sr_whichop
<1>3. t \in Worlds /\ t.lay = u.lay /\ Told(u, t, r)
  BY <1>1, <1>2, PutTold
<1>4. r \in Replies /\ r.rop = "READ" /\ r.data = data
  <2>1. Len(data) \in Int
    BY LenProperties
  <2> QED
    BY <1>2, <2>1 DEF Reply, Replies
<1> HIDE DEF t, r
<1>5. Told(s, t, r)
  BY <1>3, ToldAcross
<1>6. Spoke(s, t, r) /\ t.ch.open = s.ch.open
  BY <1>1, <1>3, <1>4, <1>5, ToldSpoke
<1>7. Along(s, t)
  BY <1>3, <1>6 DEF Along
<1>8. t.lay.rd <= s.lay.rd
  BY <1>1, <1>3 DEF Layers
<1>9. Carries(s, t, r)
  BY <1>3, <1>4, <1>7, <1>8 DEF Carries, RData
<1>10. Flow(t, p, b)
  BY <1>1, <1>3, <1>4, <1>6, <1>9, FlowSpoke
<1> QED
  BY <1>10 DEF t

(* The data of an ioctl. *)
LEMMA ConfFlow ==
  ASSUME NEW s, Fit(s), NEW p, NEW b \in Nat, Flow(s, p, b)
  PROVE  Flow(put_reply(sr_put_userdata(s, <<"conf">>, TRUE), 0, TRUE), p, b)
<1> DEFINE data == <<"conf">>
           z == 0
           t == put_reply(sr_put_userdata(s, data, TRUE), z, TRUE)
           r == Reply("IOCTL", Len(data), data)
<1>1. data \in Seq(Units) /\ Len(data) \in Int /\ z \in Int /\ s \in Worlds
  BY DEF Units, Fit
<1>2. "IOCTL" \in Ops /\ "IOCTL" = sr_whichop(s, TRUE, TRUE)
  BY DEF Ops, Suspendable, sr_whichop
<1> HIDE DEF data, z
<1>3. t \in Worlds /\ t.lay = s.lay /\ Told(s, t, r)
  BY <1>1, <1>2, PutTold
<1>4. r \in Replies /\ r.rop # "READ"
  BY <1>1, <1>2 DEF Reply, Replies
<1> HIDE DEF t, r
<1>5. Spoke(s, t, r) /\ t.ch.open = s.ch.open
  BY <1>3, <1>4, ToldSpoke
<1>6. Flow(t, p, b)
  BY <1>1, <1>3, <1>4, <1>5, FlowBare
<1> QED
  BY <1>6 DEF t, data, z

-----------------------------------------------------------------------------
(* The layer: a READ is answered with the first units there are. *)
LEMMA FdReadFlow ==
  ASSUME NEW s, Fit(s), NEW p, NEW b \in Nat, Flow(s, p, b)
  PROVE  Flow(tcp_fd_read(s), p, b)
<1> DEFINE l == s.lay
           n == IF l.rd < Len(l.rcvd) THEN l.rd ELSE Len(l.rcvd)
           rest == SubSeq(l.rcvd, n + 1, Len(l.rcvd))
           data == SubSeq(l.rcvd, 1, n)
           m == [l EXCEPT !.rd = 0, !.rcvd = rest,
                          !.push = l.push /\ rest # <<>>]
           done == [s EXCEPT !.lay = m]
           m0 == [l EXCEPT !.rd = 0]
           over == [s EXCEPT !.lay = m0]
<1>1. s \in Worlds /\ l \in Layers
  BY DEF Fit, Worlds
<1>2. l.rcvd \in Seq(1 .. MaxData) /\ l.rd \in Nat /\ l.push \in BOOLEAN
  BY <1>1 DEF Layers
<1>3. Len(l.rcvd) \in Nat
  BY <1>2, LenProperties
<1>4. n \in 0 .. Len(l.rcvd) /\ n <= l.rd /\ n \in Int
  BY <1>2, <1>3
<1> HIDE DEF n
<1>5. /\ rest \in Seq(1 .. MaxData) /\ data \in Seq(1 .. MaxData) /\ Len(data) = n
      /\ data \o rest = l.rcvd
  BY <1>2, <1>4, Divided
<1>7. data \in Seq(Units)
  BY <1>5, UnitSeq
<1> HIDE DEF rest, data
<1>8. /\ m \in Layers /\ m.rd = 0 /\ m.rcvd = rest
      /\ m.dev = l.dev /\ m.conn = l.conn /\ m.seq = l.seq /\ m.io = l.io
      /\ m0 \in Layers /\ m0.rd = 0 /\ m0.rcvd = l.rcvd
      /\ m0.dev = l.dev /\ m0.conn = l.conn /\ m0.seq = l.seq /\ m0.io = l.io
  <2>1. (l.push /\ rest # <<>>) \in BOOLEAN
    OBVIOUS
  <2>2. 0 \in 0 .. ICHAN_HOLD
    BY HoldAssumption
  <2>3. m \in Layers /\ m0 \in Layers
    BY <1>1, <1>2, <1>5, <2>1, <2>2 DEF Layers
  <2> QED
    BY <1>1, <2>3 DEF Layers
<1>9. tcp_fd_read(s)
        = IF l.rd = 0 THEN s
          ELSE IF n > 0 /\ (n = l.rd \/ l.push \/ l.fin)
               THEN put_reply(sr_put_userdata(done, data, FALSE), n, FALSE)
          ELSE IF n = 0 /\ l.fin THEN put_reply(over, 0, FALSE)
          ELSE s
  <2>1. /\ done = [s EXCEPT !.lay.rd = 0, !.lay.rcvd = rest,
                            !.lay.push = l.push /\ rest # <<>>]
        /\ over = [s EXCEPT !.lay.rd = 0]
    BY <1>1 DEF Worlds, Layers
  <2> HIDE DEF done, over, m, m0
  <2> QED
    BY <2>1 DEF tcp_fd_read, n, rest, data
<1> HIDE DEF m, m0
<1>10. /\ Relaid(s, done) /\ done.lay = m
       /\ Relaid(s, over) /\ over.lay = m0
  BY <1>1, <1>8, Relay
<1> HIDE DEF done, over
<1>11. Along(s, done) /\ Along(s, over)
  BY <1>8, <1>10 DEF Along, Relaid
<1>12. Flow(put_reply(sr_put_userdata(done, data, FALSE), n, FALSE), p, b)
  <2>1. /\ done.lay.rd = 0 /\ data \o done.lay.rcvd = s.lay.rcvd
        /\ Len(data) <= s.lay.rd
    BY <1>4, <1>5, <1>8, <1>10
  <2> QED
    BY <1>4, <1>7, <1>10, <1>11, <2>1, PutFlow
<1>13. Flow(put_reply(over, 0, FALSE), p, b)
  <2> DEFINE z == 0
  <2>1. z \in Int
    OBVIOUS
  <2>2. Fit(over)
    BY <1>10, RelaidFit
  <2>3. Flow(over, p, b)
    <3>1. over.lay.rd <= b /\ over.lay.rcvd = s.lay.rcvd
      BY <1>8, <1>10
    <3> QED
      BY <1>10, <1>11, <3>1, FlowRelaid DEF Relaid
  <2> HIDE DEF z
  <2>4. Flow(put_reply(over, z, FALSE), p, b)
    BY <2>1, <2>2, <2>3, RepliesFlow
  <2> QED
    BY <2>4 DEF z
<1> QED
  BY <1>9, <1>12, <1>13, Zenon

(* A packet answers the READ it was waited for with. *)
LEMMA PsipSendFlow ==
  ASSUME NEW s, Fit(s), NEW p, NEW b \in Nat, Flow(s, p, b),
         ~psip_send(s).lay.strayed
  PROVE  Flow(psip_send(s), p, b)
<1> DEFINE l == s.lay
           m == [l EXCEPT !.rd = 0, !.stale = 0, !.rcvd = Tail(@),
                          !.strayed = @ \/ l.rd = 0]
           done == [s EXCEPT !.lay = m]
           data == <<Head(l.rcvd)>>
<1>1. s \in Worlds /\ l \in Layers
  BY DEF Fit, Worlds
<1>2. l.rcvd \in Seq(1 .. MaxData) /\ l.rd \in Nat /\ l.strayed \in BOOLEAN
  BY <1>1 DEF Layers
<1>3. CASE l.rcvd = <<>> \/ (l.rd = 0 /\ l.stale = 0)
  BY <1>3 DEF psip_send
<1>4. CASE ~(l.rcvd = <<>> \/ (l.rd = 0 /\ l.stale = 0))
  <2>1. /\ Head(l.rcvd) \in 1 .. MaxData /\ Tail(l.rcvd) \in Seq(1 .. MaxData)
        /\ data \o Tail(l.rcvd) = l.rcvd
    BY <1>2, <1>4, Parted
  <2>2. data \in Seq(1 .. MaxData) /\ Len(data) = 1
    BY <2>1
  <2>3. data \in Seq(Units)
    BY <2>2, UnitSeq
  <2>4. /\ m \in Layers /\ m.rd = 0 /\ m.rcvd = Tail(l.rcvd)
        /\ m.dev = l.dev /\ m.conn = l.conn /\ m.seq = l.seq /\ m.io = l.io
        /\ l.rd = 0 => m.strayed
    <3>1. 0 \in 0 .. ICHAN_HOLD /\ (l.strayed \/ l.rd = 0) \in BOOLEAN
      BY HoldAssumption
    <3>2. m \in Layers
      BY <1>1, <2>1, <3>1 DEF Layers
    <3> QED
      BY <1>1, <3>2 DEF Layers
  <2>5. psip_send(s) = put_reply(sr_put_userdata(done, data, FALSE), 1, FALSE)
    BY <1>4, Zenon DEF psip_send
  <2> HIDE DEF m, data
  <2>6. Relaid(s, done) /\ done.lay = m
    BY <1>1, <2>4, Relay
  <2> HIDE DEF done
  <2>9. l.rd > 0
    <3> DEFINE z == 1
    <3>1. z \in Int /\ psip_send(s) = put_reply(sr_put_userdata(done, data, FALSE), z, FALSE)
      BY <2>5
    <3> HIDE DEF z
    <3>2. psip_send(s).lay = m
      BY <2>3, <2>6, <3>1, ReadPut
    <3> QED
      BY <1>2, <2>4, <3>2
  <2>7. /\ Along(s, done) /\ done.lay.rd = 0
        /\ data \o done.lay.rcvd = s.lay.rcvd /\ Len(data) <= s.lay.rd
    <3>1. Along(s, done)
      BY <2>4, <2>6 DEF Along, Relaid
    <3>2. done.lay.rd = 0 /\ data \o done.lay.rcvd = s.lay.rcvd
      BY <2>1, <2>4, <2>6 DEF data
    <3>3. Len(data) <= s.lay.rd
      BY <1>2, <2>2, <2>9
    <3> QED
      BY <3>1, <3>2, <3>3
  <2>8. Flow(put_reply(sr_put_userdata(done, data, FALSE), 1, FALSE), p, b)
    <3> DEFINE z == 1
    <3>1. z \in Int
      OBVIOUS
    <3> HIDE DEF z
    <3>2. Flow(put_reply(sr_put_userdata(done, data, FALSE), z, FALSE), p, b)
      BY <2>3, <2>6, <2>7, <3>1, PutFlow
    <3> QED
      BY <3>2 DEF z
  <2> QED
    BY <2>5, <2>8
<1> QED
  BY <1>3, <1>4

LEMMA DeliverFlow ==
  ASSUME NEW s, Fit(s), NEW p, NEW b \in Nat, Flow(s, p, b), ~Deliver(s).lay.strayed
  PROVE  Flow(Deliver(s), p, b)
BY FdReadFlow, PsipSendFlow DEF Deliver

(* What the peer sends next comes last. *)
LEMMA SentOn ==
  ASSUME NEW n \in Nat
  PROVE  UpTo(n + 1) = Append(UpTo(n), n + 1) /\ UpTo(n) \in Seq(Nat)
<1>1. UpTo(n) \in Seq(Nat) /\ Len(UpTo(n)) = n /\ \A k \in 1 .. n : UpTo(n)[k] = k
  BY DEF UpTo
<1>2. UpTo(n + 1) \in Seq(Nat) /\ Len(UpTo(n + 1)) = n + 1 /\ \A k \in 1 .. n + 1 : UpTo(n + 1)[k] = k
  BY DEF UpTo
<1> DEFINE x == UpTo(n)
           y == UpTo(n + 1)
           z == Append(x, n + 1)
<1> HIDE DEF x, y
<1>3. x \in Seq(Nat) /\ n + 1 \in Nat /\ Len(x) = n
  BY <1>1 DEF x
<1>4. /\ z \in Seq(Nat) /\ Len(z) = n + 1
      /\ \A k \in 1 .. n : z[k] = x[k]
      /\ z[n + 1] = n + 1
  BY <1>3, AppendProperties
<1> HIDE DEF z
<1>5. \A k \in 1 .. n + 1 : z[k] = y[k]
  BY <1>1, <1>2, <1>4 DEF x, y
<1>6. z = y
  BY <1>2, <1>4, <1>5, SeqEqual DEF y
<1> QED
  BY <1>1, <1>6 DEF x, y, z

LEMMA NewDataFlow ==
  ASSUME NEW s, Fit(s), s.lay.conn = "yes", s.lay.seq < MaxData, NEW push \in BOOLEAN,
         NEW p \in Seq(Units), NEW b \in Nat, Flow(s, p, b),
         ~NewData(s, push).lay.strayed
  PROVE  Flow(NewData(s, push), p, b)
<1> DEFINE l == s.lay
           e == l.seq + 1
           m == [l EXCEPT !.seq = @ + 1, !.rcvd = Append(@, e),
                          !.push = @ \/ push]
           u == [s EXCEPT !.lay = m]
<1>1. s \in Worlds /\ l \in Layers /\ s.rep \in Seq(Replies)
  BY WorldSeqs DEF Fit
<1>2. /\ l.rcvd \in Seq(1 .. MaxData) /\ l.push \in BOOLEAN /\ l.seq \in Nat
      /\ e \in 1 .. MaxData /\ e \in 0 .. MaxData
  <2>1. /\ l.rcvd \in Seq(1 .. MaxData) /\ l.push \in BOOLEAN
        /\ l.seq \in 0 .. MaxData
    BY <1>1 DEF Layers
  <2>2. e \in 1 .. MaxData /\ e \in 0 .. MaxData
    BY ONLY <2>1, BoundsAssumption, s.lay.seq < MaxData
  <2> QED
    BY ONLY <2>1, <2>2
<1>3. Append(l.rcvd, e) \in Seq(1 .. MaxData)
  BY <1>2, AppendProperties
<1>4. /\ m \in Layers /\ m.rd = l.rd /\ m.dev = l.dev /\ m.conn = l.conn
      /\ m.io = l.io /\ m.seq = e /\ m.rcvd = Append(l.rcvd, e)
  BY <1>1, <1>2, <1>3 DEF Layers
<1>5. NewData(s, push) = Deliver(u)
  <2>1. u = [s EXCEPT !.lay.seq = @ + 1, !.lay.rcvd = Append(@, s.lay.seq + 1),
                      !.lay.push = @ \/ push]
    BY <1>1 DEF Worlds, Layers
  <2> QED
    BY <2>1, Zenon DEF NewData
<1> HIDE DEF m
<1>6. Relaid(s, u) /\ u.lay = m
  BY <1>1, <1>4, Relay
<1> HIDE DEF u
<1>7. Whole(u, p)
  <2> DEFINE f == Flat(s.rep)
             r == l.rcvd
             n == l.seq
             x == <<e>>
             y == f \o r
             z == UpTo(n)
  <2>1. r \in Seq(Units) /\ e \in Units /\ f \in Seq(Units) /\ n \in Nat
    BY <1>1, <1>2, FlatType, UnitSeq DEF Units
  <2>2. u.rep = s.rep /\ u.lay.seq = e /\ u.lay.rcvd = Append(r, e)
    BY <1>4, <1>6 DEF Relaid
  <2>3. p \o y = z
    BY DEF Flow, Whole, Onward
  <2>4. UpTo(e) = Append(z, e) /\ z \in Seq(Nat) /\ e \in Nat
    <3> HIDE DEF n
    <3>1. UpTo(n + 1) = Append(UpTo(n), n + 1) /\ UpTo(n) \in Seq(Nat)
      BY <2>1, SentOn
    <3> QED
      BY <1>2, <3>1 DEF n
  <2>5. Onward(u) = f \o Append(r, e)
    BY <2>2 DEF Onward
  <2> HIDE DEF f, r, n, e, z
  <2>6. /\ x \in Seq(Units) /\ Append(r, e) = r \o x /\ Append(z, e) = z \o x
    BY <2>1, <2>4, AppendIsConcat
  <2> HIDE DEF x
  <2>7. f \o (r \o x) = y \o x /\ y \in Seq(Units)
    <3>1. f \in Seq(Units) /\ r \in Seq(Units) /\ x \in Seq(Units)
      BY <2>1, <2>6
    <3>2. f \o (r \o x) = (f \o r) \o x
      BY ONLY <3>1, Grouped, SMTT(20)
    <3> QED
      BY <3>1, <3>2, ConcatProperties
  <2> HIDE DEF y
  <2>8. (p \o y) \o x = p \o (y \o x)
    BY <2>6, <2>7, Grouped, SMTT(20)
  <2> QED
    BY <2>2, <2>3, <2>4, <2>5, <2>6, <2>7, <2>8 DEF Whole
<1>8. Joined(u)
  BY <1>4, <1>6 DEF Flow, Joined, Relaid
<1>9. Roomy(u, b)
  BY <1>4, <1>6 DEF Flow, Roomy, Relaid
<1>10. Flow(u, p, b) /\ Fit(u)
  BY <1>6, <1>7, <1>8, <1>9, RelaidFit DEF Flow
<1> QED
  BY <1>5, <1>10, DeliverFlow

-----------------------------------------------------------------------------
(* The requests.  Payload is taken off the FIFO, ... *)
LEMMA FetchFlow ==
  ASSUME NEW s, Fit(s), NEW n \in 0 .. s.ch.avail, NEW p, NEW b, Flow(s, p, b)
  PROVE  Flow(sr_get_userdata(s, n), p, b)
<1> DEFINE t == sr_get_userdata(s, n)
<1>1. Fit(t) /\ Still(s, t) /\ t.lay = s.lay
  BY FetchIs
<1>2. s \in Worlds /\ t.rep = s.rep
  BY DEF Fit, Worlds, sr_get_userdata
<1> HIDE DEF t
<1>3. t \in Worlds /\ Later(s.req, t.req) /\ t.ch.open = s.ch.open
  BY <1>1 DEF Fit, Still, Moved, Passes
<1>4. Flow(t, p, b)
  BY <1>1, <1>2, <1>3, FlowDropped
<1> QED
  BY <1>4 DEF t

LEMMA DrainFlow ==
  ASSUME NEW s, Fit(s), NEW p, NEW b, Flow(s, p, b)
  PROVE  Flow(sr_drain(s), p, b) /\ Fit(sr_drain(s))
<1> DEFINE t == sr_drain(s)
<1>1. Fit(t) /\ Still(s, t) /\ t.lay = s.lay /\ t.rep = s.rep
  BY DrainStill, DrainIs
<1> HIDE DEF t
<1>2. s \in Worlds /\ t \in Worlds /\ Later(s.req, t.req) /\ t.ch.open = s.ch.open
  BY <1>1 DEF Fit, Still, Moved, Passes
<1>3. Flow(t, p, b)
  BY <1>1, <1>2, FlowDropped
<1> QED
  BY <1>1, <1>3 DEF t

(* ... and what the layer is left with is suspended or answered. *)
LEMMA SettleLay ==
  ASSUME NEW s, Fit(s), NEW op
  PROVE  Settle(s, op).lay = s.lay
BY DEF Fit, Worlds, Settle, sr_reply, sr_send_reply, sr_drain

LEMMA SettleFlow ==
  ASSUME NEW s, Fit(s), NEW op \in Suspendable, NEW p, NEW b \in Nat, Flow(s, p, b)
  PROVE  Flow(Settle(s, op), p, b)
<1>1. s \in Worlds /\ s.ch \in Chans
  BY DEF Fit, Worlds
<1>2. CASE InProgress(s.lay, op)
  <2> DEFINE t == [s EXCEPT !.ch.pend[op] = TRUE]
  <2>1. Settle(s, op) = t
    BY <1>2 DEF Settle
  <2>2. /\ t.req = s.req /\ t.rep = s.rep /\ t.lay = s.lay
        /\ t.ch.open = s.ch.open
    BY <1>1 DEF Worlds, Chans
  <2> HIDE DEF t
  <2>3. Along(s, t) /\ t.lay.rcvd = s.lay.rcvd /\ t.lay.rd <= b
    BY <2>2 DEF Along, Flow, Roomy
  <2> QED
    BY <2>1, <2>2, <2>3, FlowRelaid
<1>3. CASE ~InProgress(s.lay, op) /\ s.ch.replied
  <2>1. Settle(s, op) = s
    BY <1>3, SettleDone
  <2> QED
    BY <2>1
<1>4. CASE ~InProgress(s.lay, op) /\ ~s.ch.replied
  <2> DEFINE z == 0
  <2>1. Settle(s, op) = sr_reply(s, z)
    BY <1>4, Zenon DEF Settle
  <2>3. z \in Int
    OBVIOUS
  <2> HIDE DEF z
  <2>2. Flow(sr_reply(s, z), p, b)
    BY <2>3, ReplyFlow
  <2> QED
    BY <2>1, <2>2
<1> QED
  BY <1>2, <1>3, <1>4

LEMMA GaveFit ==
  ASSUME NEW s, Fit(s), NEW t, Gave(s, t) \/ Strays(s, t)
  PROVE  Fit(t)
<1>1. CASE Relaid(s, t)
  BY <1>1, RelaidFit
<1>2. CASE ReadTold(s, t)
  <2>1. PICK r \in Replies : r.rop = "READ" /\ Told(s, t, r)
    BY <1>2 DEF ReadTold
  <2>2. t \in Worlds
    BY DEF Gave, Strays
  <2> QED
    BY <2>1, <2>2, ToldFit
<1> QED
  BY <1>1, <1>2 DEF Gave, Strays

(* NWR_READ: it asks for no more than there is room for. *)
LEMMA DoReadFlow ==
  ASSUME NEW s, Fit(s), s.lay.dev \in Devices, ~s.lay.strayed,
         NEW r, r.count \in 1 .. ICHAN_HOLD, NEW p, NEW b \in Nat,
         r.count <= b, Flow(s, p, b), NEW t \in DoRead(s, r)
  PROVE  Flow(t, p, b)
<1>1. s \in Worlds /\ s.lay \in Layers /\ t = Settle(srm_read(s, r.count), "READ")
  BY DEF Fit, Worlds, DoRead
<1>2. "READ" \in Suspendable
  BY DEF Suspendable
<1>3. CASE s.lay.conn = "yes"
  <2> DEFINE k == IF s.lay.dev = "psip" THEN 0 ELSE s.lay.stale
             m == [s.lay EXCEPT !.rd = r.count, !.stale = k]
             u == [s EXCEPT !.lay = m]
             v == Deliver(u)
  <2>1. r.count \in 0 .. ICHAN_HOLD /\ r.count > 0 /\ k \in 0 .. ICHAN_HOLD
    BY <1>1, HoldAssumption DEF Layers
  <2>2. /\ m \in Layers /\ m.rd = r.count /\ m.dev = s.lay.dev /\ m.conn = s.lay.conn
        /\ m.seq = s.lay.seq /\ m.io = s.lay.io /\ m.rcvd = s.lay.rcvd
        /\ ~m.strayed
    BY <1>1, <2>1 DEF Layers
  <2>3. srm_read(s, r.count) = v
    BY <1>1, <1>3, Zenon DEF srm_read
  <2> HIDE DEF m, k
  <2>4. Relaid(s, u) /\ u.lay = m
    BY <1>1, <2>2, Relay
  <2> HIDE DEF u
  <2>5. Fit(u)
    BY <2>4, RelaidFit
  <2>6. Flow(u, p, b)
    <3>1. Along(s, u)
      BY <2>2, <2>4 DEF Along, Relaid
    <3>2. u.req = s.req /\ u.rep = s.rep /\ u.lay.rcvd = s.lay.rcvd /\ u.lay.rd <= b
      BY <2>2, <2>4 DEF Relaid
    <3> QED
      BY <3>1, <3>2, FlowRelaid
  <2>7. Flow(v, p, b) /\ Fit(v)
    <3>1. Gave(u, v)
      <4>1. ~Strays(u, v)
        BY <2>1, <2>2, <2>4 DEF Strays
      <4> QED
        BY <2>2, <2>4, <2>5, <4>1, DeliverGave
    <3>2. ~v.lay.strayed
      BY <2>2, <2>4, <3>1 DEF Gave, Fades
    <3> QED
      BY <2>5, <2>6, <3>1, <3>2, DeliverFlow, GaveFit
  <2> HIDE DEF v
  <2> QED
    BY <1>1, <1>2, <2>3, <2>7, SettleFlow
<1>4. CASE s.lay.conn # "yes"
  <2> DEFINE v == put_reply(s, -1, FALSE)
  <2>1. srm_read(s, r.count) = v
    BY <1>4 DEF srm_read
  <2>2. Ended(s, v, "READ") /\ Flow(v, p, b)
    BY FailEnded, FailFlow
  <2> HIDE DEF v
  <2>3. Fit(v)
    BY <2>2 DEF Ended, Moved
  <2> QED
    BY <1>1, <1>2, <2>1, <2>2, <2>3, SettleFlow
<1> QED
  BY <1>3, <1>4

(* NWR_WRITE *)
LEMMA FdWriteFlow ==
  ASSUME NEW s, Fit(s), s.lay.left = s.ch.avail, NEW w \in Nat,
         NEW p, NEW b \in Nat, Flow(s, p, b)
  PROVE  Flow(tcp_fd_write(s, w), p, b)
<1> DEFINE n == IF s.lay.left < w THEN s.lay.left ELSE w
           g == sr_get_userdata(s, n)
           m == [g.lay EXCEPT !.left = @ - n, !.off = @ + n]
           t == [g EXCEPT !.lay = m]
           m0 == [m EXCEPT !.wr = FALSE]
           u == [t EXCEPT !.lay = m0]
           v == get_reply(u, t.lay.off, FALSE)
<1>1. s \in Worlds /\ s.ch.avail \in Nat /\ s.lay \in Layers
  BY DEF Fit, Worlds, Chans
<1>2. n \in 0 .. s.ch.avail
  BY <1>1
<1> HIDE DEF n
<1>3. Fit(g) /\ g.lay = s.lay /\ Flow(g, p, b)
  BY <1>2, FetchIs, FetchFlow
<1>4. tcp_fd_write(s, w) = IF t.lay.left > 0 THEN t ELSE v
  <2>1. g \in Worlds /\ g.lay \in Layers
    BY <1>3 DEF Fit, Worlds
  <2>2. t = [g EXCEPT !.lay.left = @ - n, !.lay.off = @ + n]
    BY <2>1 DEF Worlds, Layers
  <2>4. u = [t EXCEPT !.lay.wr = FALSE]
    BY <2>1 DEF Worlds, Layers
  <2> HIDE DEF t, u, g
  <2> QED
    BY <2>2, <2>4 DEF tcp_fd_write, n, g
<1> HIDE DEF g
<1>5. g.lay.left - n \in Nat /\ g.lay.off + n \in Nat /\ g.lay \in Layers /\ g \in Worlds
  BY <1>1, <1>2, <1>3 DEF Layers, Fit
<1>6. /\ m \in Layers /\ m.rd = g.lay.rd /\ m.io = g.lay.io /\ m.dev = g.lay.dev
      /\ m.conn = g.lay.conn /\ m.seq = g.lay.seq /\ m.rcvd = g.lay.rcvd
  BY <1>5 DEF Layers
<1>7. /\ m0 \in Layers /\ m0.rd = m.rd /\ m0.io = m.io /\ m0.dev = m.dev
      /\ m0.conn = m.conn /\ m0.seq = m.seq /\ m0.rcvd = m.rcvd
  BY <1>6 DEF Layers
<1> HIDE DEF m, m0
<1>8. Relaid(g, t) /\ t.lay = m
  BY <1>5, <1>6, Relay
<1> HIDE DEF t
<1>9. t \in Worlds
  BY <1>8 DEF Relaid
<1>10. Relaid(t, u) /\ u.lay = m0
  BY <1>7, <1>9, Relay
<1> HIDE DEF u
<1>11. Flow(t, p, b)
  <2>1. Along(g, t) /\ t.req = g.req /\ t.rep = g.rep /\ t.lay.rcvd = g.lay.rcvd
    BY <1>6, <1>8 DEF Along, Relaid
  <2>2. t.lay.rd <= b
    BY <1>3, <1>6, <1>8 DEF Flow, Roomy
  <2> QED
    BY <1>3, <2>1, <2>2, FlowRelaid
<1>12. Flow(u, p, b)
  <2>1. Along(t, u) /\ u.req = t.req /\ u.rep = t.rep /\ u.lay.rcvd = t.lay.rcvd
    BY <1>7, <1>8, <1>10 DEF Along, Relaid
  <2>2. u.lay.rd <= b
    BY <1>7, <1>8, <1>10, <1>11 DEF Flow, Roomy
  <2> QED
    BY <1>11, <2>1, <2>2, FlowRelaid
<1>13. Flow(v, p, b)
  <2>1. Fit(t) /\ Fit(u)
    BY <1>3, <1>8, <1>10, RelaidFit
  <2> DEFINE z == t.lay.off
  <2>2. z \in Int
    BY <1>9 DEF Worlds, Layers
  <2> HIDE DEF z
  <2>3. Flow(get_reply(u, z, FALSE), p, b)
    BY <1>12, <2>1, <2>2, RepliesFlow
  <2> QED
    BY <2>3 DEF z
<1> QED
  BY <1>4, <1>11, <1>13, Zenon


LEMMA TcpWriteFlow ==
  ASSUME NEW s, Fit(s), NEW p, NEW b \in Nat, Flow(s, p, b),
         NEW t \in tcp_write(s, s.ch.avail)
  PROVE  Fit(t) /\ Flow(t, p, b)
<1>1. s \in Worlds /\ s.lay \in Layers /\ s.ch.avail \in Nat
  BY DEF Fit, Worlds, Chans
<1>3. CASE s.lay.conn = "yes"
  <2> DEFINE m == [s.lay EXCEPT !.wr = TRUE, !.left = s.ch.avail, !.off = 0]
             u == [s EXCEPT !.lay = m]
  <2>1. PICK w \in Windows(s.ch.avail) : t = tcp_fd_write(u, w)
    <3>1. u = [s EXCEPT !.lay.wr = TRUE, !.lay.left = s.ch.avail, !.lay.off = 0]
      BY <1>1 DEF Worlds, Layers
    <3> HIDE DEF u
    <3> QED
      BY <1>3, <3>1 DEF tcp_write
  <2>2. w \in Nat
    BY <1>1, <2>1 DEF Windows
  <2>3. /\ m \in Layers /\ m.wr /\ m.left = s.ch.avail /\ m.rd = s.lay.rd /\ m.io = s.lay.io
        /\ m.dev = s.lay.dev /\ m.conn = s.lay.conn /\ m.seq = s.lay.seq
        /\ m.rcvd = s.lay.rcvd
    BY <1>1 DEF Layers
  <2> HIDE DEF m
  <2>4. Relaid(s, u) /\ u.lay = m
    BY <1>1, <2>3, Relay
  <2> HIDE DEF u
  <2>5. Fit(u) /\ u.lay.left = u.ch.avail
    BY <2>3, <2>4, RelaidFit DEF Relaid
  <2>6. Flow(u, p, b)
    <3>1. Along(s, u) /\ u.req = s.req /\ u.rep = s.rep /\ u.lay.rcvd = s.lay.rcvd
      BY <2>3, <2>4 DEF Along, Relaid
    <3>2. u.lay.rd <= b
      BY <2>3, <2>4 DEF Flow, Roomy
    <3> QED
      BY <3>1, <3>2, FlowRelaid
  <2>7. Wrote(u, t)
    BY <2>1, <2>2, <2>3, <2>4, <2>5, FdWriteWrote
  <2>8. Fit(t)
    BY <2>7 DEF Wrote, Ended, Moved
  <2> QED
    BY <2>1, <2>2, <2>5, <2>6, <2>8, FdWriteFlow
<1>4. CASE s.lay.conn # "yes"
  <2>1. t = get_reply(s, -1, FALSE)
    BY <1>4 DEF tcp_write
  <2>2. Fit(t)
    BY <2>1, FailEnded DEF Ended, Moved
  <2> QED
    BY <2>1, <2>2, FailFlow
<1> QED
  BY <1>3, <1>4

LEMMA PsipWriteFlow ==
  ASSUME NEW s, Fit(s), s.lay.conn = "yes", s.lay.dev \in Devices,
         NEW p \in Seq(Units), NEW b \in Nat,
         Flow(s, p, b), NEW t \in psip_write(s, s.ch.avail)
  PROVE  Fit(t) /\ (~t.lay.strayed => Flow(t, p, b))
<1> DEFINE n == s.ch.avail
           g == sr_get_userdata(s, n)
           y == TRUE
<1>1. n \in 0 .. s.ch.avail /\ n \in Int /\ y \in BOOLEAN
  BY DEF Fit, Worlds, Chans
<1>2. PICK u \in {g} \cup (IF s.lay.seq < MaxData THEN {NewData(g, y)} ELSE {}) :
        t = get_reply(u, n, FALSE)
  BY Zenon DEF psip_write
<1> HIDE DEF n, y
<1>3. Fit(g) /\ g.lay = s.lay /\ Flow(g, p, b)
  BY <1>1, FetchIs, FetchFlow
<1> HIDE DEF g
<1>4. Fit(u) /\ (~u.lay.strayed => Flow(u, p, b))
  <2>1. CASE u = g
    BY <1>3, <2>1
  <2>2. CASE u # g
    <3>1. g.lay.seq < MaxData /\ u = NewData(g, y) /\ g.lay.conn = "yes"
      BY <1>2, <1>3, <2>2
    <3>2. ~NewData(g, y).lay.strayed => Flow(NewData(g, y), p, b)
      BY <1>1, <1>3, <3>1, NewDataFlow
    <3>3. Gave(g, NewData(g, y)) \/ Strays(g, NewData(g, y))
      BY <1>1, <1>3, <3>1, NewDataGave
    <3> QED
      BY <1>3, <3>1, <3>2, <3>3, GaveFit
  <2> QED
    BY <2>1, <2>2
<1>5. Fit(t) /\ t.lay = u.lay
  BY <1>1, <1>2, <1>4, RepliesEnded DEF Ended, Moved
<1> QED
  BY <1>1, <1>2, <1>4, <1>5, RepliesFlow

LEMMA DoWriteFlow ==
  ASSUME NEW s, Fit(s), s.ch.open, s.lay.dev \in Devices,
         NEW r, r.count = s.ch.avail,
         NEW p \in Seq(Units), NEW b \in Nat, Flow(s, p, b), NEW t \in DoWrite(s, r),
         ~t.lay.strayed
  PROVE  Flow(t, p, b)
<1>1. "WRITE" \in Suspendable
  BY DEF Suspendable
<1>3. CASE s.lay.dev = "tcp"
  <2>1. PICK u \in tcp_write(s, s.ch.avail) : t = Settle(u, "WRITE")
    BY <1>3 DEF DoWrite
  <2> QED
    BY <1>1, <2>1, TcpWriteFlow, SettleFlow
<1>4. CASE s.lay.dev # "tcp"
  <2>1. PICK u \in psip_write(s, s.ch.avail) : t = Settle(u, "WRITE")
    BY <1>4 DEF DoWrite
  <2>2. s.lay.conn = "yes"
    BY <1>4 DEF Flow, Joined
  <2>3. Fit(u) /\ (~u.lay.strayed => Flow(u, p, b))
    BY <2>1, <2>2, PsipWriteFlow
  <2>4. t.lay = u.lay
    BY <1>1, <2>1, <2>3, SettleLay
  <2> QED
    BY <1>1, <2>1, <2>3, <2>4, SettleFlow
<1> QED
  BY <1>3, <1>4

(* NWR_IOCTL: only a connection that is not there yet is waited for. *)
LEMMA DoIoctlFlow ==
  ASSUME NEW s, Fit(s), NEW r, r.dlen = s.ch.avail, r.what \in IoctlKinds,
         NEW p, NEW b \in Nat, Flow(s, p, b), NEW t \in DoIoctl(s, r)
  PROVE  Flow(t, p, b)
<1>1. s \in Worlds /\ s.lay \in Layers /\ s.ch.avail \in Nat /\ "IOCTL" \in Suspendable
  BY DEF Fit, Worlds, Chans, Suspendable
<1>2. PICK u \in tcp_ioctl(s, r.what, s.ch.avail) : t = Settle(sr_drain(u), "IOCTL")
  BY DEF DoIoctl
<1>3. ASSUME Fit(u), Flow(u, p, b) PROVE Flow(t, p, b)
  <2> DEFINE d == sr_drain(u)
  <2>1. Flow(d, p, b) /\ Fit(d)
    BY <1>3, DrainFlow
  <2> HIDE DEF d
  <2>2. Flow(Settle(d, "IOCTL"), p, b)
    BY <1>1, <2>1, SettleFlow
  <2> QED
    BY <1>2, <2>2 DEF d
<1>4. CASE u = get_reply(s, -1, TRUE)
  <2>1. Fit(u)
    BY <1>4, FailEnded DEF Ended, Moved
  <2> QED
    BY <1>3, <1>4, <2>1, FailFlow
<1>5. CASE r.what = "set" /\ u = get_reply(sr_get_userdata(s, s.ch.avail), 0, TRUE)
  <2> DEFINE n == s.ch.avail
             g == sr_get_userdata(s, n)
             z == 0
  <2>1. n \in 0 .. s.ch.avail /\ z \in Int /\ u = get_reply(g, z, TRUE)
    BY <1>1, <1>5
  <2> HIDE DEF n, z
  <2>2. Fit(g) /\ Flow(g, p, b)
    BY <2>1, FetchIs, FetchFlow
  <2> HIDE DEF g
  <2>3. Fit(u)
    BY <2>1, <2>2, RepliesEnded DEF Ended, Moved
  <2> QED
    BY <1>3, <2>1, <2>2, <2>3, RepliesFlow
<1>6. CASE r.what = "get" /\ u = put_reply(sr_put_userdata(s, <<"conf">>, TRUE), 0, TRUE)
  <2>1. Fit(u)
    BY <1>6, ConfEnded DEF Ended, Moved
  <2> QED
    BY <1>3, <1>6, <2>1, ConfFlow
<1>7. CASE r.what = "listen" /\ s.lay.conn = "no" /\ u = [s EXCEPT !.lay.io = TRUE]
  <2> DEFINE m == [s.lay EXCEPT !.io = TRUE]
             v == [s EXCEPT !.lay = m]
  <2>1. u = v
    BY <1>1, <1>7 DEF Worlds, Layers
  <2>2. /\ m \in Layers /\ m.rd = s.lay.rd /\ m.dev = s.lay.dev /\ m.conn = s.lay.conn
        /\ m.seq = s.lay.seq /\ m.rcvd = s.lay.rcvd
    BY <1>1 DEF Layers
  <2> HIDE DEF m
  <2>3. Relaid(s, u) /\ u.lay = m
    BY <1>1, <2>1, <2>2, Relay
  <2>4. Along(s, u) /\ u.req = s.req /\ u.rep = s.rep /\ u.lay.rcvd = s.lay.rcvd
    BY <1>7, <2>2, <2>3 DEF Along, Relaid
  <2>5. u.lay.rd <= b
    BY <2>2, <2>3 DEF Flow, Roomy
  <2>6. Fit(u) /\ Flow(u, p, b)
    BY <2>3, <2>4, <2>5, FlowRelaid, RelaidFit
  <2> QED
    BY <1>3, <2>6
<1>8. \/ u = get_reply(s, -1, TRUE)
      \/ r.what = "set" /\ u = get_reply(sr_get_userdata(s, s.ch.avail), 0, TRUE)
      \/ r.what = "get" /\ u = put_reply(sr_put_userdata(s, <<"conf">>, TRUE), 0, TRUE)
      \/ r.what = "listen" /\ s.lay.conn = "no" /\ u = [s EXCEPT !.lay.io = TRUE]
  <2>1. CASE r.what = "set"
    BY <1>2, <2>1, Zenon DEF tcp_ioctl
  <2>2. CASE r.what = "get"
    BY <1>2, <2>2, Zenon DEF tcp_ioctl
  <2>3. CASE r.what = "listen"
    BY <1>2, <2>3 DEF tcp_ioctl
  <2> QED
    BY <2>1, <2>2, <2>3 DEF IoctlKinds
<1> QED
  BY <1>4, <1>5, <1>6, <1>7, <1>8

(* NWR_CANCEL *)
LEMMA CancelFlow ==
  ASSUME NEW s, Fit(s), NEW which \in Suspendable, NEW p, NEW b \in Nat, Flow(s, p, b)
  PROVE  Flow(tcp_cancel(s, which), p, b)
<1>1. s \in Worlds /\ s.lay \in Layers
  BY DEF Fit, Worlds
<1>2. ASSUME NEW m \in Layers, m.rd \in {0, s.lay.rd}, m.io => s.lay.io,
             m.dev = s.lay.dev, m.conn = s.lay.conn, m.seq = s.lay.seq,
             m.rcvd = s.lay.rcvd
      PROVE  Fit([s EXCEPT !.lay = m]) /\ Flow([s EXCEPT !.lay = m], p, b)
  <2> DEFINE u == [s EXCEPT !.lay = m]
  <2>1. Relaid(s, u) /\ u.lay = m
    BY <1>1, <1>2, Relay
  <2> HIDE DEF u
  <2>2. Along(s, u) /\ u.req = s.req /\ u.rep = s.rep /\ u.lay.rcvd = s.lay.rcvd
    BY <1>2, <2>1 DEF Along, Relaid
  <2>3. u.lay.rd <= b
    BY <1>2, <2>1 DEF Flow, Roomy
  <2>4. Fit(u) /\ Flow(u, p, b)
    BY <2>1, <2>2, <2>3, FlowRelaid, RelaidFit
  <2> QED
    BY <2>4 DEF u
<1>3. CASE which = "READ"
  <2> DEFINE m == [s.lay EXCEPT !.rd = 0]
             u == [s EXCEPT !.lay = m]
  <2>1. tcp_cancel(s, which) = put_reply(u, -1, FALSE)
    <3>1. u = [s EXCEPT !.lay.rd = 0]
      BY <1>1 DEF Worlds, Layers
    <3> QED
      BY <1>3, <3>1, Zenon DEF tcp_cancel
  <2>2. /\ m \in Layers /\ m.rd = 0 /\ m.io = s.lay.io /\ m.dev = s.lay.dev
        /\ m.conn = s.lay.conn /\ m.seq = s.lay.seq /\ m.rcvd = s.lay.rcvd
    <3>1. 0 \in 0 .. ICHAN_HOLD
      BY HoldAssumption
    <3> QED
      BY <1>1, <3>1 DEF Layers
  <2> HIDE DEF m
  <2>3. Fit(u) /\ Flow(u, p, b)
    BY <1>2, <2>2
  <2> HIDE DEF u
  <2> QED
    BY <2>1, <2>3, FailFlow
<1>4. CASE which = "WRITE"
  <2> DEFINE m == [s.lay EXCEPT !.wr = FALSE, !.left = 0]
             u == [s EXCEPT !.lay = m]
             z == IF s.lay.off > 0 THEN s.lay.off ELSE -1
  <2>1. tcp_cancel(s, which) = get_reply(u, z, FALSE)
    <3>1. u = [s EXCEPT !.lay.wr = FALSE, !.lay.left = 0]
      BY <1>1 DEF Worlds, Layers
    <3> QED
      BY <1>4, <3>1, Zenon DEF tcp_cancel
  <2>2. /\ m \in Layers /\ m.rd = s.lay.rd /\ m.io = s.lay.io /\ m.dev = s.lay.dev
        /\ m.conn = s.lay.conn /\ m.seq = s.lay.seq /\ m.rcvd = s.lay.rcvd
    BY <1>1 DEF Layers
  <2>3. z \in Int
    BY <1>1 DEF Layers
  <2> HIDE DEF m, z
  <2>4. Fit(u) /\ Flow(u, p, b)
    BY <1>2, <2>2
  <2> HIDE DEF u
  <2> QED
    BY <2>1, <2>3, <2>4, RepliesFlow
<1>5. CASE which = "IOCTL"
  <2> DEFINE m == [s.lay EXCEPT !.io = FALSE]
             u == [s EXCEPT !.lay = m]
  <2>1. tcp_cancel(s, which) = get_reply(u, -1, TRUE)
    <3>1. u = [s EXCEPT !.lay.io = FALSE]
      BY <1>1 DEF Worlds, Layers
    <3> QED
      BY <1>5, <3>1, Zenon DEF tcp_cancel
  <2>2. /\ m \in Layers /\ m.rd = s.lay.rd /\ ~m.io /\ m.dev = s.lay.dev
        /\ m.conn = s.lay.conn /\ m.seq = s.lay.seq /\ m.rcvd = s.lay.rcvd
    BY <1>1 DEF Layers
  <2> HIDE DEF m
  <2>3. Fit(u) /\ Flow(u, p, b)
    BY <1>2, <2>2
  <2> HIDE DEF u
  <2> QED
    BY <2>1, <2>3, FailFlow
<1> QED
  BY <1>3, <1>4, <1>5 DEF Suspendable

LEMMA DoCancelFlow ==
  ASSUME NEW s, Fit(s), PendLay(s), NEW r, r.what \in Suspendable,
         NEW p, NEW b \in Nat, Flow(s, p, b), NEW t \in DoCancel(s, r)
  PROVE  Flow(t, p, b)
<1> DEFINE u == IF s.ch.pend[r.what] THEN tcp_cancel(s, r.what) ELSE s
           z == -1
<1>1. Fit(u) /\ Flow(u, p, b)
  <2>1. CASE s.ch.pend[r.what]
    <3> DEFINE which == r.what
    <3>1. which \in Suspendable
      OBVIOUS
    <3> HIDE DEF which
    <3>2. Ended(s, tcp_cancel(s, which), which) /\ Flow(tcp_cancel(s, which), p, b)
      BY <3>1, CancelEnded, CancelFlow
    <3>3. Fit(tcp_cancel(s, which)) /\ Flow(tcp_cancel(s, which), p, b)
      BY <3>2 DEF Ended, Moved
    <3> QED
      BY <2>1, <3>3 DEF which
  <2>2. CASE ~s.ch.pend[r.what]
    BY <2>2
  <2> QED
    BY <2>1, <2>2
<1>2. t = sr_reply(u, z) /\ z \in Int
  BY DEF DoCancel
<1> HIDE DEF u, z
<1> QED
  BY <1>1, <1>2, ReplyFlow


(* NWR_OPEN: nothing has come before. *)
LEMMA DoOpenFlow ==
  ASSUME NEW s, Fit(s), ~s.ch.open, NEW r, r.what \in Devices,
         NEW p \in Seq(Units), NEW b \in Nat, Flow(s, p, b), NEW t \in DoOpen(s, r)
  PROVE  Flow(t, p, b)
<1> DEFINE l == Opened(s.lay, r.what)
           c == [s.ch EXCEPT !.open = TRUE]
           v == [s EXCEPT !.ch = c, !.lay = l]
           z == 0
           y == -1
<1>1. s \in Worlds /\ s.ch \in Chans /\ s.rep \in Seq(Replies) /\ s.lay \in Layers
  BY WorldSeqs DEF Fit
<1>2. CASE t = sr_reply(s, y)
  <2>1. y \in Int
    OBVIOUS
  <2> HIDE DEF y
  <2> QED
    BY <1>2, <2>1, ReplyFlow
<1>3. CASE t = sr_reply(v, z)
  <2>1. /\ l \in Layers /\ l.rd = 0 /\ ~l.io /\ l.seq = 0 /\ l.rcvd = <<>>
        /\ l.dev = r.what /\ l.conn = IF r.what = "psip" THEN "yes" ELSE "no"
    <3>1. l \in Layers /\ l.rd = 0 /\ ~l.io /\ l.dev = r.what
      BY <1>1, OpenedIs
    <3> QED
      BY <3>1 DEF Opened, FreshLayer
  <2>2. /\ c \in Chans /\ c.open /\ c.avail = s.ch.avail /\ c.dataok = s.ch.dataok
    BY <1>1 DEF Chans
  <2>3. z \in Int
    OBVIOUS
  <2> HIDE DEF l, c, z
  <2>4. /\ v \in Worlds /\ v.ch = c /\ v.lay = l /\ v.req = s.req /\ v.rep = s.rep
    BY <1>1, <2>1, <2>2 DEF Worlds
  <2> HIDE DEF v
  <2>5. Fit(v)
    BY <2>2, <2>4 DEF Fit
  <2>6. Whole(v, p)
    <3> DEFINE f == Flat(s.rep)
               q == s.lay.rcvd
               o == f \o q
    <3>1. f \in Seq(Units) /\ q \in Seq(Units)
      BY <1>1, FlatType, UnitSeq DEF Layers
    <3>2. s.lay.conn = "no" /\ s.lay.seq = 0
      BY DEF Flow, Joined
    <3>3. p \o o = UpTo(0)
      BY <3>2 DEF Flow, Whole, Onward
    <3> HIDE DEF f, q
    <3>4. o \in Seq(Units) /\ Len(o) = Len(f) + Len(q)
      BY <3>1, ConcatProperties
    <3> HIDE DEF o
    <3>5. Len(p \o o) = Len(p) + Len(o)
      BY <3>4, ConcatProperties
    <3>6. UpTo(0) = <<>> /\ Len(UpTo(0)) = 0
      BY DEF UpTo
    <3>7. Len(p) = 0 /\ Len(f) = 0
      BY <3>1, <3>3, <3>4, <3>5, <3>6, LenProperties
    <3>8. p = <<>> /\ f = <<>>
      BY <3>1, <3>7, EmptySeq
    <3>9. Onward(v) = <<>>
      <4>1. Onward(v) = f \o <<>>
        BY <2>1, <2>4 DEF Onward, f
      <4> QED
        BY <3>1, <3>8, <4>1, ConcatEmptySeq
    <3>10. p \o Onward(v) = <<>>
      BY <3>8, <3>9, ConcatEmptySeq
    <3> QED
      BY <2>1, <2>4, <3>6, <3>10 DEF Whole
  <2>7. Joined(v)
    BY <2>1, <2>2, <2>4, DevicesAssumption DEF Joined
  <2>8. Roomy(v, b)
    BY <2>1, <2>4 DEF Flow, Roomy
  <2>9. Flow(v, p, b)
    BY <2>6, <2>7, <2>8 DEF Flow
  <2> QED
    BY <1>3, <2>3, <2>5, <2>9, ReplyFlow
<1>4. v = [s EXCEPT !.ch.open = TRUE, !.lay = Opened(@, r.what)]
  BY <1>1 DEF Worlds
<1> QED
  BY <1>2, <1>3, <1>4 DEF DoOpen

LEMMA DispatchFlow ==
  ASSUME Sound(Served), NEW s, NEW r, InHand(s, r), r.op # "CLOSE",
         NEW p \in Seq(Units), NEW b \in Nat, Flow(s, p, b),
         r.op = "READ" => r.count <= b, ~lay.strayed,
         NEW t, t \in Dispatch(s, r), ~t.lay.strayed
  PROVE  Flow(t, p, b)
<1>1. /\ Fit(s) /\ PendLay(s) /\ r \in Items /\ r.op \in Ops
      /\ s.ch.avail = r.dlen /\ s.ch.open \in BOOLEAN /\ s.lay = lay
      /\ s.ch.open => s.lay.dev \in Devices
  BY ServedIs DEF InHand, Fit, Worlds, Chans, Sound, Leftover
<1>2. CASE r.op = "OPEN"
  <2>1. t \in DoOpen(s, r) /\ r.what \in Devices
    BY <1>1, <1>2, ItemIs DEF Dispatch
  <2>2. ~s.ch.open
    <3>1. /\ Asks(Served, "OPEN") = Asks(s, "OPEN") + One("OPEN" = "OPEN")
          /\ s.ch.open = ch.open /\ s \in Worlds
      BY <1>1, <1>2 DEF InHand, TakenOff, Ops, Fit
    <3>2. Asks(s, "OPEN") \in Nat /\ One("OPEN" = "OPEN") = 1 /\ Asks(Served, "OPEN") \in Nat
      BY <3>1, Counts DEF One, Sound, Fit
    <3> QED
      BY <3>1, <3>2, ServedIs DEF Sound, OneEach
  <2> QED
    BY <1>1, <2>1, <2>2, DoOpenFlow
<1>3. CASE r.op # "OPEN" /\ ~s.ch.open
  <2> DEFINE y == -1
  <2>1. t = sr_reply(s, y)
    BY <1>3 DEF Dispatch
  <2>2. y \in Int
    OBVIOUS
  <2> HIDE DEF y
  <2> QED
    BY <1>1, <2>1, <2>2, ReplyFlow
<1>4. CASE r.op = "READ" /\ s.ch.open
  <2>1. t \in DoRead(s, r)
    BY <1>4 DEF Dispatch
  <2>2. r.count \in 1 .. ICHAN_HOLD
    BY <1>1, <1>4, ItemIs
  <2> QED
    BY <1>1, <1>4, <2>1, <2>2, DoReadFlow
<1>5. CASE r.op = "WRITE" /\ s.ch.open
  <2>1. t \in DoWrite(s, r)
    BY <1>5 DEF Dispatch
  <2>2. r.count = s.ch.avail
    BY <1>1, <1>5, ItemIs
  <2> QED
    BY <1>1, <1>5, <2>1, <2>2, DoWriteFlow
<1>6. CASE r.op = "IOCTL" /\ s.ch.open
  <2>1. t \in DoIoctl(s, r)
    BY <1>6 DEF Dispatch
  <2>2. r.dlen = s.ch.avail /\ r.what \in IoctlKinds
    BY <1>1, <1>6, ItemIs
  <2> QED
    BY <1>1, <2>1, <2>2, DoIoctlFlow
<1>7. CASE r.op = "CANCEL" /\ s.ch.open
  <2>1. t \in DoCancel(s, r)
    BY <1>7 DEF Dispatch
  <2>2. r.what \in Suspendable
    BY <1>1, <1>7, ItemIs
  <2> QED
    BY <1>1, <2>1, <2>2, DoCancelFlow
<1> QED
  BY <1>1, <1>2, <1>3, <1>4, <1>5, <1>6, <1>7 DEF Ops, Suspendable

-----------------------------------------------------------------------------
(* The events of the network. *)
LEMMA FinFlow ==
  ASSUME NEW s, Fit(s), NEW p, NEW b \in Nat, Flow(s, p, b)
  PROVE  Flow(tcp_fd_read([s EXCEPT !.lay.fin = TRUE]), p, b)
<1> DEFINE l == [s.lay EXCEPT !.fin = TRUE]
           u == [s EXCEPT !.lay = l]
<1>1. s \in Worlds /\ s.lay \in Layers
  BY DEF Fit, Worlds
<1>2. /\ l \in Layers /\ l.rd = s.lay.rd /\ l.io = s.lay.io /\ l.dev = s.lay.dev
      /\ l.conn = s.lay.conn /\ l.seq = s.lay.seq /\ l.rcvd = s.lay.rcvd
  BY <1>1 DEF Layers
<1>3. u = [s EXCEPT !.lay.fin = TRUE]
  BY <1>1 DEF Worlds
<1> HIDE DEF l
<1>4. Relaid(s, u) /\ u.lay = l
  BY <1>1, <1>2, Relay
<1> HIDE DEF u
<1>5. Along(s, u) /\ u.req = s.req /\ u.rep = s.rep /\ u.lay.rcvd = s.lay.rcvd
  BY <1>2, <1>4 DEF Along, Relaid
<1>6. u.lay.rd <= b
  BY <1>2, <1>4 DEF Flow, Roomy
<1>7. Fit(u) /\ Flow(u, p, b)
  BY <1>4, <1>5, <1>6, FlowRelaid, RelaidFit
<1>8. Flow(tcp_fd_read(u), p, b)
  BY <1>7, FdReadFlow
<1> QED
  BY <1>3, <1>8

(* A connection is made before anything comes over it. *)
LEMMA ConnectFlow ==
  ASSUME NEW s, Fit(s), s.ch.open, s.lay.io, NEW status \in Int,
         NEW p, NEW b \in Nat, Flow(s, p, b)
  PROVE  Flow(get_reply([s EXCEPT !.lay.io = FALSE,
                  !.lay.conn = IF status = 0 THEN "yes" ELSE "no"], status, TRUE), p, b)
<1> DEFINE v == IF status = 0 THEN "yes" ELSE "no"
           l == [s.lay EXCEPT !.io = FALSE, !.conn = v]
           u == [s EXCEPT !.lay = l]
<1>1. s \in Worlds /\ s.lay \in Layers
  BY DEF Fit, Worlds
<1>2. u = [s EXCEPT !.lay.io = FALSE,
             !.lay.conn = IF status = 0 THEN "yes" ELSE "no"]
  BY <1>1 DEF Worlds, Layers
<1>3. v \in {"yes", "no"}
  OBVIOUS
<1> HIDE DEF v
<1>4. /\ l \in Layers /\ l.rd = s.lay.rd /\ ~l.io /\ l.dev = s.lay.dev
      /\ l.conn = v /\ l.seq = s.lay.seq /\ l.rcvd = s.lay.rcvd
  BY <1>1, <1>3 DEF Layers
<1> HIDE DEF l
<1>5. Relaid(s, u) /\ u.lay = l
  BY <1>1, <1>4, Relay
<1> HIDE DEF u
<1>6. s.lay.conn = "no" /\ s.lay.seq = 0 /\ s.lay.dev = "tcp"
  BY DEF Flow, Joined
<1>7. Joined(u)
  BY <1>3, <1>4, <1>5, <1>6 DEF Joined, Relaid
<1>8. Whole(u, p)
  BY <1>4, <1>5, <1>6 DEF Flow, Whole, Onward, Relaid
<1>9. Roomy(u, b)
  BY <1>4, <1>5 DEF Flow, Roomy, Relaid
<1>10. Fit(u) /\ Flow(u, p, b)
  BY <1>5, <1>7, <1>8, <1>9, RelaidFit DEF Flow
<1>11. Flow(get_reply(u, status, TRUE), p, b)
  BY <1>10, RepliesFlow
<1> QED
  BY <1>2, <1>11

(* What nobody has read of a connection that is lost is gone. *)
LEMMA ResetFlow ==
  ASSUME NEW s, Fit(s), s.ch.open, s.lay.dev = "tcp", s.lay.conn = "yes",
         NEW status \in Int, NEW p, NEW b \in Nat, Flow(s, p, b)
  PROVE  Flow(LostBoth(s, status), p, b)
<1> DEFINE u == Lost(s)
           t == LostRead(s)
           l == [s.lay EXCEPT !.conn = "dead", !.rd = 0, !.wr = FALSE,
                              !.left = 0, !.rcvd = <<>>, !.fin = FALSE]
<1> HIDE DEF u, t
<1>1. s \in Worlds /\ s.lay \in Layers
  BY DEF Fit, Worlds
<1>2. u = [s EXCEPT !.lay = l]
  BY <1>1 DEF Worlds, Layers, u, Lost
<1>3. /\ l \in Layers /\ l.rd = 0 /\ l.io = s.lay.io /\ l.conn = "dead"
      /\ l.dev = "tcp"
  <2>1. <<>> \in Seq(1 .. MaxData) /\ 0 \in 0 .. ICHAN_HOLD
    BY EmptySeq, HoldAssumption
  <2> QED
    BY <1>1, <2>1 DEF Layers
<1> HIDE DEF l
<1>4. Relaid(s, u) /\ u.lay = l
  BY <1>1, <1>2, <1>3, Relay
<1>5. Joined(u)
  BY <1>3, <1>4 DEF Flow, Joined, Relaid
<1>6. Roomy(u, b)
  BY <1>3, <1>4 DEF Flow, Roomy, Relaid
<1>7. Fit(u) /\ Flow(u, p, b)
  BY <1>3, <1>4, <1>5, <1>6, RelaidFit DEF Flow
<1>8. Fit(t) /\ Flow(t, p, b)
  <2>1. CASE s.lay.rd > 0
    <3>1. t = put_reply(u, -1, FALSE)
      BY <2>1 DEF t, u, LostRead
    <3>2. Ended(u, t, "READ") /\ Flow(t, p, b)
      BY <1>7, <3>1, FailEnded, FailFlow
    <3> QED
      BY <3>2 DEF Ended, Moved
  <2>2. CASE ~(s.lay.rd > 0)
    BY <1>7, <2>2 DEF t, u, LostRead
  <2> QED
    BY <2>1, <2>2
<1>9. Flow(get_reply(t, status, FALSE), p, b)
  BY <1>8, RepliesFlow
<1> QED
  BY <1>8, <1>9 DEF t, LostBoth

-----------------------------------------------------------------------------
(* The client and the stream it reads: what the program has, what the client
   holds, what is on its way and what the layer has, in that order, are what
   the peer sent; and what is on its way fits in the room the client has. *)
Attached == {"opening", "app", "await", "cancel"}

Room(c) == ICHAN_HOLD - Len(c.hold)

Streams(s, c, g) ==
  /\ g \in Seq(Units)
  /\ s.ch.inuse /\ c.pc \in Attached => Flow(s, g \o c.hold, Room(c))
  /\ ~s.ch.inuse /\ c.pc = "opening" => g = <<>>

SInv == Streams(Served, cl, got)

LEMMA RoomIs ==
  ASSUME NEW c \in Clients, Len(c.hold) <= ICHAN_HOLD
  PROVE  /\ c.hold \in Seq(Units) /\ Len(c.hold) \in Nat
         /\ Room(c) \in Nat /\ Room(c) + Len(c.hold) = ICHAN_HOLD
<1>1. c.hold \in Seq(Units) /\ Len(c.hold) \in Nat
  BY LenProperties DEF Clients
<1> QED
  BY <1>1, HoldAssumption DEF Room

LEMMA StreamNow ==
  ASSUME IInv, SInv, ch.inuse, cl.pc \in Attached
  PROVE  /\ got \in Seq(Units) /\ cl.hold \in Seq(Units)
         /\ got \o cl.hold \in Seq(Units) /\ Room(cl) \in Nat
         /\ Flow(Served, got \o cl.hold, Room(cl))
<1>1. cl \in Clients /\ Len(cl.hold) <= ICHAN_HOLD
  BY DEF IInv
<1>2. got \in Seq(Units) /\ Flow(Served, got \o cl.hold, Room(cl))
  BY ServedIs DEF SInv, Streams
<1>3. cl.hold \in Seq(Units) /\ Room(cl) \in Nat
  BY <1>1, RoomIs
<1>4. got \o cl.hold \in Seq(Units)
  BY ONLY <1>2, <1>3, ConcatProperties
<1> QED
  BY <1>2, <1>3, <1>4

(* A step of the daemon that leaves the client alone. *)
LEMMA DaemonStream ==
  ASSUME IInv, SInv, ch.inuse, NEW t, Reaches(Served, t), Become(t),
         UNCHANGED ClientSide,
         cl.pc \in Attached => Flow(t, got \o cl.hold, Room(cl))
  PROVE  SInv'
<1>1. t \in Worlds /\ t.ch.inuse
  BY WorldNow, ReachesIs, ServedIs DEF Sound, Fit
<1>2. Served' = t /\ cl' = cl /\ got' = got
  BY <1>1, BecomeIs DEF ClientSide
<1>3. Streams(t, cl, got)
  BY <1>1 DEF SInv, Streams
<1>4. SInv' = Streams(Served', cl', got')
  BY DEF SInv, Streams
<1> QED
  BY <1>2, <1>3, <1>4

LEMMA SameStream ==
  ASSUME SInv, Served' = Served, got' = got,
         cl'.hold = cl.hold, cl'.pc \in Attached => cl.pc \in Attached,
         cl'.pc = "opening" => cl.pc = "opening"
  PROVE  SInv'
<1>1. SInv' = Streams(Served', cl', got')
  BY DEF SInv, Streams
<1>2. Streams(Served, cl', got)
  BY DEF SInv, Streams, Room
<1> QED
  BY <1>1, <1>2

(* A client that has gone. *)
LEMMA GoneStream ==
  ASSUME cl'.pc \notin Attached, got' \in Seq(Units)
  PROVE  SInv'
<1>1. SInv' = Streams(Served', cl', got')
  BY DEF SInv, Streams
<1>2. Streams(Served', cl', got')
  BY DEF Streams, Attached
<1> QED
  BY <1>1, <1>2

LEMMA RequestStream ==
  ASSUME IInv, SInv, sr_chan_req, ~lay.strayed, ~lay'.strayed
  PROVE  SInv'
<1> DEFINE r == Head(req)
           s == Taken(r)
<1>1. /\ ch.inuse /\ ~misparsed /\ req # <<>>
      /\ r.op \in {"OPEN", "READ", "WRITE", "IOCTL", "CANCEL"}
      /\ UNCHANGED ClientSide
  BY DEF sr_chan_req, Readable
<1>2. PICK t \in Dispatch(s, r) : Become(t)
  BY DEF sr_chan_req
<1>3. InHand(s, r)
  BY <1>1, WorldNow, TakenInHand
<1> HIDE DEF r, s
<1>4. Reaches(Served, t) /\ ~t.lay.strayed
  BY <1>1, <1>2, <1>3, WorldNow, Dispatched DEF Become
<1>5. ASSUME cl.pc \in Attached
      PROVE  Flow(t, got \o cl.hold, Room(cl))
  <2> DEFINE p == got \o cl.hold
             b == Room(cl)
  <2>1. p \in Seq(Units) /\ b \in Nat /\ Flow(Served, p, b)
    BY <1>1, <1>5, StreamNow
  <2> HIDE DEF p, b
  <2>2. /\ Sound(Served) /\ Served \in Worlds /\ req \in Seq(Items) /\ r = Head(req)
        /\ s \in Worlds /\ Later(Served.req, s.req) /\ s.rep = Served.rep
        /\ s.lay = Served.lay /\ s.ch.open = Served.ch.open
    BY <1>1, <1>3, WorldNow, ServedIs DEF InHand, TakenOff, Passes
  <2>3. Flow(s, p, b)
    BY <2>1, <2>2, FlowDropped
  <2>4. r.op = "READ" => r.count <= b
    <3>1. Len(req) \in Nat /\ Len(req) # 0 /\ r = req[1]
      BY <1>1, <2>2, EmptySeq, HeadTailProperties, LenProperties
    <3>2. 1 \in 1 .. Len(req)
      BY <3>1
    <3> QED
      BY <2>1, <3>1, <3>2, ServedIs DEF Flow, Roomy
  <2>5. Flow(t, p, b)
    BY <1>1, <1>2, <1>3, <1>4, <2>1, <2>2, <2>3, <2>4, DispatchFlow
  <2> QED
    BY <2>5 DEF p, b
<1> QED
  BY <1>1, <1>2, <1>4, <1>5, DaemonStream

(* A channel is closed only once its client has gone. *)
LEMMA CloseIdle ==
  ASSUME IInv, ChanClose
  PROVE  cl.pc = "idle"
<1> DEFINE r == Head(req)
           s == Taken(r)
<1>1. ch.inuse /\ ~misparsed /\ req # <<>> /\ r.op = "CLOSE"
  BY DEF ChanClose, Readable
<1>2. InHand(s, r)
  BY <1>1, WorldNow, TakenInHand
<1>3. /\ Fit(s) /\ Served \in Worlds
      /\ Asks(Served, "CLOSE") = Asks(s, "CLOSE") + One("CLOSE" = "CLOSE")
  BY <1>1, <1>2, WorldNow DEF InHand, TakenOff, Ops
<1> HIDE DEF r, s
<1>4. Owed(Served, "CLOSE") > 0
  <2>1. /\ Asks(s, "CLOSE") \in Nat /\ Tells(Served, "CLOSE") \in Nat
        /\ Holds(Served, "CLOSE") \in {0, 1} /\ One("CLOSE" = "CLOSE") = 1
    BY <1>3, Counts DEF Fit, One
  <2> QED
    BY <1>3, <2>1 DEF Owed
<1>5. cl \in Clients /\ Attended(Served, cl)
  BY <1>1 DEF IInv
<1>6. cl.pc \notin {"opening", "stuck"}
  <2>1. Opening(Served) => Owed(Served, "CLOSE") = 0
    BY DEF Opening, Ops
  <2> QED
    BY <1>4, <1>5, <2>1 DEF Attended
<1>7. cl.pc \notin {"app", "await", "cancel"}
  BY <1>4, <1>5 DEF Attended, AtWork, Counted
<1> QED
  BY <1>5, <1>6, <1>7 DEF Clients

LEMMA ClosesStream ==
  ASSUME IInv, SInv, ChanClose \/ ChanEof
  PROVE  SInv'
<1>1. cl.pc = "idle"
  BY CloseIdle DEF ChanEof
<1>2. cl' = cl /\ got' = got
  BY DEF ChanClose, ChanEof, ClientSide
<1>3. got \in Seq(Units)
  BY DEF SInv, Streams
<1>4. cl'.pc \notin Attached
  BY <1>1, <1>2 DEF Attached
<1> QED
  BY <1>2, <1>3, <1>4, GoneStream

LEMMA AcceptStream ==
  ASSUME IInv, SInv, sr_accept
  PROVE  SInv'
<1>1. /\ ~ch.inuse /\ ch' = FreshChan /\ cl' = cl /\ got' = got
      /\ req' = req /\ rep' = rep /\ lay' = lay
  BY DEF sr_accept, ClientSide
<1>2. Unserved(Served, cl)
  BY <1>1 DEF IInv
<1>3. got \in Seq(Units)
  BY DEF SInv, Streams
<1>4. CASE cl.pc \notin Attached
  BY <1>1, <1>3, <1>4, GoneStream
<1>5. CASE cl.pc \in Attached
  <2>1. /\ cl.pc = "opening" /\ rep = <<>> /\ cl.hold = <<>>
        /\ \E dev \in Devices : req = <<Request("OPEN", 0, dev, 0)>>
        /\ lay = [NoLayer EXCEPT !.stale = lay.stale]
    BY <1>2, <1>5, ServedIs DEF Unserved, Attached
  <2>2. got = <<>>
    BY <1>1, <2>1, ServedIs DEF SInv, Streams
  <2>3. PICK dev \in Devices : req = <<Request("OPEN", 0, dev, 0)>>
    BY <2>1
  <2>4. /\ lay.rd = 0 /\ lay.seq = 0 /\ lay.conn = "no" /\ ~lay.io /\ lay.rcvd = <<>>
        /\ lay.dev = "none"
    <3> DEFINE n == lay.stale
    <3>1. lay = [NoLayer EXCEPT !.stale = n]
      BY <2>1
    <3> HIDE DEF n
    <3> QED
      BY <3>1 DEF NoLayer, FreshLayer
  <2>5. ~FreshChan.open
    BY DEF FreshChan
  <2>6. Room(cl) \in Nat
    BY RoomIs DEF IInv
  <2> DEFINE e == <<>>
  <2>7. e \in Seq(Units) /\ Len(e) = 0 /\ e \o e = e
    BY EmptySeq, ConcatEmptySeq
  <2>8. got \o cl.hold = e /\ Served'.lay.rcvd = e /\ Flat(Served'.rep) = e
    <3>1. Flat(Served'.rep) = e
      BY <1>1, <2>1, FlatEmpty, ServedNext
    <3>2. Served'.lay.rcvd = e
      BY <1>1, <2>4, ServedNext
    <3>3. got \o cl.hold = e
      BY <2>1, <2>2, <2>7
    <3> QED
      BY <3>1, <3>2, <3>3
  <2>9. UpTo(Served'.lay.seq) = e
    <3>1. Served'.lay.seq = 0
      BY <1>1, <2>4, ServedNext
    <3> QED
      BY <3>1 DEF UpTo
  <2> HIDE DEF e
  <2>10. Whole(Served', got \o cl.hold)
    BY <2>7, <2>8, <2>9 DEF Whole, Onward
  <2>11. Joined(Served')
    BY <1>1, <2>4, <2>5, ServedNext DEF Joined
  <2>12. Roomy(Served', Room(cl))
    <3>1. Len(rep) = 0
      BY <2>1, EmptySeq
    <3>2. Len(req) = 1 /\ req[1].op = "OPEN"
      BY <2>3 DEF Request
    <3>3. Served'.lay.rd <= Room(cl)
      BY <1>1, <2>4, <2>6, ServedNext
    <3>4. \A k \in 1 .. Len(req) : req[k].op # "READ"
      BY <3>2
    <3>5. \A k \in 1 .. Len(rep) : rep[k].rop # "READ"
      BY <3>1
    <3> QED
      BY <1>1, <3>3, <3>4, <3>5, ServedNext DEF Roomy
  <2>13. Flow(Served', got \o cl.hold, Room(cl))
    BY <2>10, <2>11, <2>12 DEF Flow
  <2>14. Served'.ch.inuse
    BY <1>1, ServedNext DEF FreshChan
  <2>15. Streams(Served', cl', got')
    BY <1>1, <1>3, <2>13, <2>14 DEF Streams
  <2>16. SInv' = Streams(Served', cl', got')
    BY DEF SInv, Streams
  <2> QED
    BY <2>15, <2>16
<1> QED
  BY <1>4, <1>5

-----------------------------------------------------------------------------
(* The events of the network. *)
LEMMA EventStream ==
  ASSUME IInv, SInv, NEW t, Event(t), Kept(Served, t),
         cl.pc \in Attached => Flow(t, got \o cl.hold, Room(cl))
  PROVE  SInv'
BY DaemonStream DEF Event, Reaches

(* What there is to show of one. *)
LEMMA EventFlow ==
  ASSUME IInv, SInv, ch.inuse, ch.open, cl.pc \in Attached
  PROVE  /\ Fit(Served) /\ Served.ch.open /\ Served.lay = lay
         /\ got \o cl.hold \in Seq(Units) /\ Room(cl) \in Nat
         /\ Flow(Served, got \o cl.hold, Room(cl))
BY WorldNow, ServedIs, StreamNow

LEMMA ArriveStream ==
  ASSUME IInv, SInv, NEW push \in BOOLEAN, Arrive(push), ~lay'.strayed
  PROVE  SInv'
<1> DEFINE t == NewData(Served, push)
<1>1. /\ ch.inuse /\ ch.open /\ lay.seq < MaxData /\ lay.conn = "yes"
      /\ Event(t) /\ ~t.lay.strayed
  BY DEF Arrive, Event, Become
<1>2. Reaches(Served, t)
  BY <1>1, EventNow, ArriveKept
<1>3. ASSUME cl.pc \in Attached PROVE Flow(t, got \o cl.hold, Room(cl))
  <2> DEFINE p == got \o cl.hold
             b == Room(cl)
  <2>1. /\ Fit(Served) /\ Served.lay = lay /\ p \in Seq(Units) /\ b \in Nat
        /\ Flow(Served, p, b)
    BY <1>1, <1>3, EventFlow
  <2> HIDE DEF p, b
  <2>2. Served.lay.conn = "yes" /\ Served.lay.seq < MaxData
    BY <1>1, <2>1
  <2>3. Flow(t, p, b)
    BY <1>1, <2>1, <2>2, NewDataFlow
  <2> QED
    BY <2>3 DEF p, b
<1> HIDE DEF t
<1> QED
  BY <1>1, <1>2, <1>3, DaemonStream DEF Event

LEMMA FinStream ==
  ASSUME IInv, SInv, Fin
  PROVE  SInv'
<1> DEFINE t == tcp_fd_read([Served EXCEPT !.lay.fin = TRUE])
<1>1. ch.inuse /\ ch.open /\ Event(t)
  BY DEF Fin, Event
<1>2. Kept(Served, t)
  BY <1>1, EventNow, FinKept
<1>3. ASSUME cl.pc \in Attached PROVE Flow(t, got \o cl.hold, Room(cl))
  <2> DEFINE p == got \o cl.hold
             b == Room(cl)
  <2>1. Fit(Served) /\ b \in Nat /\ Flow(Served, p, b)
    BY <1>1, <1>3, EventFlow
  <2> HIDE DEF p, b
  <2>2. Flow(t, p, b)
    BY <2>1, FinFlow
  <2> QED
    BY <2>2 DEF p, b
<1> HIDE DEF t
<1> QED
  BY <1>1, <1>2, <1>3, EventStream

LEMMA ConnectStream ==
  ASSUME IInv, SInv, NEW status \in Int, tcp_restart_connect(status)
  PROVE  SInv'
<1> DEFINE t == get_reply([Served EXCEPT !.lay.io = FALSE,
                  !.lay.conn = IF status = 0 THEN "yes" ELSE "no"], status, TRUE)
<1>1. ch.inuse /\ ch.open /\ lay.io /\ Event(t)
  BY DEF tcp_restart_connect, Event
<1>2. Kept(Served, t)
  BY <1>1, EventNow, ConnectKept
<1>3. ASSUME cl.pc \in Attached PROVE Flow(t, got \o cl.hold, Room(cl))
  <2> DEFINE p == got \o cl.hold
             b == Room(cl)
  <2>1. /\ Fit(Served) /\ Served.ch.open /\ Served.lay = lay /\ b \in Nat
        /\ Flow(Served, p, b)
    BY <1>1, <1>3, EventFlow
  <2> HIDE DEF p, b
  <2>2. Served.lay.io
    BY <1>1, <2>1
  <2>3. Flow(t, p, b)
    BY <2>1, <2>2, ConnectFlow
  <2> QED
    BY <2>3 DEF p, b
<1> HIDE DEF t
<1> QED
  BY <1>1, <1>2, <1>3, EventStream

LEMMA ResetStream ==
  ASSUME IInv, SInv, Reset
  PROVE  SInv'
<1> DEFINE status == IF lay.off > 0 THEN lay.off ELSE -1
           t == LostBoth(Served, status)
<1>1. /\ ch.inuse /\ ch.open /\ lay.dev = "tcp" /\ lay.conn = "yes"
      /\ Event(LostBoth(Served, status))
  BY ServedIs DEF Reset, Event, LostBoth, LostRead, Lost
<1>2. status \in Int
  BY DEF IInv, Layers
<1> HIDE DEF status
<1>3. Kept(Served, t)
  BY <1>1, <1>2, EventNow, ResetKept
<1>4. ASSUME cl.pc \in Attached PROVE Flow(t, got \o cl.hold, Room(cl))
  <2> DEFINE p == got \o cl.hold
             b == Room(cl)
  <2>1. /\ Fit(Served) /\ Served.ch.open /\ Served.lay = lay
        /\ p \in Seq(Units) /\ b \in Nat /\ Flow(Served, p, b)
    BY <1>1, <1>4, EventFlow
  <2> HIDE DEF p, b
  <2>2. Served.lay.dev = "tcp" /\ Served.lay.conn = "yes"
    BY <1>1, <2>1
  <2>3. Flow(t, p, b)
    BY <1>2, <2>1, <2>2, ResetFlow
  <2> QED
    BY <2>3 DEF p, b
<1> HIDE DEF t
<1>5. Event(t)
  BY <1>1 DEF t
<1> QED
  BY <1>3, <1>4, <1>5, EventStream

LEMMA WindowStream ==
  ASSUME IInv, SInv, WindowOpens
  PROVE  SInv'
<1>1. lay.wr /\ ~misparsed
  BY DEF WindowOpens
<1>2. ch.inuse
  <2>2. Unserved(Served, cl) => ~lay.wr
    BY ServedIs, EmptiedIs DEF Unserved, Emptied, IInv
  <2> QED
    BY <1>1, <2>2 DEF IInv, Chans
<1>3. PICK w \in 1 .. lay.left :
        IF \A k \in 1 .. w : k <= Len(req) /\ req[k] = Payload
        THEN Event(tcp_fd_write(Served, w))
        ELSE /\ misparsed' = TRUE
             /\ UNCHANGED <<req, rep, ch, lay, ClientSide>>
  BY DEF WindowOpens
<1>4. /\ req \in Seq(Items) /\ Lead(req, ch.avail) /\ ch.avail \in Nat
      /\ AvailLay(Served) /\ lay.left \in Nat
  BY <1>2, WorldNow, ServedIs DEF Fit, IInv, Chans, Layers
<1>5. w \in Nat /\ w >= 1 /\ lay.left > 0
  BY <1>4
<1>6. CASE \A k \in 1 .. w : k <= Len(req) /\ req[k] = Payload
  <2> DEFINE t == tcp_fd_write(Served, w)
  <2>1. Event(t) /\ ch.open
    BY <1>3, <1>6 DEF Event
  <2>2. lay.left = ch.avail
    BY <1>4, <1>5, <1>6, HeadOrNone, ServedIs DEF AvailLay
  <2>3. Kept(Served, t)
    BY <1>1, <1>2, <1>5, <2>1, <2>2, EventNow, ServedIs, WindowKept
  <2>4. ASSUME cl.pc \in Attached PROVE Flow(t, got \o cl.hold, Room(cl))
    <3> DEFINE p == got \o cl.hold
               b == Room(cl)
    <3>1. /\ Fit(Served) /\ b \in Nat /\ Flow(Served, p, b)
      BY <1>2, <2>1, <2>4, EventFlow
    <3>2. Served.lay.left = Served.ch.avail
      BY <2>2, ServedIs
    <3> HIDE DEF p, b
    <3>3. Flow(t, p, b)
      BY <1>5, <3>1, <3>2, FdWriteFlow
    <3> QED
      BY <3>3 DEF p, b
  <2> HIDE DEF t
  <2> QED
    BY <2>1, <2>3, <2>4, EventStream
<1>7. CASE ~(\A k \in 1 .. w : k <= Len(req) /\ req[k] = Payload)
  <2>1. UNCHANGED <<req, rep, ch, lay, ClientSide>>
    BY <1>3, <1>7
  <2>2. Served' = Served /\ got' = got /\ cl' = cl
    BY <2>1, SameServed DEF ClientSide
  <2> QED
    BY <2>2, SameStream
<1> QED
  BY <1>6, <1>7

LEMMA PayloadStream ==
  ASSUME SInv, sr_chan_req_payload
  PROVE  SInv'
<1>1. Served' = Served /\ got' = got /\ cl' = cl
  BY SameServed DEF sr_chan_req_payload, ClientSide
<1> QED
  BY <1>1, SameStream

LEMMA InetStream ==
  ASSUME IInv, SInv, InetStep, ~lay.strayed, ~lay'.strayed
  PROVE  SInv'
<1>1. CASE sr_chan_req BY <1>1, RequestStream
<1>2. CASE sr_chan_req_payload BY <1>2, PayloadStream
<1>3. CASE ChanClose \/ ChanEof BY <1>3, ClosesStream
<1>4. CASE sr_accept BY <1>4, AcceptStream
<1>5. CASE \E push \in BOOLEAN : Arrive(push) BY <1>5, ArriveStream
<1>6. CASE Fin BY <1>6, FinStream
<1>7. CASE Reset BY <1>7, ResetStream
<1>8. CASE WindowOpens BY <1>8, WindowStream
<1>9. CASE \E status \in {0, -1} : tcp_restart_connect(status)
  <2>1. PICK status \in {0, -1} : tcp_restart_connect(status)
    BY <1>9
  <2>2. status \in Int
    OBVIOUS
  <2> QED
    BY <2>1, <2>2, ConnectStream
<1> QED
  BY <1>1, <1>2, <1>3, <1>4, <1>5, <1>6, <1>7, <1>8, <1>9
     DEF InetStep, Daemon, Network

-----------------------------------------------------------------------------
(* What the client does to what is on its way. *)
LEMMA FlowSent ==
  ASSUME NEW s \in Worlds, NEW x \in Items, NEW t, Sent(s, t, x),
         NEW p, NEW b, Flow(s, p, b), x.op = "READ" => x.count <= b
  PROVE  Flow(t, p, b)
<1>1. /\ s.req \in Seq(Items) /\ x.dlen \in Nat
      /\ t.req = Behind(s.req, x, x.dlen) /\ t.rep = s.rep
      /\ t.ch = s.ch /\ t.lay = s.lay
  BY WorldSeqs DEF Sent, Items
<1>2. Follows(t.req, s.req, x, x.dlen)
  BY <1>1, BehindIs
<1>3. Along(s, t) /\ Onward(t) = Onward(s)
  BY <1>1 DEF Along, Onward
<1>4. ASSUME NEW k \in 1 .. Len(t.req), t.req[k].op = "READ"
      PROVE  t.req[k].count <= b
  <2> DEFINE m == Len(s.req)
             n == x.dlen
  <2>1. /\ m \in Nat /\ n \in Nat /\ Len(t.req) = m + 1 + n
        /\ \A i \in 1 .. m : t.req[i] = s.req[i]
        /\ t.req[m + 1] = x
        /\ \A i \in m + 2 .. m + 1 + n : t.req[i] = Payload
    BY <1>1, <1>2 DEF Follows
  <2>2. \A i \in 1 .. m : s.req[i].op = "READ" => s.req[i].count <= b
    BY DEF Flow, Roomy
  <2>3. Payload.op # "READ"
    BY PayloadItem
  <2> HIDE DEF m, n
  <2>4. k \in 1 .. m \/ k = m + 1 \/ k \in m + 2 .. m + 1 + n
    BY <2>1
  <2> QED
    BY <1>4, <2>1, <2>2, <2>3, <2>4
<1>5. Roomy(t, b)
  BY <1>1, <1>4 DEF Roomy, Flow
<1> QED
  BY <1>3, <1>5, FlowMoves

LEMMA FlowArmed ==
  ASSUME NEW s \in Worlds, NEW c \in Clients, Len(c.hold) <= ICHAN_HOLD,
         NEW t, Arming(s, t, c), NEW p, Flow(s, p, Room(c))
  PROVE  Flow(t, p, Room(c))
<1>1. CASE Arms(c)
  <2> DEFINE n == Room(c)
             x == Request("READ", n, "", 0)
  <2>1. n \in 1 .. ICHAN_HOLD
    <3>1. n \in Nat /\ n + Len(c.hold) = ICHAN_HOLD /\ Len(c.hold) \in Nat
      BY RoomIs
    <3> HIDE DEF n
    <3> QED
      BY <1>1, <3>1, HoldAssumption DEF Arms
  <2>2. t.req = Behind(s.req, x, 0)
    BY <1>1 DEF Arming, ArmedReq, ichan_send, Behind, Room
  <2> HIDE DEF n
  <2>3. /\ x \in [op : Ops \cup {"payload"}, count : Nat, what : Kinds, dlen : Nat]
        /\ x.op = "READ" /\ x.count = n /\ x.what = "" /\ x.dlen = 0
    BY <2>1, HoldAssumption DEF Request, Ops, Suspendable, Kinds
  <2> HIDE DEF x
  <2>4. x \in Items
    BY <2>1, <2>3 DEF Items, Meant
  <2>5. Sent(s, t, x)
    BY <2>2, <2>3 DEF Sent, Arming
  <2>6. x.count <= n
    <3>1. n <= n
      BY <2>1, HoldAssumption
    <3>2. x.count = n
      BY <2>3
    <3> QED
      BY <3>1, <3>2
  <2>7. Flow(s, p, n)
    BY DEF n
  <2>8. Flow(t, p, n)
    BY <2>4, <2>5, <2>6, <2>7, FlowSent
  <2> QED
    BY <2>8 DEF n
<1>2. CASE ~Arms(c)
  <2>1. t = s
    BY <1>2 DEF Arming, ArmedReq, IsWorld, Worlds
  <2> QED
    BY <2>1
<1> QED
  BY <1>1, <1>2

(* The room there is counts only while a READ is outstanding. *)
LEMMA Unasked ==
  ASSUME NEW s \in Worlds, PendLay(s), Owed(s, "READ") = 0, NEW b \in Nat
  PROVE  Roomy(s, b)
<1>1. /\ Asks(s, "READ") \in Nat /\ Tells(s, "READ") \in Nat
      /\ Holds(s, "READ") \in {0, 1}
  BY Counts
<1>2. Asks(s, "READ") = 0 /\ Tells(s, "READ") = 0 /\ Holds(s, "READ") = 0
  BY <1>1 DEF Owed
<1>3. \A k \in 1 .. Len(s.req) : s.req[k].op # "READ"
  BY <1>2, AskedSomewhere
<1>4. \A k \in 1 .. Len(s.rep) : s.rep[k].rop # "READ"
  BY <1>2, ToldSomewhere
<1>5. s.lay.rd = 0
  <2>1. ~s.ch.pend["READ"]
    BY <1>2 DEF Holds, Suspendable
  <2>2. s.lay.rd \in Nat
    BY WorldSeqs DEF Layers
  <2> QED
    BY <2>1, <2>2 DEF PendLay
<1> QED
  BY <1>3, <1>4, <1>5 DEF Roomy

LEMMA FlowWider ==
  ASSUME NEW s \in Worlds, NEW p, NEW a \in Nat, NEW b \in Nat, a <= b, Flow(s, p, a)
  PROVE  Flow(s, p, b)
<1>1. /\ s.req \in Seq(Items) /\ s.rep \in Seq(Replies) /\ s.lay.rd \in Nat
  BY WorldSeqs DEF Layers
<1>2. \A k \in 1 .. Len(s.req) : s.req[k].count \in Nat
  BY <1>1, ElementOfSeq DEF Items
<1>3. \A k \in 1 .. Len(s.rep) : Len(s.rep[k].data) \in Nat
  BY <1>1, ElementOfSeq, LenProperties DEF Replies
<1>4. Roomy(s, b)
  BY <1>1, <1>2, <1>3 DEF Flow, Roomy
<1> QED
  BY <1>4 DEF Flow

(* A reply taken off the FIFO goes, with its data, to the client. *)
LEMMA FlowPopped ==
  ASSUME NEW s \in Worlds, NEW t, Popped(s, t), NEW p \in Seq(Units), NEW b,
         Flow(s, p, b)
  PROVE  Flow(t, p \o RData(Head(s.rep)), b)
<1> DEFINE r == Head(s.rep)
           x == RData(r)
           y == Flat(t.rep)
           z == s.lay.rcvd
<1>1. /\ s.rep \in Seq(Replies) /\ s.rep # <<>> /\ t.rep = Tail(s.rep)
      /\ t.req = s.req /\ t.ch = s.ch /\ t.lay = s.lay /\ s.lay \in Layers
  BY WorldSeqs DEF Popped
<1>2. r \in Replies /\ t.rep \in Seq(Replies)
  BY <1>1, HeadTailProperties, EmptySeq
<1>3. x \in Seq(Units) /\ y \in Seq(Units) /\ z \in Seq(Units)
  BY <1>1, <1>2, DataIs, FlatType, UnitSeq DEF Layers
<1>4. Flat(s.rep) = x \o y
  BY <1>1, FlatTail
<1>5. (p \o x) \o (y \o z) = p \o ((x \o y) \o z)
  <2> HIDE DEF x, y, z
  <2> DEFINE w == y \o z
  <2>1. w \in Seq(Units)
    BY ONLY <1>3, ConcatProperties
  <2>5. p \in Seq(Units) /\ x \in Seq(Units) /\ w \in Seq(Units)
    BY <1>3, <2>1
  <2> HIDE DEF w
  <2>4. (p \o x) \o w = p \o (x \o w)
    BY ONLY <2>5, Grouped
  <2>2. (p \o x) \o (y \o z) = p \o (x \o (y \o z))
    BY <2>4 DEF w
  <2>3. (x \o y) \o z = x \o (y \o z)
    BY ONLY <1>3, Grouped
  <2> QED
    BY <2>2, <2>3
<1>6. Onward(t) = y \o z /\ Onward(s) = (x \o y) \o z
  BY <1>1, <1>4 DEF Onward
<1> HIDE DEF x, y, z
<1>7. (p \o x) \o Onward(t) = p \o Onward(s)
  BY <1>5, <1>6
<1>8. t.lay.conn # "dead" => Whole(t, p \o x)
  BY <1>1, <1>7 DEF Whole, Flow
<1>9. Joined(t)
  BY <1>1 DEF Flow, Joined
<1>10. Roomy(t, b)
  <2>1. ASSUME NEW k \in 1 .. Len(t.rep), t.rep[k].rop = "READ"
        PROVE  Len(t.rep[k].data) <= b
    <3>1. /\ Len(s.rep) \in Nat /\ Len(t.rep) = Len(s.rep) - 1
          /\ \A i \in 1 .. Len(s.rep) - 1 : t.rep[i] = s.rep[i + 1]
      BY <1>1, HeadTailProperties, LenProperties, EmptySeq
    <3>2. k \in 1 .. Len(s.rep) - 1 /\ k + 1 \in 1 .. Len(s.rep)
      BY <3>1
    <3>3. t.rep[k] = s.rep[k + 1]
      BY <3>1, <3>2
    <3> QED
      BY <2>1, <3>2, <3>3 DEF Flow, Roomy
  <2> QED
    BY <1>1, <2>1 DEF Flow, Roomy
<1>11. Flow(t, p \o x, b)
  BY <1>8, <1>9, <1>10 DEF Flow
<1> QED
  BY <1>11 DEF x

(* ichan_take(): there is room for all the data of the READ. *)
LEMMA TakeAll ==
  ASSUME NEW c \in Clients, Len(c.hold) <= ICHAN_HOLD, NEW r \in Replies,
         r.rop = "READ", Len(r.data) <= Room(c)
  PROVE  ichan_take(c, r).hold = c.hold \o r.data
<1>1. /\ r.data \in Seq(Units) /\ Len(r.data) \in Nat /\ Room(c) \in Nat
  BY RoomIs, LenProperties DEF Replies
<1> DEFINE m == Room(c)
           l == Len(r.data)
           n == IF l < m THEN l ELSE m
<1>2. n = l
  <2>1. l \in Nat /\ m \in Nat /\ l <= m
    BY <1>1
  <2> HIDE DEF l, m
  <2> QED
    BY <2>1
<1>3. ichan_take(c, r).hold = c.hold \o SubSeq(r.data, 1, n)
  BY DEF ichan_take, Clients, Room
<1> HIDE DEF n
<1>4. SubSeq(r.data, 1, l) = r.data
  BY <1>1, SubSeqFull
<1> QED
  BY <1>2, <1>3, <1>4

LEMMA TakeFlow ==
  ASSUME NEW s, Sound(s), NEW t, Sound(t), Popped(s, t),
         NEW c \in Clients, Len(c.hold) <= ICHAN_HOLD,
         NEW d, d = ichan_take(c, Head(s.rep)), d \in Clients,
         Len(d.hold) <= ICHAN_HOLD,
         Head(s.rep).rop = "READ" => Owed(t, "READ") = 0,
         NEW g \in Seq(Units), Flow(s, g \o c.hold, Room(c))
  PROVE  Flow(t, g \o d.hold, Room(d))
<1> DEFINE r == Head(s.rep)
           h == c.hold
           p == g \o h
           b == Room(c)
<1>1. /\ s \in Worlds /\ t \in Worlds /\ s.rep \in Seq(Replies) /\ s.rep # <<>>
      /\ PendLay(t)
  BY WorldSeqs, MatchedIs DEF Sound, Fit, Popped
<1>2. r \in Replies /\ r = s.rep[1] /\ Len(s.rep) \in Nat /\ Len(s.rep) # 0
  BY <1>1, HeadTailProperties, EmptySeq, LenProperties
<1>3. h \in Seq(Units) /\ b \in Nat /\ Room(d) \in Nat
  BY RoomIs
<1>4. p \in Seq(Units)
  <2> HIDE DEF h
  <2> QED
    BY ONLY <1>3, g \in Seq(Units), ConcatProperties
<1> HIDE DEF h, p, b
<1>5. Flow(s, p, b)
  BY DEF h, p, b
<1>6. Flow(t, p \o RData(r), b)
  BY <1>1, <1>4, <1>5, FlowPopped
<1> HIDE DEF r
<1>7. CASE r.rop # "READ"
  <2>1. d = c /\ RData(r) = <<>>
    BY <1>7 DEF ichan_take, RData, r
  <2>2. p \o <<>> = p
    BY <1>4, ConcatEmptySeq
  <2> QED
    BY <1>6, <2>1, <2>2 DEF p, b, h
<1>8. CASE r.rop = "READ"
  <2>1. Len(r.data) <= b /\ RData(r) = r.data /\ r.data \in Seq(Units)
    <3>1. 1 \in 1 .. Len(s.rep)
      BY <1>2
    <3> QED
      BY <1>2, <1>5, <1>8, <3>1 DEF Flow, Roomy, RData, Replies
  <2>2. d.hold = h \o r.data
    BY <1>2, <1>8, <2>1, TakeAll DEF b, h, r
  <2> DEFINE x == r.data
  <2>3. x \in Seq(Units)
    BY <2>1
  <2> HIDE DEF x
  <2>4. (g \o h) \o x = g \o (h \o x)
    BY ONLY <1>3, <2>3, g \in Seq(Units), Grouped
  <2>5. Flow(t, g \o d.hold, b)
    BY <1>6, <2>1, <2>2, <2>4 DEF p, x
  <2>6. Roomy(t, Room(d))
    <3>1. Owed(t, "READ") = 0
      BY <1>8 DEF r
    <3> QED
      BY <1>1, <1>3, <3>1, Unasked
  <2> QED
    BY <2>5, <2>6 DEF Flow
<1> QED
  BY <1>7, <1>8

-----------------------------------------------------------------------------
(* The steps of the client. *)
LEMMA ClientStream ==
  ASSUME got' \in Seq(Units), cl'.pc # "opening",
         Flow(Served', got' \o cl'.hold, Room(cl'))
  PROVE  SInv'
<1>1. Streams(Served', cl', got')
  BY DEF Streams
<1>2. SInv' = Streams(Served', cl', got')
  BY DEF SInv, Streams
<1> QED
  BY <1>1, <1>2

(* The client at work. *)
LEMMA WorkStream ==
  ASSUME IInv, SInv, cl.pc \in {"app", "await", "cancel"}
  PROVE  /\ ch.inuse /\ Sound(Served) /\ Served \in Worlds
         /\ cl \in Clients /\ Len(cl.hold) <= ICHAN_HOLD
         /\ got \in Seq(Units) /\ Flow(Served, got \o cl.hold, Room(cl))
BY WorkNow, StreamNow DEF Attached

LEMMA OpenStream ==
  ASSUME IInv, NEW dev \in Devices, ichan_open(dev)
  PROVE  SInv'
<1>1. ~ch.inuse /\ ch' = ch /\ got' = <<>>
  BY DEF ichan_open, DaemonSide
<1>2. ~Served'.ch.inuse /\ got' \in Seq(Units)
  BY <1>1, ServedNext, EmptySeq
<1>3. Streams(Served', cl', got')
  BY <1>1, <1>2 DEF Streams
<1>4. SInv' = Streams(Served', cl', got')
  BY DEF SInv, Streams
<1> QED
  BY <1>3, <1>4

LEMMA OpenReplyStream ==
  ASSUME IInv, SInv, OpenReply
  PROVE  SInv'
<1> DEFINE r == Head(rep)
           p == got \o cl.hold
           b == Room(cl)
<1>1. /\ cl.pc = "opening" /\ rep # <<>> /\ rep' = Tail(rep) /\ req' = req
      /\ cl' = [cl EXCEPT !.pc = IF r.status < 0 THEN "idle" ELSE "app"]
      /\ UNCHANGED DaemonSide /\ ch' = ch /\ lay' = lay /\ got' = got
  BY DEF OpenReply, DaemonSide
<1>2. ch.inuse
  BY <1>1, ServedIs DEF IInv, Unserved
<1>3. Sound(Served) /\ Opening(Served) /\ cl \in Clients
  BY <1>1, <1>2, OpeningNow
<1>4. Popped(Served, Served')
  BY <1>1, ServedIs, ServedNext DEF Popped
<1>5. /\ Sound(Served') /\ Paid(Served, Served', r.rop)
      /\ r \in Replies /\ r.rop \in Ops
  BY <1>3, <1>4, PoppedSound, ServedIs
<1>6. r.rop = "OPEN"
  <2>1. rep \in Seq(Replies) /\ Served.rep = rep
    BY <1>2, WorldNow, ServedIs
  <2>2. Len(rep) > 0 /\ r = rep[1]
    BY <1>1, <2>1, HeadTailProperties, EmptySeq, LenProperties
  <2> QED
    BY <1>3, <2>1, <2>2 DEF Opening
<1>7. got \in Seq(Units) /\ p \in Seq(Units) /\ b \in Nat /\ Flow(Served, p, b)
  BY <1>1, <1>2, StreamNow DEF Attached
<1>8. /\ cl'.hold = cl.hold
      /\ cl'.pc \in {"idle", "app"}
  BY <1>1, <1>3 DEF Clients
<1> HIDE DEF p, b
<1>9. Flow(Served', p \o RData(r), b)
  BY <1>3, <1>4, <1>7, FlowPopped, ServedIs DEF Sound, Fit
<1>10. RData(r) = <<>> /\ p \o <<>> = p
  BY <1>6, <1>7, ConcatEmptySeq DEF RData
<1>11. Flow(Served', got' \o cl'.hold, Room(cl'))
  BY <1>1, <1>8, <1>9, <1>10 DEF p, b, Room
<1> QED
  BY <1>1, <1>7, <1>8, <1>11, ClientStream

LEMMA OpenInterruptedStream ==
  ASSUME IInv, SInv, OpenInterrupted
  PROVE  SInv'
<1>1. cl' = [cl EXCEPT !.pc = "stuck"] /\ got' = got /\ cl \in Clients
  BY DEF OpenInterrupted, IInv
<1>2. cl'.pc \notin Attached /\ got' \in Seq(Units)
  BY <1>1 DEF Clients, Attached, SInv, Streams
<1> QED
  BY <1>2, GoneStream

LEMMA LeavesStream ==
  ASSUME ichan_close \/ Exit
  PROVE  SInv'
<1>1. cl' = NoClient /\ got' = <<>>
  BY DEF ichan_close, Exit
<1>2. cl'.pc \notin Attached /\ got' \in Seq(Units)
  BY <1>1, NoClientIs, EmptySeq DEF Attached
<1> QED
  BY <1>2, GoneStream

(* Another request than a READ. *)
LEMMA AskedStream ==
  ASSUME IInv, SInv, cl.pc \in {"app", "await", "cancel"},
         NEW x \in Items, x.op # "READ", Sent(Served, Served', x),
         cl'.hold = cl.hold, cl'.pc # "opening", got' = got
  PROVE  SInv'
<1> DEFINE p == got \o cl.hold
           b == Room(cl)
<1>1. Served \in Worlds /\ got \in Seq(Units) /\ Flow(Served, p, b)
  BY WorkStream
<1> HIDE DEF p, b
<1>2. Flow(Served', p, b)
  BY <1>1, FlowSent
<1>3. Flow(Served', got' \o cl'.hold, Room(cl'))
  BY <1>2 DEF p, b, Room
<1> QED
  BY <1>1, <1>3, ClientStream

LEMMA WriteStream ==
  ASSUME IInv, SInv, NEW n \in WriteSizes, ichan_write(n)
  PROVE  SInv'
<1> DEFINE x == Request("WRITE", n, "", n)
<1>1. /\ Running /\ cl' = [cl EXCEPT !.pc = "await", !.want = "WRITE"]
      /\ req' = ichan_send(req, "WRITE", n, "", n)
      /\ rep' = rep /\ ch' = ch /\ lay' = lay /\ got' = got
  BY DEF ichan_write, DaemonSide
<1>2. cl \in Clients /\ cl.pc = "app" /\ n \in Nat
  BY <1>1, SizesAssumption DEF IInv, Running
<1>3. /\ x \in [op : Ops \cup {"payload"}, count : Nat, what : Kinds, dlen : Nat]
      /\ x.op = "WRITE" /\ x.count = n /\ x.dlen = n
  BY <1>2 DEF Request, Ops, Suspendable, Kinds
<1>4. req' = Behind(req, x, n)
  BY <1>1 DEF ichan_send, Behind
<1> HIDE DEF x
<1>5. x \in Items
  BY <1>3 DEF Items, Meant
<1>6. Sent(Served, Served', x)
  BY <1>1, <1>3, <1>4, ServedIs, ServedNext DEF Sent
<1>7. cl'.hold = cl.hold /\ cl'.pc = "await"
  BY <1>1, <1>2 DEF Clients
<1> QED
  BY <1>1, <1>2, <1>3, <1>5, <1>6, <1>7, AskedStream

LEMMA IoctlsStream ==
  ASSUME IInv, SInv, Running, NEW what \in IoctlKinds, NEW n \in Nat,
         req' = ichan_send(req, "IOCTL", 1, what, n), rep' = rep,
         UNCHANGED DaemonSide, cl'.hold = cl.hold, cl'.pc # "opening", got' = got
  PROVE  SInv'
<1> DEFINE x == Request("IOCTL", 1, what, n)
<1>1. x \in Items /\ x.op = "IOCTL" /\ x.dlen = n
  BY IoctlItem
<1>2. req' = Behind(req, x, n) /\ ch' = ch /\ lay' = lay
  BY DEF ichan_send, Behind, DaemonSide
<1> HIDE DEF x
<1>3. Sent(Served, Served', x)
  BY <1>1, <1>2, ServedIs, ServedNext DEF Sent
<1>4. cl.pc \in {"app", "await", "cancel"}
  BY DEF Running
<1> QED
  BY <1>1, <1>3, <1>4, AskedStream

LEMMA IoctlStream ==
  ASSUME IInv, SInv, NEW what \in IoctlKinds, ichan_ioctl(what)
  PROVE  SInv'
<1> DEFINE n == ArgLen(what)
<1>1. /\ Running /\ cl' = [cl EXCEPT !.pc = "await", !.want = "IOCTL"]
      /\ req' = ichan_send(req, "IOCTL", 1, what, n)
      /\ rep' = rep /\ UNCHANGED DaemonSide /\ got' = got
  BY DEF ichan_ioctl
<1>2. n \in Nat
  BY DEF ArgLen
<1> HIDE DEF n
<1>3. cl'.hold = cl.hold /\ cl'.pc = "await"
  BY <1>1 DEF IInv, Clients
<1> QED
  BY <1>1, <1>2, <1>3, IoctlsStream

LEMMA PostIoctlStream ==
  ASSUME IInv, SInv, ichan_post_ioctl
  PROVE  SInv'
<1> DEFINE n == 1
           what == "listen"
<1>1. /\ Running /\ cl' = [cl EXCEPT !.ioposted = TRUE]
      /\ req' = ichan_send(req, "IOCTL", 1, what, n)
      /\ rep' = rep /\ UNCHANGED DaemonSide /\ got' = got
  BY DEF ichan_post_ioctl
<1>2. n \in Nat /\ what \in IoctlKinds
  BY DEF IoctlKinds
<1> HIDE DEF n, what
<1>3. cl'.hold = cl.hold /\ cl'.pc = "app"
  BY <1>1 DEF IInv, Clients, Running
<1> QED
  BY <1>1, <1>2, <1>3, IoctlsStream

LEMMA WaitIoctlStream ==
  ASSUME IInv, SInv, ichan_wait_ioctl
  PROVE  SInv'
<1>1. /\ cl.pc = "app" /\ Served' = Served /\ got' = got /\ cl \in Clients
      /\ cl' = [cl EXCEPT !.pc = "await", !.want = "IOCTL", !.ioposted = FALSE]
  BY SameServed DEF ichan_wait_ioctl, DaemonSide, IInv
<1>2. cl'.hold = cl.hold /\ cl'.pc = "await"
  BY <1>1 DEF Clients
<1> QED
  BY <1>1, <1>2, SameStream DEF Attached

LEMMA InterruptedStream ==
  ASSUME IInv, SInv, Interrupted
  PROVE  SInv'
<1> DEFINE x == Request("CANCEL", 0, cl.want, 0)
<1>1. /\ cl.pc = "await" /\ rep' = rep
      /\ cl' = [cl EXCEPT !.pc = "cancel", !.tries = 0]
      /\ req' = ichan_send(req, "CANCEL", 0, cl.want, 0)
      /\ ch' = ch /\ lay' = lay /\ got' = got
  BY DEF Interrupted, DaemonSide
<1>2. cl \in Clients /\ cl.want \in Suspendable
  BY <1>1, WorkNow DEF AtWork
<1>3. x \in Items /\ x.op = "CANCEL" /\ x.dlen = 0
  BY <1>2, CancelItem
<1>4. req' = Behind(req, x, 0)
  BY <1>1 DEF ichan_send, Behind
<1> HIDE DEF x
<1>5. Sent(Served, Served', x)
  BY <1>1, <1>3, <1>4, ServedIs, ServedNext DEF Sent
<1>6. cl'.hold = cl.hold /\ cl'.pc = "cancel"
  BY <1>1, <1>2 DEF Clients
<1> QED
  BY <1>1, <1>3, <1>5, <1>6, AskedStream

-----------------------------------------------------------------------------
(* ichan_arm(), from the record s. *)
LEMMA ArmedStream ==
  ASSUME NEW s \in Worlds, NEW c \in Clients, Len(c.hold) <= ICHAN_HOLD,
         Arming(s, Served', c), NEW g \in Seq(Units),
         Flow(s, g \o c.hold, Room(c)), got' = g,
         cl'.hold = c.hold, cl'.pc # "opening"
  PROVE  SInv'
<1> DEFINE p == g \o c.hold
<1>1. Flow(s, p, Room(c))
  OBVIOUS
<1> HIDE DEF p
<1>2. Flow(Served', p, Room(c))
  BY <1>1, FlowArmed
<1>3. Flow(Served', got' \o cl'.hold, Room(cl'))
  BY <1>2 DEF p, Room
<1> QED
  BY <1>3, ClientStream

LEMMA ArmStream ==
  ASSUME IInv, SInv, ichan_arm
  PROVE  SInv'
<1>1. /\ cl.pc = "app" /\ cl' = Armed(cl) /\ req' = ArmedReq(cl, req)
      /\ rep' = rep /\ ch' = ch /\ lay' = lay /\ got' = got
  BY DEF ichan_arm, DaemonSide, Running
<1>2. /\ Served \in Worlds /\ cl \in Clients /\ Len(cl.hold) <= ICHAN_HOLD
      /\ got \in Seq(Units) /\ Flow(Served, got \o cl.hold, Room(cl))
  BY <1>1, WorkStream
<1>3. Arming(Served, Served', cl)
  BY <1>1, ServedIs, ServedNext DEF Arming
<1>4. cl'.hold = cl.hold /\ cl'.pc = "app"
  BY <1>1, <1>2, ArmedClient
<1> QED
  BY <1>1, <1>2, <1>3, <1>4, ArmedStream

(* What is handed over goes from the hold buffer to the program. *)
LEMMA HandStream ==
  ASSUME NEW s \in Worlds, NEW c \in Clients, Len(c.hold) <= ICHAN_HOLD,
         got \in Seq(Units), Flow(s, got \o c.hold, Room(c)),
         HandOver(c, s.req), rep' = s.rep, ch' = s.ch, lay' = s.lay
  PROVE  SInv'
<1> DEFINE n == IF Len(c.hold) < c.max THEN Len(c.hold) ELSE c.max
           d == [c EXCEPT !.pc = "app", !.hold = SubSeq(@, n + 1, Len(@))]
           x == SubSeq(c.hold, 1, n)
           y == SubSeq(c.hold, n + 1, Len(c.hold))
           g == got \o x
<1>1. cl' = Armed(d) /\ req' = ArmedReq(d, s.req) /\ got' = g
  BY DEF HandOver
<1>2. c.hold \in Seq(Units) /\ c.max \in Nat /\ Len(c.hold) \in Nat
  BY LenProperties DEF Clients
<1>3. n \in 0 .. Len(c.hold) /\ n \in Nat
  BY <1>2
<1> HIDE DEF n
<1>4. /\ x \in Seq(Units) /\ y \in Seq(Units) /\ Len(y) = Len(c.hold) - n
      /\ x \o y = c.hold
  BY <1>2, <1>3, Divided
<1>5. d \in Clients /\ d.pc = "app" /\ d.hold = y
  BY <1>4 DEF Clients
<1> HIDE DEF d, x, y
<1>6. g \in Seq(Units) /\ (got \o x) \o y = got \o (x \o y)
  <2>1. got \in Seq(Units) /\ x \in Seq(Units) /\ y \in Seq(Units)
    BY <1>4
  <2>2. (got \o x) \o y = got \o (x \o y)
    BY ONLY <2>1, Grouped
  <2>3. g \in Seq(Units)
    BY ONLY <2>1, ConcatProperties
  <2> QED
    BY <2>2, <2>3
<1>7. Len(d.hold) <= ICHAN_HOLD /\ Room(c) <= Room(d) /\ Room(c) \in Nat
      /\ Room(d) \in Nat
  BY <1>2, <1>3, <1>4, <1>5, HoldAssumption DEF Room
<1>8. Flow(s, got \o c.hold, Room(d))
  <2> DEFINE p == got \o c.hold
             a == Room(c)
             b == Room(d)
  <2>1. a \in Nat /\ b \in Nat /\ a <= b /\ Flow(s, p, a)
    BY <1>7
  <2> HIDE DEF p, a, b
  <2>2. Flow(s, p, b)
    BY <2>1, FlowWider
  <2> QED
    BY <2>2 DEF p, b
<1>9. g \o d.hold = got \o c.hold
  BY <1>4, <1>5, <1>6
<1> HIDE DEF g
<1>10. Arming(s, Served', d)
  BY <1>1, ServedNext DEF Arming
<1>11. cl'.hold = d.hold /\ cl'.pc = "app"
  BY <1>1, <1>5, ArmedClient
<1>12. Flow(s, g \o d.hold, Room(d))
  BY <1>8, <1>9
<1> QED
  BY <1>1, <1>5, <1>6, <1>7, <1>10, <1>11, <1>12, ArmedStream

LEMMA RecvStream ==
  ASSUME IInv, SInv, NEW max \in ReadSizes, ichan_recv(max)
  PROVE  SInv'
<1> DEFINE c == [cl EXCEPT !.max = max]
<1>1. cl.pc = "app" /\ rep' = rep /\ ch' = ch /\ lay' = lay
  BY DEF ichan_recv, DaemonSide, Running
<1>2. /\ Served \in Worlds /\ cl \in Clients /\ Len(cl.hold) <= ICHAN_HOLD
      /\ got \in Seq(Units) /\ Flow(Served, got \o cl.hold, Room(cl))
  BY <1>1, WorkStream
<1>3. max \in Nat
  BY SizesAssumption
<1>4. CASE cl.hold # <<>>
  <2>1. HandOver(c, req)
    BY <1>4 DEF ichan_recv
  <2>2. c \in Clients /\ c.hold = cl.hold
    BY <1>2, <1>3 DEF Clients
  <2> HIDE DEF c
  <2>3. Flow(Served, got \o c.hold, Room(c)) /\ Len(c.hold) <= ICHAN_HOLD
    BY <1>2, <2>2 DEF Room
  <2> QED
    BY <1>1, <1>2, <2>1, <2>2, <2>3, ServedIs, HandStream
<1>5. CASE ~(cl.hold # <<>>)
  <2> DEFINE a == Armed(cl)
  <2>1. /\ cl' = [a EXCEPT !.pc = "await", !.want = "READ", !.max = max]
        /\ req' = ArmedReq(cl, req) /\ got' = got
    BY <1>5 DEF ichan_recv
  <2>2. Arming(Served, Served', cl)
    BY <1>1, <2>1, ServedIs, ServedNext DEF Arming
  <2>3. a \in Clients /\ a.hold = cl.hold
    BY <1>2, ArmedClient
  <2> HIDE DEF a
  <2>4. cl'.hold = cl.hold /\ cl'.pc = "await"
    BY <2>1, <2>3 DEF Clients
  <2> QED
    BY <1>2, <2>1, <2>2, <2>4, ArmedStream
<1> QED
  BY <1>4, <1>5

-----------------------------------------------------------------------------
(* A client that takes a reply.  d is the client, and u what is served, once
   it has taken the reply and before it goes on. *)
Takes(u, d) ==
  /\ u \in Worlds /\ u.req = req /\ u.rep = Tail(rep) /\ u.ch = ch /\ u.lay = lay
  /\ d \in Clients /\ Len(d.hold) <= ICHAN_HOLD /\ d.pc = cl.pc
  /\ got \in Seq(Units) /\ Flow(u, got \o d.hold, Room(d))

LEMMA TakesReply ==
  ASSUME IInv, SInv, ~lay.strayed, cl.pc \in {"await", "cancel"}, rep # <<>>,
         NEW u, u = [req |-> req, rep |-> Tail(rep), ch |-> ch, lay |-> lay]
  PROVE  Takes(u, ichan_take(cl, Head(rep)))
<1> DEFINE r == Head(rep)
           d == ichan_take(cl, r)
<1>1. /\ Sound(Served) /\ Served \in Worlds /\ AtWork(Served, cl)
      /\ cl \in Clients /\ Len(cl.hold) <= ICHAN_HOLD
      /\ got \in Seq(Units) /\ Flow(Served, got \o cl.hold, Room(cl))
  BY WorkNow, WorkStream
<1>2. Counted(Served, cl) /\ ~cl.ioposted
  BY <1>1 DEF AtWork
<1>3. u.req = req /\ u.rep = Tail(rep) /\ u.ch = ch /\ u.lay = lay
  OBVIOUS
<1>4. Popped(Served, u)
  BY ServedIs DEF Popped, IsWorld
<1>5. /\ Sound(u) /\ d \in Clients /\ Len(d.hold) <= ICHAN_HOLD /\ d.pc = cl.pc
      /\ Reading(u, d)
      /\ r.rop = "READ" => ~d.posted
  BY <1>1, <1>2, <1>4, ServedIs, TookReply
<1> HIDE DEF d
<1>6. r.rop = "READ" => Owed(u, "READ") = 0
  <2>1. One(u.lay.strayed) = 0
    BY <1>3 DEF One
  <2>2. ~d.posted => One(d.posted) = 0
    BY DEF One
  <2>3. Owed(u, "READ") \in One(d.posted) .. One(d.posted) + 0
    BY <1>5, <2>1 DEF Reading
  <2> QED
    BY <1>5, <2>2, <2>3
<1>7. Served.rep = rep
  BY ServedIs
<1>8. Flow(u, got \o d.hold, Room(d))
  <2>1. d = ichan_take(cl, Head(Served.rep))
    BY <1>7 DEF d
  <2>2. Head(Served.rep).rop = "READ" => Owed(u, "READ") = 0
    BY <1>6, <1>7
  <2> QED
    BY <1>1, <1>4, <1>5, <2>1, <2>2, TakeFlow
<1>9. u \in Worlds
  BY <1>5 DEF Sound, Fit
<1> QED
  BY <1>1, <1>3, <1>5, <1>8, <1>9 DEF Takes, d

(* It keeps what it holds, ... *)
LEMMA TakesStream ==
  ASSUME NEW u, NEW d, Takes(u, d), Served' = u, got' = got,
         cl'.hold = d.hold, cl'.pc # "opening"
  PROVE  SInv'
<1>1. Flow(Served', got' \o cl'.hold, Room(cl'))
  BY DEF Takes, Room
<1> QED
  BY <1>1, ClientStream DEF Takes

(* ... or ichan_recv() goes on. *)
LEMMA LoopStream ==
  ASSUME NEW u, NEW d, Takes(u, d), d.pc = "await", NEW status,
         RecvLoop(d, status),
         rep' = Tail(rep), ch' = ch, lay' = lay, req' = req => Served' = u
  PROVE  SInv'
<1>1. /\ u \in Worlds /\ u.req = req /\ u.rep = rep' /\ u.ch = ch' /\ u.lay = lay'
      /\ d \in Clients /\ Len(d.hold) <= ICHAN_HOLD
      /\ got \in Seq(Units) /\ Flow(u, got \o d.hold, Room(d))
  BY DEF Takes
<1>2. CASE d.hold # <<>>
  <2>1. HandOver(d, u.req)
    BY <1>1, <1>2 DEF RecvLoop
  <2> QED
    BY <1>1, <2>1, HandStream
<1>3. CASE d.hold = <<>> /\ status = 0
  <2>1. cl' = [d EXCEPT !.pc = "app"] /\ req' = req /\ got' = got
    BY <1>3 DEF RecvLoop
  <2>2. cl'.hold = d.hold /\ cl'.pc = "app"
    BY <1>1, <2>1 DEF Clients
  <2> QED
    BY <2>1, <2>2, TakesStream
<1>4. CASE d.hold = <<>> /\ status # 0
  <2>1. cl' = Armed(d) /\ req' = ArmedReq(d, req) /\ got' = got
    BY <1>4 DEF RecvLoop
  <2>2. Arming(u, Served', d)
    BY <1>1, <2>1, ServedNext DEF Arming
  <2>3. cl'.hold = d.hold /\ cl'.pc = "await"
    BY <1>1, <2>1, ArmedClient
  <2> QED
    BY <1>1, <2>1, <2>2, <2>3, ArmedStream
<1> QED
  BY <1>2, <1>3, <1>4

LEMMA AwaitStream ==
  ASSUME IInv, SInv, ~lay.strayed, ichan_await
  PROVE  SInv'
<1> DEFINE r == Head(rep)
           d == ichan_take(cl, r)
           u == [req |-> req, rep |-> Tail(rep), ch |-> ch, lay |-> lay]
<1>1. /\ cl.pc = "await" /\ rep # <<>> /\ rep' = Tail(rep)
      /\ ch' = ch /\ lay' = lay
      /\ \/ cl' = d /\ req' = req /\ got' = got
         \/ cl' = [d EXCEPT !.pc = "app"] /\ req' = req /\ got' = got
         \/ RecvLoop(d, r.status)
  BY DEF ichan_await, DaemonSide
<1>2. Takes(u, d)
  BY <1>1, TakesReply
<1>3. req' = req => Served' = u
  BY <1>1 DEF Served
<1> HIDE DEF d, u
<1>4. d \in Clients /\ d.pc = "await"
  BY <1>1, <1>2 DEF Takes
<1>5. CASE cl' = d /\ req' = req /\ got' = got
  BY <1>2, <1>3, <1>4, <1>5, TakesStream
<1>6. CASE cl' = [d EXCEPT !.pc = "app"] /\ req' = req /\ got' = got
  <2>1. cl'.hold = d.hold /\ cl'.pc = "app"
    BY <1>4, <1>6 DEF Clients
  <2> QED
    BY <1>2, <1>3, <1>6, <2>1, TakesStream
<1>7. CASE RecvLoop(d, r.status)
  BY <1>1, <1>2, <1>3, <1>4, <1>7, LoopStream
<1> QED
  BY <1>1, <1>5, <1>6, <1>7

LEMMA CancelStream ==
  ASSUME IInv, SInv, ~lay.strayed, ichan_cancel
  PROVE  SInv'
<1> DEFINE r == Head(rep)
           d == ichan_take(cl, r)
           u == [req |-> req, rep |-> Tail(rep), ch |-> ch, lay |-> lay]
           done == (r.rop = "CANCEL")
<1>1. /\ cl.pc = "cancel" /\ rep # <<>> /\ rep' = Tail(rep) /\ req' = req
      /\ ch' = ch /\ lay' = lay /\ got' = got /\ cl' = Tried(d, done)
  BY DEF ichan_cancel, DaemonSide
<1>2. Takes(u, d)
  BY <1>1, TakesReply
<1>3. Served' = u
  BY <1>1 DEF Served
<1>4. done \in BOOLEAN
  OBVIOUS
<1> HIDE DEF d, u, done
<1>5. d \in Clients /\ d.pc = "cancel"
  BY <1>1, <1>2 DEF Takes
<1>6. TriesOn(d, done, cl')
  BY <1>1, <1>4, <1>5, TriedIs
<1>7. cl'.hold = d.hold /\ cl'.pc # "opening"
  BY <1>4, <1>5, <1>6 DEF TriesOn
<1> QED
  BY <1>1, <1>2, <1>3, <1>7, TakesStream

LEMMA CancelInterruptedStream ==
  ASSUME IInv, SInv, CancelInterrupted
  PROVE  SInv'
<1> DEFINE no == FALSE
<1>1. /\ cl.pc = "cancel" /\ cl' = Tried(cl, no) /\ Served' = Served
      /\ got' = got /\ cl \in Clients
  BY SameServed DEF CancelInterrupted, DaemonSide, IInv
<1>2. no \in BOOLEAN
  OBVIOUS
<1> HIDE DEF no
<1>3. TriesOn(cl, no, cl')
  BY <1>1, <1>2, TriedIs
<1>4. cl'.hold = cl.hold /\ cl'.pc # "opening"
  BY <1>1, <1>2, <1>3 DEF TriesOn
<1> QED
  BY <1>1, <1>4, SameStream DEF Attached

-----------------------------------------------------------------------------
(* Every step of a channel that is given no other's answer. *)
LEMMA ProgramStream ==
  ASSUME IInv, SInv, ~lay.strayed, Program
  PROVE  SInv'
<1>1. CASE \E dev \in Devices : ichan_open(dev) BY <1>1, OpenStream
<1>2. CASE OpenReply BY <1>2, OpenReplyStream
<1>3. CASE OpenInterrupted BY <1>3, OpenInterruptedStream
<1>4. CASE ichan_arm BY <1>4, ArmStream
<1>5. CASE \E max \in ReadSizes : ichan_recv(max) BY <1>5, RecvStream
<1>6. CASE \E n \in WriteSizes : ichan_write(n) BY <1>6, WriteStream
<1>7. CASE \E what \in IoctlKinds : ichan_ioctl(what) BY <1>7, IoctlStream
<1>8. CASE ichan_post_ioctl BY <1>8, PostIoctlStream
<1>9. CASE ichan_wait_ioctl BY <1>9, WaitIoctlStream
<1>10. CASE ichan_await BY <1>10, AwaitStream
<1>11. CASE ichan_close \/ Exit BY <1>11, LeavesStream
<1> QED
  BY <1>1, <1>2, <1>3, <1>4, <1>5, <1>6, <1>7, <1>8, <1>9, <1>10, <1>11 DEF Program

LEMMA CleanStep ==
  ASSUME IInv, SInv, ~lay.strayed, ~lay'.strayed, [Next]_vars
  PROVE  SInv'
<1>1. CASE UNCHANGED vars
  <2>1. Served' = Served /\ cl' = cl /\ got' = got
    BY <1>1 DEF vars, Served
  <2> QED
    BY <2>1, SameStream
<1>2. CASE InetStep BY <1>2, InetStream
<1>3. CASE Program BY <1>3, ProgramStream
<1>4. CASE Interrupted BY <1>4, InterruptedStream
<1>5. CASE ichan_cancel BY <1>5, CancelStream
<1>6. CASE CancelInterrupted BY <1>6, CancelInterruptedStream
<1> QED
  BY <1>1, <1>2, <1>3, <1>4, <1>5, <1>6, EveryStep

(* What is kept of the stream until a channel is given another's answer, and
   again from its end on. *)
GInv == got \in Seq(Units) /\ (lay.strayed \/ SInv)

LEMMA SameGot ==
  ASSUME InetStep \/ Interrupted \/ ichan_cancel \/ CancelInterrupted
  PROVE  got' = got
BY DEF InetStep, Daemon, Network, sr_chan_req, sr_chan_req_payload, ChanClose, ChanEof,
       sr_accept, Arrive, Fin, Reset, WindowOpens, tcp_restart_connect, Event, ClientSide,
       Interrupted, ichan_cancel, CancelInterrupted

(* What the program reads are units of the hold buffer. *)
LEMMA HandedUnits ==
  ASSUME got \in Seq(Units), NEW c \in Clients, NEW q, HandOver(c, q)
  PROVE  got' \in Seq(Units)
<1> DEFINE n == IF Len(c.hold) < c.max THEN Len(c.hold) ELSE c.max
           x == SubSeq(c.hold, 1, n)
<1>1. c.hold \in Seq(Units) /\ c.max \in Nat /\ Len(c.hold) \in Nat
  BY LenProperties DEF Clients
<1>2. n \in 0 .. Len(c.hold) /\ got' = got \o x
  BY <1>1 DEF HandOver
<1> HIDE DEF n
<1>3. x \in Seq(Units)
  BY <1>1, <1>2, Divided
<1> HIDE DEF x
<1> QED
  BY <1>2, <1>3, ConcatProperties

LEMMA GotUnits ==
  ASSUME IInv, got \in Seq(Units), [Next]_vars
  PROVE  got' \in Seq(Units)
<1>1. CASE got' = got \/ got' = <<>>
  BY <1>1, EmptySeq
<1>2. CASE \E max \in ReadSizes : ichan_recv(max)
  <2>1. PICK max \in ReadSizes : ichan_recv(max)
    BY <1>2
  <2> DEFINE c == [cl EXCEPT !.max = max]
  <2>2. c \in Clients
    BY SizesAssumption DEF IInv, Clients
  <2>3. HandOver(c, req) \/ got' = got
    BY <2>1 DEF ichan_recv
  <2> HIDE DEF c
  <2> QED
    BY <1>1, <2>2, <2>3, HandedUnits
<1>3. CASE ichan_await
  <2> DEFINE r == Head(rep)
             c == ichan_take(cl, r)
  <2>1. cl.pc = "await" /\ rep # <<>>
        /\ (got' = got \/ RecvLoop(c, r.status))
    BY <1>3 DEF ichan_await
  <2>2. c \in Clients
    <3>1. rep \in Seq(Replies)
      BY <2>1, WorkNow, WorldNow
    <3>2. r \in Replies
      BY <2>1, <3>1, HeadTailProperties
    <3> QED
      BY <3>2, TakeIs DEF IInv
  <2> HIDE DEF c
  <2>3. HandOver(c, req) \/ got' = got
    BY <2>1 DEF RecvLoop
  <2> QED
    BY <1>1, <2>2, <2>3, HandedUnits
<1>4. CASE UNCHANGED vars
  BY <1>1, <1>4 DEF vars
<1>5. CASE InetStep \/ Interrupted \/ ichan_cancel \/ CancelInterrupted
  BY <1>1, <1>5, SameGot
<1>6. CASE Program
  <2>1. CASE OpenReply \/ OpenInterrupted \/ ichan_arm \/ ichan_post_ioctl \/ ichan_wait_ioctl
    BY <1>1, <2>1 DEF OpenReply, OpenInterrupted, ichan_arm, ichan_post_ioctl, ichan_wait_ioctl
  <2>2. CASE \/ \E n \in WriteSizes : ichan_write(n)
             \/ \E what \in IoctlKinds : ichan_ioctl(what)
    BY <1>1, <2>2 DEF ichan_write, ichan_ioctl
  <2>3. CASE ichan_close \/ Exit \/ \E dev \in Devices : ichan_open(dev)
    BY <1>1, <2>3 DEF ichan_close, Exit, ichan_open
  <2> QED
    BY <1>2, <1>3, <1>6, <2>1, <2>2, <2>3 DEF Program
<1> QED
  BY <1>4, <1>5, <1>6, EveryStep

(* The channel of a strayed answer is left only by closing it. *)
LEMMA LeftIdle ==
  ASSUME IInv, lay.strayed, ~lay'.strayed, [Next]_vars
  PROVE  cl'.pc = "idle"
<1>1. CASE InetStep
  BY <1>1, DaemonSteady DEF Steady
<1>2. CASE UNCHANGED lay
  BY <1>2
<1>3. CASE Program
  BY <1>2, <1>3 DEF Program, ichan_open, OpenReply, OpenInterrupted, ichan_arm, ichan_recv,
     ichan_write, ichan_ioctl, ichan_post_ioctl, ichan_wait_ioctl, ichan_await,
     ichan_close, Exit, DaemonSide
<1>4. CASE Interrupted \/ ichan_cancel \/ CancelInterrupted
  BY <1>2, <1>4 DEF Interrupted, ichan_cancel, CancelInterrupted, DaemonSide
<1>5. UNCHANGED vars => UNCHANGED lay
  BY DEF vars
<1> QED
  BY <1>1, <1>2, <1>3, <1>4, <1>5, EveryStep

LEMMA StreamStep ==
  ASSUME IInv, GInv, [Next]_vars
  PROVE  GInv'
<1>1. got' \in Seq(Units)
  BY GotUnits DEF GInv
<1>2. CASE lay'.strayed
  BY <1>1, <1>2 DEF GInv
<1>3. CASE ~lay'.strayed /\ ~lay.strayed
  <2>1. SInv'
    BY <1>3, CleanStep DEF GInv
  <2> QED
    BY <1>1, <2>1 DEF GInv
<1>4. CASE ~lay'.strayed /\ lay.strayed
  <2>1. cl'.pc = "idle"
    BY <1>4, LeftIdle
  <2>2. SInv'
    BY <1>1, <2>1, GoneStream DEF Attached
  <2> QED
    BY <1>1, <2>2 DEF GInv
<1> QED
  BY <1>2, <1>3, <1>4

LEMMA StreamInit ==
  ASSUME Init
  PROVE  GInv
<1>1. cl.pc = "idle" /\ got = <<>>
  BY NoClientIs DEF Init
<1>2. got \in Seq(Units)
  BY <1>1, EmptySeq
<1> QED
  BY <1>1, <1>2 DEF GInv, SInv, Streams, Attached

LEMMA StreamIs ==
  ASSUME IInv, GInv
  PROVE  StreamKept
<1> SUFFICES ASSUME cl.pc \in {"app", "await", "cancel"}, ch.inuse, lay.conn = "yes",
                    ~lay.strayed
             PROVE  StreamKept
  BY DEF StreamKept, Working
<1>0. SInv
  BY DEF GInv
<1> DEFINE p == got \o cl.hold
           x == Flat(rep)
           y == lay.rcvd
<1>1. /\ p \in Seq(Units) /\ Flow(Served, p, Room(cl)) /\ Served \in Worlds
  BY <1>0, StreamNow, WorldNow DEF Attached
<1>2. rep \in Seq(Replies) /\ lay \in Layers
  BY <1>1, WorldSeqs, ServedIs
<1>3. x \in Seq(Units) /\ y \in Seq(Units)
  BY <1>2, FlatType, UnitSeq DEF Layers
<1> HIDE DEF p, x, y
<1>4. (p \o x) \o y = p \o (x \o y)
  BY ONLY <1>1, <1>3, Grouped
<1>5. p \o (x \o y) = UpTo(lay.seq)
  BY <1>1, ServedIs DEF Flow, Whole, Onward, x, y
<1>6. x = FlattenSeq([k \in 1 .. Len(rep) |->
               IF rep[k].rop = "READ" THEN rep[k].data ELSE <<>>])
  BY DEF x, Flat, RData
<1> QED
  BY <1>4, <1>5, <1>6 DEF StreamKept, UpTo, p, y

(* StreamKept: nothing the peer sent is lost, repeated or reordered between the
   layer and the program, in a behaviour in which ichan_cancel() never gives
   up, to a channel that is not answered a former channel's READ, ... *)
THEOREM StreamWhole == Spec /\ [][~GivesUp]_vars => []StreamKept
<1>1. Init => GInv
  BY StreamInit
<1>2. IInv /\ GInv /\ [Next]_vars => GInv'
  BY StreamStep
<1>3. IInv /\ GInv => StreamKept
  BY StreamIs
<1> QED
  BY <1>1, <1>2, <1>3, Invariance, PTL DEF Spec

(* ... and for a client with enough tries. *)
THEOREM StreamOfPatient ==
  ASSUME MaxSignals + 3 <= CancelTries
  PROVE  Spec => []StreamKept
BY NeverGivesUp, StreamWhole, PTL

=============================================================================
