--------------------------- MODULE LibSocketProofs ---------------------------
(***************************************************************************)
(* Proofs about LibSocket, for every number of descriptors, of slots and   *)
(* of channels.                                                            *)
(*                                                                         *)
(* relisten(), acceptlost() and accept() are sequences of library calls,   *)
(* each of which may fail, and between them the table is not in order: the *)
(* slot of a lost connection has no descriptors any more.  Sound is the    *)
(* order of a process with some slots so hollowed out, and the lemmas say  *)
(* what each call does to a sound process.                                 *)
(***************************************************************************)
EXTENDS LibSocket, NatLemmas

(* A used slot and what the kernel has for it. *)
Whole(q, i) ==
  LET k == q.sock[i]
  IN  /\ k.chan \in Chans
      /\ k.req \in Fd /\ q.fd[k.req] = End("req", k.chan)
      /\ k.repl \in Fd /\ q.fd[k.repl] = End("repl", k.chan)
      /\ q.chan[k.chan] \in {"open", "listen", "ready", "conn"}

(* X are the slots whose descriptors have been given up. *)
Sound(q, X) ==
  /\ q \in Process
  /\ \A i \in Slot : ~q.sock[i].used => q.sock[i] = NoSock
  /\ \A i \in Slot \ X : q.sock[i].used => Whole(q, i)
  /\ \A i, j \in Slot \ X :
       i # j /\ q.sock[i].used /\ q.sock[j].used => q.sock[i].chan # q.sock[j].chan
  /\ \A i \in X : i \in Slot /\ q.sock[i].used /\ q.sock[i].repl = -1

(* The channel descriptors that are nobody's. *)
Stray(q, X) ==
  {f \in Fd : /\ q.fd[f].kind \in {"req", "repl"}
              /\ q.chan[q.fd[f].chan] # "half"
              /\ \A i \in Slot \ X : q.sock[i].used =>
                   f # q.sock[i].req /\ f # q.sock[i].repl}

(* From q to r with the slots N newly used: what was open is as it was, and so
   are the channels it was open on; what was in use too; new slots have new
   descriptors and new channels, and nothing new is astray. *)
Grows(q, r, X, N) ==
  /\ Sound(r, X)
  /\ \A f \in Fd : q.fd[f] # Closed =>
       r.fd[f] = q.fd[f] /\ \A c \in Chans : q.fd[f].chan = c => r.chan[c] = q.chan[c]
  /\ \A i \in Slot \ N : r.sock[i] = q.sock[i]
  /\ \A i \in N : /\ i \in Slot /\ ~q.sock[i].used /\ r.sock[i].used
                 /\ q.fd[r.sock[i].req] = Closed /\ q.fd[r.sock[i].repl] = Closed
                 /\ \A f \in Fd : q.fd[f].chan # r.sock[i].chan
  /\ \A c \in Chans : r.chan[c] = "half" =>
       q.chan[c] = "half" \/ \E f \in Fd : q.fd[f] = Closed /\ r.fd[f] = End("req", c)
  /\ Stray(r, X) \subseteq Stray(q, X)

-----------------------------------------------------------------------------
(* The lowest free descriptor and the first free slot. *)
LEMMA LowestFree ==
  ASSUME NEW q, Free(q) # {}
  PROVE  Lowest(q) \in Fd /\ q.fd[Lowest(q)] = Closed
<1>1. Free(q) \in SUBSET Nat
  BY SizesAssumption DEF Free, Fd
<1>2. Lowest(q) \in Free(q)
  BY <1>1, MinNat DEF Lowest
<1> QED
  BY <1>2 DEF Free

LEMMA FirstSlot ==
  ASSUME NEW q, FreeSlots(q) # {}
  PROVE  Min(FreeSlots(q)) \in Slot /\ ~q.sock[Min(FreeSlots(q))].used
<1>1. FreeSlots(q) \in SUBSET Nat
  BY SizesAssumption DEF FreeSlots, Slot
<1>2. Min(FreeSlots(q)) \in FreeSlots(q)
  BY <1>1, MinNat
<1> QED
  BY <1>2 DEF FreeSlots

LEMMA FirstUnused ==
  ASSUME NEW q, Unused(q) # {}
  PROVE  /\ Min(Unused(q)) \in Chans
         /\ q.chan[Min(Unused(q))] = "none"
         /\ \A f \in Fd : q.fd[f].chan # Min(Unused(q))
<1>1. Unused(q) \in SUBSET Nat
  BY ChansAssumption DEF Unused
<1>2. Min(Unused(q)) \in Unused(q)
  BY <1>1, MinNat
<1> QED
  BY <1>2 DEF Unused

(* Three free descriptors leave one after another has been taken. *)
LEMMA OneMore ==
  ASSUME NEW q, ~(Cardinality(Free(q)) < 3), NEW a
  PROVE  Free(q) # {} /\ Free(q) \ {a} # {}
<1>1. IsFiniteSet(Fd)
  BY FS_Interval, SizesAssumption DEF Fd
<1>2. IsFiniteSet(Free(q))
  BY <1>1, FS_Subset DEF Free
<1>3. /\ Cardinality(Free(q)) \in Nat
      /\ Cardinality(Free(q) \ {a}) >= Cardinality(Free(q)) - 1
      /\ IsFiniteSet(Free(q) \ {a})
  BY <1>2, FS_CardinalityType, FS_RemoveElement
<1> QED
  BY <1>2, <1>3, FS_EmptySet

-----------------------------------------------------------------------------
(* What assigning to one component of a process leaves of the others. *)
Is(q, F, S, C) == q \in Process /\ q.fd = F /\ q.sock = S /\ q.chan = C

LEMMA Parts ==
  /\ Process = [fd : [Fd -> FdVal], sock : [Slot -> Sock], chan : [Chans -> ChanState]]
  /\ \A q \in Process : /\ q.fd \in [Fd -> FdVal] /\ q.sock \in [Slot -> Sock]
                        /\ q.chan \in [Chans -> ChanState]
BY DEF Process

(* A channel's descriptor names a channel. *)
LEMMA EndChan ==
  ASSUME NEW q \in Process, NEW f \in Fd, q.fd[f].kind \in {"req", "repl"}
  PROVE  q.fd[f].chan \in Chans
BY Parts DEF FdVal, Closed, File

LEMMA PutFd ==
  ASSUME NEW q \in Process, NEW f \in Fd, NEW v \in FdVal
  PROVE  Is([q EXCEPT !.fd[f] = v], [q.fd EXCEPT ![f] = v], q.sock, q.chan)
<1> DEFINE F == [q.fd EXCEPT ![f] = v]
<1>1. [q EXCEPT !.fd[f] = v] = [fd |-> F, sock |-> q.sock, chan |-> q.chan]
  BY DEF Process
<1>2. F \in [Fd -> FdVal] /\ q.sock \in [Slot -> Sock] /\ q.chan \in [Chans -> ChanState]
  BY Parts
<1> HIDE DEF F
<1>3. [fd |-> F, sock |-> q.sock, chan |-> q.chan] \in Process
  BY <1>2, Parts
<1> QED
  BY <1>1, <1>3 DEF Is, F

LEMMA PutChan ==
  ASSUME NEW q \in Process, NEW c \in Chans, NEW v \in ChanState
  PROVE  Is([q EXCEPT !.chan[c] = v], q.fd, q.sock, [q.chan EXCEPT ![c] = v])
<1> DEFINE C == [q.chan EXCEPT ![c] = v]
<1>1. [q EXCEPT !.chan[c] = v] = [fd |-> q.fd, sock |-> q.sock, chan |-> C]
  BY DEF Process
<1>2. q.fd \in [Fd -> FdVal] /\ q.sock \in [Slot -> Sock] /\ C \in [Chans -> ChanState]
  BY Parts
<1> HIDE DEF C
<1>3. [fd |-> q.fd, sock |-> q.sock, chan |-> C] \in Process
  BY <1>2, Parts
<1> QED
  BY <1>1, <1>3 DEF Is, C

LEMMA PutSock ==
  ASSUME NEW q \in Process, NEW i \in Slot, NEW v \in Sock
  PROVE  Is([q EXCEPT !.sock[i] = v], q.fd, [q.sock EXCEPT ![i] = v], q.chan)
<1> DEFINE S == [q.sock EXCEPT ![i] = v]
<1>1. [q EXCEPT !.sock[i] = v] = [fd |-> q.fd, sock |-> S, chan |-> q.chan]
  BY DEF Process
<1>2. q.fd \in [Fd -> FdVal] /\ S \in [Slot -> Sock] /\ q.chan \in [Chans -> ChanState]
  BY Parts
<1> HIDE DEF S
<1>3. [fd |-> q.fd, sock |-> S, chan |-> q.chan] \in Process
  BY <1>2, Parts
<1> QED
  BY <1>1, <1>3 DEF Is, S

LEMMA PutSockChan ==
  ASSUME NEW q \in Process, NEW i \in Slot, NEW v \in Chans \cup {0}
  PROVE  \E k \in Sock :
           /\ k.chan = v
           /\ k.used = q.sock[i].used /\ k.req = q.sock[i].req
           /\ k.repl = q.sock[i].repl /\ k.listening = q.sock[i].listening
           /\ Is([q EXCEPT !.sock[i].chan = v], q.fd, [q.sock EXCEPT ![i] = k], q.chan)
<1> DEFINE k == [q.sock[i] EXCEPT !.chan = v]
<1>1. q.sock[i] \in Sock
  BY Parts
<1>2. /\ k \in Sock
      /\ k.chan = v
      /\ k.used = q.sock[i].used /\ k.req = q.sock[i].req
      /\ k.repl = q.sock[i].repl /\ k.listening = q.sock[i].listening
  BY <1>1 DEF Sock
<1>3. [q EXCEPT !.sock[i].chan = v] = [q EXCEPT !.sock[i] = k]
  BY DEF Process
<1> QED
  BY <1>2, <1>3, PutSock

LEMMA PutReq ==
  ASSUME NEW q \in Process, NEW i \in Slot, NEW v \in Fd \cup {-1}
  PROVE  \E k \in Sock :
           /\ k.req = v
           /\ k.used = q.sock[i].used /\ k.chan = q.sock[i].chan
           /\ k.repl = q.sock[i].repl /\ k.listening = q.sock[i].listening
           /\ Is([q EXCEPT !.sock[i].req = v], q.fd, [q.sock EXCEPT ![i] = k], q.chan)
<1> DEFINE k == [q.sock[i] EXCEPT !.req = v]
<1>1. q.sock[i] \in Sock
  BY Parts
<1>2. /\ k \in Sock
      /\ k.req = v
      /\ k.used = q.sock[i].used /\ k.chan = q.sock[i].chan
      /\ k.repl = q.sock[i].repl /\ k.listening = q.sock[i].listening
  BY <1>1 DEF Sock
<1>3. [q EXCEPT !.sock[i].req = v] = [q EXCEPT !.sock[i] = k]
  BY DEF Process
<1> QED
  BY <1>2, <1>3, PutSock

LEMMA PutRepl ==
  ASSUME NEW q \in Process, NEW i \in Slot, NEW v \in Fd \cup {-1}
  PROVE  \E k \in Sock :
           /\ k.repl = v
           /\ k.used = q.sock[i].used /\ k.chan = q.sock[i].chan
           /\ k.req = q.sock[i].req /\ k.listening = q.sock[i].listening
           /\ Is([q EXCEPT !.sock[i].repl = v], q.fd, [q.sock EXCEPT ![i] = k], q.chan)
<1> DEFINE k == [q.sock[i] EXCEPT !.repl = v]
<1>1. q.sock[i] \in Sock
  BY Parts
<1>2. /\ k \in Sock
      /\ k.repl = v
      /\ k.used = q.sock[i].used /\ k.chan = q.sock[i].chan
      /\ k.req = q.sock[i].req /\ k.listening = q.sock[i].listening
  BY <1>1 DEF Sock
<1>3. [q EXCEPT !.sock[i].repl = v] = [q EXCEPT !.sock[i] = k]
  BY DEF Process
<1> QED
  BY <1>2, <1>3, PutSock

LEMMA PutListening ==
  ASSUME NEW q \in Process, NEW i \in Slot, NEW v \in BOOLEAN
  PROVE  \E k \in Sock :
           /\ k.listening = v
           /\ k.used = q.sock[i].used /\ k.chan = q.sock[i].chan
           /\ k.req = q.sock[i].req /\ k.repl = q.sock[i].repl
           /\ Is([q EXCEPT !.sock[i].listening = v], q.fd, [q.sock EXCEPT ![i] = k], q.chan)
<1> DEFINE k == [q.sock[i] EXCEPT !.listening = v]
<1>1. q.sock[i] \in Sock
  BY Parts
<1>2. /\ k \in Sock
      /\ k.listening = v
      /\ k.used = q.sock[i].used /\ k.chan = q.sock[i].chan
      /\ k.req = q.sock[i].req /\ k.repl = q.sock[i].repl
  BY <1>1 DEF Sock
<1>3. [q EXCEPT !.sock[i].listening = v] = [q EXCEPT !.sock[i] = k]
  BY DEF Process
<1> QED
  BY <1>2, <1>3, PutSock

(* A slot in order. *)
LEMMA InOrder ==
  ASSUME NEW q, NEW X, Sound(q, X), NEW i \in Slot \ X, q.sock[i].used
  PROVE  LET k == q.sock[i]
         IN  /\ k.chan \in Chans /\ k.req \in Fd /\ k.repl \in Fd
             /\ q.fd[k.req] = End("req", k.chan) /\ q.fd[k.repl] = End("repl", k.chan)
             /\ q.chan[k.chan] \in {"open", "listen", "ready", "conn"}
             /\ q.fd[k.req] # Closed /\ q.fd[k.repl] # Closed
             /\ q.fd[k.req].chan = k.chan /\ q.fd[k.repl].chan = k.chan
             /\ k.req # k.repl
<1> DEFINE k == q.sock[i]
<1>1. /\ k.chan \in Chans /\ k.req \in Fd /\ k.repl \in Fd
      /\ q.fd[k.req] = End("req", k.chan) /\ q.fd[k.repl] = End("repl", k.chan)
      /\ q.chan[k.chan] \in {"open", "listen", "ready", "conn"}
  BY DEF Sound, Whole
<1> HIDE DEF k
<1>2. /\ q.fd[k.req] # Closed /\ q.fd[k.repl] # Closed
      /\ q.fd[k.req].chan = k.chan /\ q.fd[k.repl].chan = k.chan
      /\ k.req # k.repl
  BY <1>1 DEF End, Closed
<1> QED
  BY <1>1, <1>2 DEF k

LEMMA Blank ==
  LET k == [NoSock EXCEPT !.used = TRUE]
  IN  /\ k \in Sock /\ NoSock \in Sock
      /\ k.used = TRUE /\ k.chan = 0 /\ k.req = -1 /\ k.repl = -1
      /\ k.listening = FALSE
      /\ NoSock.used = FALSE /\ NoSock.listening = FALSE
      /\ NoSock.req = -1 /\ NoSock.repl = -1
BY DEF NoSock, Sock

(* What ichan_open() makes of the slot socket() or relisten() has allocated:
   the channel, or nothing, or the channel of an interrupted wait. *)
Taken(q, a, b, c) ==
  /\ a \in Fd /\ b \in Fd /\ c \in Chans
  /\ a # b /\ q.fd[a] = Closed /\ q.fd[b] = Closed
  /\ q.chan[c] = "none" /\ \A f \in Fd : q.fd[f].chan # c

Ends(q, a, b, c) == [[q.fd EXCEPT ![a] = End("req", c)] EXCEPT ![b] = End("repl", c)]

OpenedAs(k, a, b, c) ==
  k \in Sock /\ k.used = TRUE /\ k.listening = FALSE
  /\ k.chan = c /\ k.req = a /\ k.repl = b

LEMMA OpenResults ==
  ASSUME NEW q \in Process, FreeSlots(q) # {}, NEW i, i = Min(FreeSlots(q)),
         q.sock[i] = NoSock,
         NEW r \in ichan_open(sockalloc(q), i)
  PROVE  \/ r.ok = FALSE /\ Is(sockfree(r.p, i), q.fd, q.sock, q.chan)
         \/ \E a, b, c :
              /\ Taken(q, a, b, c)
              /\ \/ /\ r.ok = TRUE
                    /\ \E k : /\ OpenedAs(k, a, b, c)
                             /\ Is(r.p, Ends(q, a, b, c), [q.sock EXCEPT ![i] = k],
                                   [q.chan EXCEPT ![c] = "open"])
                 \/ /\ r.ok = FALSE
                    /\ Is(sockfree(r.p, i), Ends(q, a, b, c), q.sock,
                          [q.chan EXCEPT ![c] = "half"])
<1> DEFINE k0 == [NoSock EXCEPT !.used = TRUE]
           s1 == [q.sock EXCEPT ![i] = k0]
           q1 == sockalloc(q)
<1>1. i \in Slot
  BY FirstSlot
<1>2. /\ k0 \in Sock /\ k0.used = TRUE /\ k0.listening = FALSE
      /\ k0.chan = 0 /\ k0.req = -1 /\ k0.repl = -1
      /\ NoSock \in Sock
  BY Blank
<1> HIDE DEF k0
<1>3. Is(q1, q.fd, s1, q.chan)
  BY <1>1, <1>2, PutSock DEF sockalloc, k0
<1>4. Free(q1) = Free(q) /\ Unused(q1) = Unused(q)
  BY <1>3 DEF Free, Unused, Is
<1>5. q.sock \in [Slot -> Sock] /\ q.fd \in [Fd -> FdVal] /\ q.chan \in [Chans -> ChanState]
  BY Parts
<1>6. \A t \in Process, k \in Sock :
        t.sock = [q.sock EXCEPT ![i] = k] => Is(sockfree(t, i), t.fd, q.sock, t.chan)
  <2> TAKE t \in Process, k \in Sock
  <2> HAVE t.sock = [q.sock EXCEPT ![i] = k]
  <2>1. Is(sockfree(t, i), t.fd, [t.sock EXCEPT ![i] = NoSock], t.chan)
    BY <1>1, <1>2, PutSock DEF sockfree
  <2>2. [[q.sock EXCEPT ![i] = k] EXCEPT ![i] = NoSock] = q.sock
    BY <1>1, <1>5
  <2> QED
    BY <2>1, <2>2
<1> HIDE DEF q1
<1>7. Is(sockfree(q1, i), q.fd, q.sock, q.chan)
  BY <1>2, <1>3, <1>6 DEF Is
<1>8. CASE Cardinality(Free(q1)) < 3 \/ Unused(q1) = {}
  <2>1. r = Failed(q1)
    BY <1>8 DEF ichan_open, q1
  <2> QED
    BY <1>7, <2>1 DEF Failed
<1>9. CASE ~(Cardinality(Free(q1)) < 3 \/ Unused(q1) = {})
  <2> DEFINE c == Min(Unused(q1))
             half == rawopen(q1, End("req", c))
             end == rawopen(half, End("repl", c))
             whole == [end EXCEPT !.chan[c] = "open"]
             a == Lowest(q1)
             b == Lowest(half)
             u1 == [whole EXCEPT !.sock[i].chan = c]
             u2 == [u1 EXCEPT !.sock[i].req = a]
             u3 == [u2 EXCEPT !.sock[i].repl = b]
             h == [whole EXCEPT !.chan[c] = "half"]
  <2>1. r \in {Done(u3), Failed(q1), Failed(h)}
    BY <1>9 DEF ichan_open, q1
  <2>2. /\ c \in Chans /\ q.chan[c] = "none"
        /\ \A f \in Fd : q.fd[f].chan # c
    BY <1>4, <1>9, FirstUnused
  <2>3. a \in Fd /\ q.fd[a] = Closed
    <3>1. Free(q1) # {}
      BY <1>9, OneMore
    <3> QED
      BY <1>3, <3>1, LowestFree DEF Is
  <2> HIDE DEF c, a, b, half, end, whole, u1, u2, u3, h
  <2>4. End("req", c) \in FdVal /\ End("repl", c) \in FdVal
    BY <2>2 DEF End, FdVal
  <2>5. End("req", c) # Closed
    BY DEF End, Closed
  <2>6. Is(half, [q.fd EXCEPT ![a] = End("req", c)], s1, q.chan)
    BY <1>3, <2>3, <2>4, PutFd DEF half, rawopen, a, Is
  <2>7. Free(half) = Free(q1) \ {a}
    BY <1>3, <1>5, <2>3, <2>5, <2>6 DEF Free, Is
  <2>8. b \in Fd /\ half.fd[b] = Closed
    <3>1. Free(half) # {}
      BY <1>9, <2>7, OneMore
    <3> QED
      BY <3>1, LowestFree DEF b
  <2>9. Taken(q, a, b, c)
    <3>1. a # b
      BY <1>5, <2>3, <2>5, <2>6, <2>8 DEF Is
    <3>2. q.fd[b] = Closed
      BY <1>5, <2>6, <2>8, <3>1 DEF Is
    <3> QED
      BY <2>2, <2>3, <2>8, <3>1, <3>2 DEF Taken
  <2>10. Is(end, Ends(q, a, b, c), s1, q.chan)
    BY <2>4, <2>6, <2>8, PutFd DEF end, rawopen, b, Is, Ends
  <2>11. Is(whole, Ends(q, a, b, c), s1, [q.chan EXCEPT ![c] = "open"])
    <3>1. "open" \in ChanState
      BY DEF ChanState
    <3> QED
      BY <2>2, <2>10, <3>1, PutChan DEF whole, Is
  <2>12. CASE r = Failed(q1)
    BY <1>7, <2>12 DEF Failed
  <2>13. CASE r = Failed(h)
    <3>1. "half" \in ChanState
      BY DEF ChanState
    <3>2. [[q.chan EXCEPT ![c] = "open"] EXCEPT ![c] = "half"] = [q.chan EXCEPT ![c] = "half"]
      BY <1>5, <2>2
    <3>3. Is(h, Ends(q, a, b, c), s1, [q.chan EXCEPT ![c] = "half"])
      BY <2>2, <2>11, <3>1, <3>2, PutChan DEF h, Is
    <3>4. Is(sockfree(h, i), Ends(q, a, b, c), q.sock, [q.chan EXCEPT ![c] = "half"])
      BY <1>2, <1>6, <3>3 DEF Is
    <3>5. r.ok = FALSE /\ r.p = h
      BY <2>13 DEF Failed
    <3> QED
      BY <2>9, <3>4, <3>5
  <2>14. CASE r = Done(u3)
    <3> DEFINE C == [q.chan EXCEPT ![c] = "open"]
               F == Ends(q, a, b, c)
    <3> HIDE DEF C, F
    <3>1. s1[i] = k0
      BY <1>1, <1>5
    <3>2. \A x \in Sock, y \in Sock :
            [[q.sock EXCEPT ![i] = x] EXCEPT ![i] = y] = [q.sock EXCEPT ![i] = y]
            /\ [q.sock EXCEPT ![i] = y][i] = y
      BY <1>1, <1>5
    <3>3. PICK k1 \in Sock :
            /\ k1.chan = c
            /\ k1.used = whole.sock[i].used /\ k1.listening = whole.sock[i].listening
            /\ Is(u1, whole.fd, [whole.sock EXCEPT ![i] = k1], whole.chan)
      <4>1. whole \in Process /\ c \in Chans \cup {0}
        BY <2>2, <2>11 DEF Is
      <4> QED
        BY <1>1, <4>1, PutSockChan DEF u1
    <3>4. /\ Is(u1, F, [q.sock EXCEPT ![i] = k1], C)
          /\ k1.used = TRUE /\ k1.listening = FALSE
      BY <1>2, <2>11, <3>1, <3>2, <3>3 DEF Is, C, F
    <3>5. PICK k2 \in Sock :
            /\ k2.req = a
            /\ k2.used = u1.sock[i].used /\ k2.listening = u1.sock[i].listening
            /\ k2.chan = u1.sock[i].chan
            /\ Is(u2, u1.fd, [u1.sock EXCEPT ![i] = k2], u1.chan)
      <4>1. u1 \in Process /\ a \in Fd \cup {-1}
        BY <2>3, <3>4 DEF Is
      <4> QED
        BY <1>1, <4>1, PutReq DEF u2
    <3>6. /\ Is(u2, F, [q.sock EXCEPT ![i] = k2], C)
          /\ k2.used = TRUE /\ k2.listening = FALSE /\ k2.chan = c
      BY <3>2, <3>3, <3>4, <3>5 DEF Is
    <3>7. PICK k3 \in Sock :
            /\ k3.repl = b
            /\ k3.used = u2.sock[i].used /\ k3.listening = u2.sock[i].listening
            /\ k3.chan = u2.sock[i].chan /\ k3.req = u2.sock[i].req
            /\ Is(u3, u2.fd, [u2.sock EXCEPT ![i] = k3], u2.chan)
      <4>1. u2 \in Process /\ b \in Fd \cup {-1}
        BY <2>8, <3>6 DEF Is
      <4> QED
        BY <1>1, <4>1, PutRepl DEF u3
    <3>8. /\ Is(u3, F, [q.sock EXCEPT ![i] = k3], C)
          /\ k3.used = TRUE /\ k3.listening = FALSE /\ k3.chan = c /\ k3.req = a
      BY <3>2, <3>5, <3>6, <3>7 DEF Is
    <3>9. r.ok = TRUE /\ r.p = u3
      BY <2>14 DEF Done
    <3>10. OpenedAs(k3, a, b, c)
      BY <3>7, <3>8 DEF OpenedAs
    <3> QED
      BY <2>9, <3>8, <3>9, <3>10 DEF C, F
  <2> QED
    BY <2>1, <2>12, <2>13, <2>14
<1> QED
  BY <1>8, <1>9

-----------------------------------------------------------------------------
(* What is on the calls' way, by parts. *)
LEMMA PostIs ==
  ASSUME NEW q \in Process, NEW i \in Slot, q.sock[i].chan \in Chans
  PROVE  \E k \in Sock :
           /\ k.used = q.sock[i].used /\ k.chan = q.sock[i].chan
           /\ k.req = q.sock[i].req /\ k.repl = q.sock[i].repl /\ k.listening = TRUE
           /\ Is(Post(q, i), q.fd, [q.sock EXCEPT ![i] = k],
                 [q.chan EXCEPT ![q.sock[i].chan] = "listen"])
<1> DEFINE t == [q EXCEPT !.chan[q.sock[i].chan] = "listen"]
<1>1. Is(t, q.fd, q.sock, [q.chan EXCEPT ![q.sock[i].chan] = "listen"])
  <2>1. "listen" \in ChanState
    BY DEF ChanState
  <2> QED
    BY <2>1, PutChan
<1>2. Post(q, i) = [t EXCEPT !.sock[i].listening = TRUE]
  BY DEF Post
<1> HIDE DEF t
<1>3. t \in Process /\ TRUE \in BOOLEAN
  BY <1>1 DEF Is
<1>4. PICK k \in Sock :
        /\ k.listening = TRUE
        /\ k.used = t.sock[i].used /\ k.chan = t.sock[i].chan
        /\ k.req = t.sock[i].req /\ k.repl = t.sock[i].repl
        /\ Is([t EXCEPT !.sock[i].listening = TRUE], t.fd, [t.sock EXCEPT ![i] = k], t.chan)
  BY <1>3, PutListening
<1> QED
  BY <1>1, <1>2, <1>4 DEF Is

LEMMA CloseIs ==
  ASSUME NEW q \in Process, NEW f \in Fd
  PROVE  Is(_rawclose(q, f), [q.fd EXCEPT ![f] = Closed], q.sock, q.chan)
<1>1. Closed \in FdVal
  BY DEF Closed, FdVal
<1> QED
  BY <1>1, PutFd DEF _rawclose

LEMMA FreeIs ==
  ASSUME NEW q \in Process, NEW i \in Slot
  PROVE  Is(sockfree(q, i), q.fd, [q.sock EXCEPT ![i] = NoSock], q.chan)
BY Blank, PutSock DEF sockfree

LEMMA AbortIs ==
  ASSUME NEW q \in Process, NEW i \in Slot,
         q.sock[i].chan \in Chans, q.sock[i].req \in Fd
  PROVE  \E k \in Sock :
           /\ k.used = q.sock[i].used /\ k.chan = q.sock[i].chan
           /\ k.req = -1 /\ k.repl = q.sock[i].repl /\ k.listening = q.sock[i].listening
           /\ Is(ichan_abort(q, i), [q.fd EXCEPT ![q.sock[i].req] = Closed],
                 [q.sock EXCEPT ![i] = k], [q.chan EXCEPT ![q.sock[i].chan] = "none"])
<1> DEFINE t1 == _rawclose(q, q.sock[i].req)
           t2 == [t1 EXCEPT !.chan[q.sock[i].chan] = "none"]
<1>1. Is(t1, [q.fd EXCEPT ![q.sock[i].req] = Closed], q.sock, q.chan)
  BY CloseIs
<1>2. ichan_abort(q, i) = [t2 EXCEPT !.sock[i].req = -1]
  BY DEF ichan_abort
<1> HIDE DEF t1
<1>3. Is(t2, t1.fd, t1.sock, [t1.chan EXCEPT ![q.sock[i].chan] = "none"])
  <2>1. "none" \in ChanState /\ t1 \in Process
    BY <1>1 DEF ChanState, Is
  <2> QED
    BY <2>1, PutChan
<1> HIDE DEF t2
<1>4. t2 \in Process /\ -1 \in Fd \cup {-1}
  BY <1>3 DEF Is
<1>5. PICK k \in Sock :
        /\ k.req = -1
        /\ k.used = t2.sock[i].used /\ k.chan = t2.sock[i].chan
        /\ k.repl = t2.sock[i].repl /\ k.listening = t2.sock[i].listening
        /\ Is([t2 EXCEPT !.sock[i].req = -1], t2.fd, [t2.sock EXCEPT ![i] = k], t2.chan)
  BY <1>4, PutReq
<1>6. /\ k.used = q.sock[i].used /\ k.chan = q.sock[i].chan
      /\ k.repl = q.sock[i].repl /\ k.listening = q.sock[i].listening
  BY <1>1, <1>3, <1>5 DEF Is
<1>7. Is(ichan_abort(q, i), [q.fd EXCEPT ![q.sock[i].req] = Closed],
         [q.sock EXCEPT ![i] = k], [q.chan EXCEPT ![q.sock[i].chan] = "none"])
  BY <1>1, <1>2, <1>3, <1>5 DEF Is
<1> QED
  BY <1>5, <1>6, <1>7

LEMMA AbandonIs ==
  ASSUME NEW q \in Process, NEW i \in Slot,
         q.sock[i].chan \in Chans, q.sock[i].req \in Fd, q.sock[i].repl \in Fd
  PROVE  Is(Abandon(q, i),
            [[q.fd EXCEPT ![q.sock[i].req] = Closed] EXCEPT ![q.sock[i].repl] = Closed],
            [q.sock EXCEPT ![i] = NoSock], [q.chan EXCEPT ![q.sock[i].chan] = "none"])
<1> DEFINE t1 == ichan_abort(q, i)
           t2 == _rawclose(t1, q.sock[i].repl)
<1>1. PICK k \in Sock :
        Is(t1, [q.fd EXCEPT ![q.sock[i].req] = Closed],
           [q.sock EXCEPT ![i] = k], [q.chan EXCEPT ![q.sock[i].chan] = "none"])
  BY AbortIs
<1>2. Abandon(q, i) = sockfree(t2, i)
  BY DEF Abandon, ichan_close
<1> HIDE DEF t1
<1>3. Is(t2, [t1.fd EXCEPT ![q.sock[i].repl] = Closed], t1.sock, t1.chan)
  <2>1. t1 \in Process
    BY <1>1 DEF Is
  <2> QED
    BY <2>1, CloseIs
<1> HIDE DEF t2
<1>4. Is(sockfree(t2, i), t2.fd, [t2.sock EXCEPT ![i] = NoSock], t2.chan)
  <2>1. t2 \in Process
    BY <1>3 DEF Is
  <2> QED
    BY <2>1, FreeIs
<1>5. [[q.sock EXCEPT ![i] = k] EXCEPT ![i] = NoSock] = [q.sock EXCEPT ![i] = NoSock]
  BY Parts
<1> QED
  BY <1>1, <1>2, <1>3, <1>4, <1>5 DEF Is

-----------------------------------------------------------------------------
(* What ichan_open() and a post do to a sound process. *)
LEMMA Nothing ==
  ASSUME NEW q, NEW X, Sound(q, X), NEW r, Is(r, q.fd, q.sock, q.chan)
  PROVE  Grows(q, r, X, {})
<1>1. Sound(r, X)
  BY DEF Sound, Is, Whole
<1>2. Stray(r, X) = Stray(q, X)
  BY DEF Stray, Is
<1> QED
  BY <1>1, <1>2 DEF Grows, Is

(* A process by its cells. *)
LEMMA Cells ==
  ASSUME NEW q \in Process, NEW a, NEW b, NEW c, Taken(q, a, b, c)
  PROVE  /\ Ends(q, a, b, c)[a] = End("req", c) /\ Ends(q, a, b, c)[b] = End("repl", c)
         /\ \A f \in Fd : f # a /\ f # b => Ends(q, a, b, c)[f] = q.fd[f]
         /\ \A v : [q.chan EXCEPT ![c] = v][c] = v
         /\ \A v, d : d \in Chans /\ d # c => [q.chan EXCEPT ![c] = v][d] = q.chan[d]
BY Parts DEF Taken, Ends

LEMMA HalfOpens ==
  ASSUME NEW q, NEW X, Sound(q, X), NEW a, NEW b, NEW c, Taken(q, a, b, c), NEW r,
         Is(r, Ends(q, a, b, c), q.sock, [q.chan EXCEPT ![c] = "half"])
  PROVE  Grows(q, r, X, {})
<1>1. q \in Process /\ r \in Process /\ r.sock = q.sock
  BY DEF Sound, Is
<1>2. /\ r.fd[a] = End("req", c) /\ r.fd[b] = End("repl", c) /\ r.chan[c] = "half"
      /\ \A f \in Fd : f # a /\ f # b => r.fd[f] = q.fd[f]
      /\ \A d \in Chans : d # c => r.chan[d] = q.chan[d]
  BY <1>1, Cells DEF Is
<1>3. End("req", c) # Closed /\ End("repl", c) # Closed /\ End("repl", c).chan = c
      /\ End("req", c).chan = c
  BY DEF End, Closed
<1>4. /\ a \in Fd /\ b \in Fd /\ c \in Chans /\ a # b
      /\ q.fd[a] = Closed /\ q.fd[b] = Closed
      /\ \A f \in Fd : q.fd[f].chan # c
  BY DEF Taken
<1>5. ASSUME NEW i \in Slot, Whole(q, i)
      PROVE  Whole(r, i)
  <2> DEFINE k == q.sock[i]
  <2>1. /\ k.chan \in Chans /\ k.req \in Fd /\ k.repl \in Fd
        /\ q.fd[k.req] = End("req", k.chan) /\ q.fd[k.repl] = End("repl", k.chan)
        /\ q.chan[k.chan] \in {"open", "listen", "ready", "conn"}
    BY <1>5 DEF Whole
  <2>2. k.chan # c
    <3>1. q.fd[k.req].chan = k.chan
      BY <2>1 DEF End
    <3> QED
      BY <1>4, <2>1, <3>1
  <2>3. r.fd[k.req] = q.fd[k.req] /\ r.fd[k.repl] = q.fd[k.repl]
    <3>1. q.fd[k.req] # Closed /\ q.fd[k.repl] # Closed
      BY <2>1 DEF End, Closed
    <3> QED
      BY <1>2, <1>4, <2>1, <3>1
  <2> QED
    BY <1>1, <1>2, <2>1, <2>2, <2>3 DEF Whole
<1>6. Sound(r, X)
  BY <1>1, <1>5 DEF Sound
<1>7. Stray(r, X) \subseteq Stray(q, X)
  <2> SUFFICES ASSUME NEW f \in Stray(r, X) PROVE f \in Stray(q, X)
    OBVIOUS
  <2>1. f \in Fd /\ r.chan[r.fd[f].chan] # "half" /\ r.fd[f].kind \in {"req", "repl"}
    BY DEF Stray
  <2>2. f # a /\ f # b
    BY <1>2, <1>3, <2>1
  <2>3. r.fd[f] = q.fd[f] /\ q.fd[f].chan # c
    BY <1>2, <1>4, <2>1, <2>2
  <2>4. q.chan[q.fd[f].chan] # "half"
    <3>1. q.fd[f].chan \in Chans
      BY <1>1, <2>1, <2>3, EndChan
    <3> QED
      BY <1>2, <2>1, <2>3, <3>1
  <2> QED
    BY <1>1, <2>1, <2>3, <2>4 DEF Stray
<1> QED
  BY <1>1, <1>2, <1>3, <1>4, <1>6, <1>7 DEF Grows

LEMMA Opens ==
  ASSUME NEW q, NEW X, Sound(q, X), NEW a, NEW b, NEW c, Taken(q, a, b, c), NEW r,
         NEW n \in Slot, ~q.sock[n].used,
         NEW k \in Sock, k.used = TRUE, k.chan = c, k.req = a, k.repl = b,
         NEW st \in {"open", "listen"},
         Is(r, Ends(q, a, b, c), [q.sock EXCEPT ![n] = k], [q.chan EXCEPT ![c] = st])
  PROVE  Grows(q, r, X, {n})
<1>1. q \in Process /\ r \in Process
  BY DEF Sound, Is
<1>2. /\ r.fd[a] = End("req", c) /\ r.fd[b] = End("repl", c) /\ r.chan[c] = st
      /\ \A f \in Fd : f # a /\ f # b => r.fd[f] = q.fd[f]
      /\ \A d \in Chans : d # c => r.chan[d] = q.chan[d]
  BY <1>1, Cells DEF Is
<1>3. End("req", c) # Closed /\ End("repl", c) # Closed /\ End("repl", c).chan = c
      /\ End("req", c).chan = c
  BY DEF End, Closed
<1>4. /\ a \in Fd /\ b \in Fd /\ c \in Chans /\ a # b
      /\ q.fd[a] = Closed /\ q.fd[b] = Closed
      /\ \A f \in Fd : q.fd[f].chan # c
  BY DEF Taken
<1>5. r.sock[n] = k /\ \A i \in Slot : i # n => r.sock[i] = q.sock[i]
  <2>1. r.sock = [q.sock EXCEPT ![n] = k]
    BY DEF Is
  <2> QED
    BY <1>1, <2>1, Parts
<1>6. ASSUME NEW i \in Slot, Whole(q, i), i # n
      PROVE  Whole(r, i) /\ q.sock[i].chan # c /\ a # q.sock[i].req /\ b # q.sock[i].repl
  <2> DEFINE j == q.sock[i]
  <2>1. /\ j.chan \in Chans /\ j.req \in Fd /\ j.repl \in Fd
        /\ q.fd[j.req] = End("req", j.chan) /\ q.fd[j.repl] = End("repl", j.chan)
        /\ q.chan[j.chan] \in {"open", "listen", "ready", "conn"}
    BY <1>6 DEF Whole
  <2>2. j.chan # c
    <3>1. q.fd[j.req].chan = j.chan
      BY <2>1 DEF End
    <3> QED
      BY <1>4, <2>1, <3>1
  <2>3. q.fd[j.req] # Closed /\ q.fd[j.repl] # Closed
    BY <2>1 DEF End, Closed
  <2>4. r.fd[j.req] = q.fd[j.req] /\ r.fd[j.repl] = q.fd[j.repl]
    BY <1>2, <1>4, <2>1, <2>3
  <2>5. Whole(r, i)
    BY <1>2, <1>5, <1>6, <2>1, <2>2, <2>4 DEF Whole
  <2> QED
    BY <1>4, <2>2, <2>3, <2>5
<1>7. Whole(r, n)
  BY <1>2, <1>4, <1>5 DEF Whole
<1>8. n \notin X
  BY DEF Sound
<1>9. Sound(r, X)
  <2>1. \A i \in Slot \ X : r.sock[i].used => Whole(r, i)
    BY <1>5, <1>6, <1>7 DEF Sound
  <2>2. \A i, j \in Slot \ X : i # j /\ r.sock[i].used /\ r.sock[j].used
                               => r.sock[i].chan # r.sock[j].chan
    BY <1>5, <1>6 DEF Sound
  <2> QED
    BY <1>1, <1>5, <1>8, <2>1, <2>2 DEF Sound
<1>10. Stray(r, X) \subseteq Stray(q, X)
  <2> SUFFICES ASSUME NEW f \in Stray(r, X) PROVE f \in Stray(q, X)
    OBVIOUS
  <2>1. f \in Fd /\ r.chan[r.fd[f].chan] # "half" /\ r.fd[f].kind \in {"req", "repl"}
    BY DEF Stray
  <2>2. f # a /\ f # b
    BY <1>5, <1>8 DEF Stray
  <2>3. r.fd[f] = q.fd[f] /\ q.fd[f].chan # c
    BY <1>2, <1>4, <2>1, <2>2
  <2>4. q.chan[q.fd[f].chan] # "half"
    <3>1. q.fd[f].chan \in Chans
      BY <1>1, <2>1, <2>3, EndChan
    <3> QED
      BY <1>2, <2>1, <2>3, <3>1
  <2>5. \A i \in Slot \ X : q.sock[i].used => f # q.sock[i].req /\ f # q.sock[i].repl
    BY <1>5 DEF Stray
  <2> QED
    BY <2>1, <2>3, <2>4, <2>5 DEF Stray
<1> QED
  BY <1>1, <1>2, <1>3, <1>4, <1>5, <1>9, <1>10 DEF Grows

(* Closing and freeing what was opened leaves what there was. *)
LEMMA AbandonKeeps ==
  ASSUME NEW q, NEW X, NEW r, NEW n, Sound(q, X), Grows(q, r, X, {n})
  PROVE  Grows(q, Abandon(r, n), X, {})
<1> DEFINE t == Abandon(r, n)
           k == r.sock[n]
<1>1. q \in Process /\ r \in Process /\ Sound(r, X)
  BY DEF Sound, Grows
<1>2. /\ n \in Slot /\ ~q.sock[n].used /\ k.used
      /\ q.fd[k.req] = Closed /\ q.fd[k.repl] = Closed
      /\ \A f \in Fd : q.fd[f].chan # k.chan
  BY DEF Grows
<1>3. n \notin X /\ Whole(r, n) /\ q.sock[n] = NoSock
  BY <1>2 DEF Sound, Grows
<1>4. /\ k.chan \in Chans /\ k.req \in Fd /\ k.repl \in Fd
      /\ r.fd[k.req] = End("req", k.chan) /\ r.fd[k.repl] = End("repl", k.chan)
  BY <1>3 DEF Whole
<1>5. Is(t, [[r.fd EXCEPT ![k.req] = Closed] EXCEPT ![k.repl] = Closed],
         [r.sock EXCEPT ![n] = NoSock], [r.chan EXCEPT ![k.chan] = "none"])
  BY <1>1, <1>2, <1>4, AbandonIs
<1> HIDE DEF t
<1>6. /\ t \in Process
      /\ t.fd[k.req] = Closed /\ t.fd[k.repl] = Closed
      /\ \A f \in Fd : f # k.req /\ f # k.repl => t.fd[f] = r.fd[f]
      /\ t.sock[n] = NoSock /\ \A i \in Slot : i # n => t.sock[i] = r.sock[i]
      /\ t.chan[k.chan] = "none"
      /\ \A d \in Chans : d # k.chan => t.chan[d] = r.chan[d]
  BY <1>1, <1>2, <1>4, <1>5, Parts DEF Is
<1> HIDE DEF k
<1>7. NoSock.used = FALSE
  BY DEF NoSock
<1>8. ASSUME NEW i \in Slot \ X, i # n, r.sock[i].used
      PROVE  Whole(t, i) /\ r.sock[i].req # k.req /\ r.sock[i].repl # k.repl
  <2> DEFINE j == r.sock[i]
  <2>1. /\ j.chan \in Chans /\ j.req \in Fd /\ j.repl \in Fd
        /\ r.fd[j.req] = End("req", j.chan) /\ r.fd[j.repl] = End("repl", j.chan)
        /\ r.chan[j.chan] \in {"open", "listen", "ready", "conn"}
    BY <1>1, <1>8 DEF Whole, Sound
  <2>2. j.chan # k.chan
    BY <1>1, <1>2, <1>3, <1>8 DEF Sound, k
  <2>3. j.req # k.req /\ j.repl # k.repl /\ j.req # k.repl /\ j.repl # k.req
    BY <1>4, <2>1, <2>2 DEF End
  <2>4. Whole(t, i)
    BY <1>6, <1>8, <2>1, <2>2, <2>3 DEF Whole
  <2> QED
    BY <2>3, <2>4
<1>9. Sound(t, X)
  <2>1. \A i \in Slot \ X : t.sock[i].used => Whole(t, i)
    BY <1>6, <1>7, <1>8
  <2>2. \A i, j \in Slot \ X : i # j /\ t.sock[i].used /\ t.sock[j].used
                               => t.sock[i].chan # t.sock[j].chan
    BY <1>1, <1>6, <1>7 DEF Sound
  <2>3. \A i \in Slot : ~t.sock[i].used => t.sock[i] = NoSock
    BY <1>1, <1>6 DEF Sound
  <2>4. \A i \in X : i \in Slot /\ t.sock[i].used /\ t.sock[i].repl = -1
    BY <1>1, <1>3, <1>6 DEF Sound
  <2> QED
    BY <1>6, <2>1, <2>2, <2>3, <2>4 DEF Sound
<1>10. \A f \in Fd : q.fd[f] # Closed =>
         t.fd[f] = q.fd[f] /\ \A c \in Chans : q.fd[f].chan = c => t.chan[c] = q.chan[c]
  BY <1>2, <1>6 DEF Grows
<1>11. \A i \in Slot : t.sock[i] = q.sock[i]
  BY <1>3, <1>6 DEF Grows
<1>12. \A c \in Chans : t.chan[c] = "half" =>
         q.chan[c] = "half" \/ \E f \in Fd : q.fd[f] = Closed /\ t.fd[f] = End("req", c)
  <2> SUFFICES ASSUME NEW c \in Chans, t.chan[c] = "half", q.chan[c] # "half"
               PROVE  \E f \in Fd : q.fd[f] = Closed /\ t.fd[f] = End("req", c)
    OBVIOUS
  <2>1. c # k.chan /\ r.chan[c] = "half"
    BY <1>6
  <2>2. PICK f \in Fd : q.fd[f] = Closed /\ r.fd[f] = End("req", c)
    BY <2>1 DEF Grows
  <2>3. f # k.req /\ f # k.repl
    BY <1>4, <2>1, <2>2 DEF End
  <2> QED
    BY <1>6, <2>2, <2>3
<1>13. Stray(t, X) \subseteq Stray(q, X)
  <2> SUFFICES ASSUME NEW f \in Stray(t, X) PROVE f \in Stray(r, X)
    BY DEF Grows
  <2>1. f \in Fd /\ t.chan[t.fd[f].chan] # "half" /\ t.fd[f].kind \in {"req", "repl"}
    BY DEF Stray
  <2>2. f # k.req /\ f # k.repl
    BY <1>6, <2>1 DEF Closed
  <2>3. r.fd[f] = t.fd[f]
    BY <1>6, <2>1, <2>2
  <2>4. r.chan[r.fd[f].chan] # "half"
    <3>1. CASE r.fd[f].chan = k.chan
      BY <1>3, <3>1 DEF Whole, k
    <3>2. CASE r.fd[f].chan \in Chans \ {k.chan}
      BY <1>6, <2>1, <2>3, <3>2
    <3>3. r.fd[f].chan \in Chans
      BY <1>1, <2>1, <2>3, EndChan
    <3> QED
      BY <3>1, <3>2, <3>3
  <2>5. \A i \in Slot \ X : r.sock[i].used => f # r.sock[i].req /\ f # r.sock[i].repl
    BY <1>6, <2>2 DEF Stray, k
  <2> QED
    BY <2>1, <2>3, <2>4, <2>5 DEF Stray
<1> QED
  BY <1>9, <1>10, <1>11, <1>12, <1>13 DEF Grows, t

(* relisten(): a listening channel, or nothing but perhaps the descriptors of an
   interrupted open. *)
LEMMA Relistens ==
  ASSUME NEW q, NEW X, Sound(q, X), NEW r \in relisten(q)
  PROVE  \/ r.ok = FALSE /\ Grows(q, r.p, X, {})
         \/ r.ok = TRUE /\ Grows(q, r.p, X, {r.i}) /\ r.p.sock[r.i].listening = TRUE
<1>1. q \in Process
  BY DEF Sound
<1>2. CASE FreeSlots(q) = {}
  <2>1. r = [ok |-> FALSE, p |-> q, i |-> 0]
    BY <1>2 DEF relisten
  <2>2. Grows(q, q, X, {})
    BY <1>1, Nothing DEF Is
  <2> QED
    BY <2>1, <2>2
<1>3. CASE FreeSlots(q) # {}
  <2> DEFINE n == Min(FreeSlots(q))
             opened == ichan_open(sockalloc(q), n)
  <2>1. n \in Slot /\ ~q.sock[n].used /\ q.sock[n] = NoSock
    BY <1>3, FirstSlot DEF Sound
  <2>2. PICK o \in opened :
          \/ o.ok # TRUE /\ r = [ok |-> FALSE, p |-> sockfree(o.p, n), i |-> 0]
          \/ o.ok /\ r = [ok |-> TRUE, p |-> Post(o.p, n), i |-> n]
          \/ o.ok /\ r = [ok |-> FALSE, p |-> Abandon(o.p, n), i |-> 0]
    BY <1>3 DEF relisten
  <2>3. \/ o.ok = FALSE /\ Is(sockfree(o.p, n), q.fd, q.sock, q.chan)
        \/ \E a, b, c :
             /\ Taken(q, a, b, c)
             /\ \/ /\ o.ok = TRUE
                   /\ \E k : /\ OpenedAs(k, a, b, c)
                            /\ Is(o.p, Ends(q, a, b, c), [q.sock EXCEPT ![n] = k],
                                  [q.chan EXCEPT ![c] = "open"])
                \/ /\ o.ok = FALSE
                   /\ Is(sockfree(o.p, n), Ends(q, a, b, c), q.sock,
                         [q.chan EXCEPT ![c] = "half"])
    BY <1>1, <1>3, <2>1, OpenResults
  <2> HIDE DEF n, opened
  <2>4. ASSUME o.ok = FALSE, Is(sockfree(o.p, n), q.fd, q.sock, q.chan)
        PROVE  r.ok = FALSE /\ Grows(q, r.p, X, {})
    <3>0. r = [ok |-> FALSE, p |-> sockfree(o.p, n), i |-> 0]
      BY <2>2, <2>4, Zenon
    <3>1. r.ok = FALSE /\ r.p = sockfree(o.p, n)
      BY <3>0
    <3> QED
      BY <2>4, <3>1, Nothing
  <2>5. ASSUME NEW a, NEW b, NEW c, Taken(q, a, b, c), o.ok = FALSE,
               Is(sockfree(o.p, n), Ends(q, a, b, c), q.sock, [q.chan EXCEPT ![c] = "half"])
        PROVE  r.ok = FALSE /\ Grows(q, r.p, X, {})
    <3>0. r = [ok |-> FALSE, p |-> sockfree(o.p, n), i |-> 0]
      BY <2>2, <2>5, Zenon
    <3>1. r.ok = FALSE /\ r.p = sockfree(o.p, n)
      BY <3>0
    <3>2. Grows(q, sockfree(o.p, n), X, {})
      BY <2>5, HalfOpens
    <3> QED
      BY <3>1, <3>2
  <2>6. ASSUME NEW a, NEW b, NEW c, Taken(q, a, b, c), o.ok = TRUE,
               NEW k, OpenedAs(k, a, b, c),
               Is(o.p, Ends(q, a, b, c), [q.sock EXCEPT ![n] = k], [q.chan EXCEPT ![c] = "open"])
        PROVE  \/ r.ok = FALSE /\ Grows(q, r.p, X, {})
               \/ r.ok = TRUE /\ Grows(q, r.p, X, {r.i}) /\ r.p.sock[r.i].listening = TRUE
    <3>1. /\ k \in Sock /\ k.used = TRUE /\ k.chan = c /\ k.req = a /\ k.repl = b
          /\ a \in Fd /\ b \in Fd /\ c \in Chans
      BY <2>6 DEF OpenedAs, Taken
    <3>2. Grows(q, o.p, X, {n})
      BY <2>1, <2>6, <3>1, Opens
    <3>3. CASE r = [ok |-> FALSE, p |-> Abandon(o.p, n), i |-> 0]
      BY <3>2, <3>3, AbandonKeeps
    <3>4. CASE r = [ok |-> TRUE, p |-> Post(o.p, n), i |-> n]
      <4>1. o.p \in Process /\ o.p.sock[n] = k
        BY <1>1, <2>1, <2>6, <3>1, Parts DEF Is
      <4>2. PICK l \in Sock :
              /\ l.used = k.used /\ l.chan = k.chan
              /\ l.req = k.req /\ l.repl = k.repl /\ l.listening = TRUE
              /\ Is(Post(o.p, n), o.p.fd, [o.p.sock EXCEPT ![n] = l],
                    [o.p.chan EXCEPT ![k.chan] = "listen"])
        BY <2>1, <3>1, <4>1, PostIs
      <4>3. [[q.sock EXCEPT ![n] = k] EXCEPT ![n] = l] = [q.sock EXCEPT ![n] = l]
            /\ [q.sock EXCEPT ![n] = l][n] = l
        BY <1>1, <2>1, Parts
      <4>4. [[q.chan EXCEPT ![c] = "open"] EXCEPT ![c] = "listen"] = [q.chan EXCEPT ![c] = "listen"]
        BY <1>1, <3>1, Parts
      <4>5. Is(Post(o.p, n), Ends(q, a, b, c), [q.sock EXCEPT ![n] = l],
               [q.chan EXCEPT ![c] = "listen"])
        BY <2>6, <3>1, <4>2, <4>3, <4>4 DEF Is
      <4>6. Grows(q, Post(o.p, n), X, {n})
        BY <2>1, <2>6, <3>1, <4>2, <4>5, Opens
      <4>7. Post(o.p, n).sock[n].listening = TRUE
        BY <4>2, <4>3, <4>5 DEF Is
      <4> QED
        BY <3>4, <4>6, <4>7
    <3> QED
      BY <2>2, <2>6, <3>3, <3>4
  <2> QED
    BY <2>3, <2>4, <2>5, <2>6
<1> QED
  BY <1>2, <1>3

-----------------------------------------------------------------------------
(* acceptlost(): the slot of the lost connection, without its channel. *)
Hollow(q, i) == [ichan_abort(q, i) EXCEPT !.sock[i].repl = -1, !.sock[i].listening = FALSE]

LEMMA HollowIs ==
  ASSUME NEW q, Sound(q, {}), NEW i \in Slot, q.sock[i].used
  PROVE  /\ Sound(Hollow(q, i), {i})
         /\ Stray(Hollow(q, i), {i}) \subseteq Stray(q, {}) \cup {q.sock[i].repl}
         /\ \A f \in Fd : f # q.sock[i].req => Hollow(q, i).fd[f] = q.fd[f]
         /\ Hollow(q, i).fd[q.sock[i].req] = Closed
         /\ \A j \in Slot : j # i => Hollow(q, i).sock[j] = q.sock[j]
         /\ Hollow(q, i).sock[i].used = TRUE
         /\ Hollow(q, i).chan[q.sock[i].chan] = "none"
         /\ \A c \in Chans : c # q.sock[i].chan => Hollow(q, i).chan[c] = q.chan[c]
<1> DEFINE e == q.sock[i]
           t1 == ichan_abort(q, i)
           t2 == [t1 EXCEPT !.sock[i].repl = -1]
           t == [t2 EXCEPT !.sock[i].listening = FALSE]
<1>1. /\ e.chan \in Chans /\ e.req \in Fd /\ e.repl \in Fd
      /\ q.fd[e.req] = End("req", e.chan) /\ q.fd[e.repl] = End("repl", e.chan)
      /\ q.chan[e.chan] \in {"open", "listen", "ready", "conn"}
  BY DEF Sound, Whole
<1>2. q \in Process
  BY DEF Sound
<1>3. Hollow(q, i) = t
  BY DEF Hollow
<1>4. PICK k1 \in Sock :
        /\ k1.used = e.used
        /\ Is(t1, [q.fd EXCEPT ![e.req] = Closed], [q.sock EXCEPT ![i] = k1],
              [q.chan EXCEPT ![e.chan] = "none"])
  BY <1>1, <1>2, AbortIs
<1> HIDE DEF e, t1
<1>5. PICK k2 \in Sock :
        /\ k2.repl = -1 /\ k2.used = t1.sock[i].used
        /\ Is(t2, t1.fd, [t1.sock EXCEPT ![i] = k2], t1.chan)
  <2>1. t1 \in Process /\ -1 \in Fd \cup {-1}
    BY <1>4 DEF Is
  <2> QED
    BY <2>1, PutRepl
<1> HIDE DEF t2
<1>6. PICK k3 \in Sock :
        /\ k3.repl = t2.sock[i].repl /\ k3.used = t2.sock[i].used
        /\ Is(t, t2.fd, [t2.sock EXCEPT ![i] = k3], t2.chan)
  <2>1. t2 \in Process /\ FALSE \in BOOLEAN
    BY <1>5 DEF Is
  <2> QED
    BY <2>1, PutListening
<1> HIDE DEF t
<1>7. \A x \in Sock, y \in Sock :
        [[q.sock EXCEPT ![i] = x] EXCEPT ![i] = y] = [q.sock EXCEPT ![i] = y]
        /\ [q.sock EXCEPT ![i] = y][i] = y
  BY <1>2, Parts
<1>8. Is(t2, t1.fd, [q.sock EXCEPT ![i] = k2], t1.chan) /\ k2.used = e.used
  BY <1>4, <1>5, <1>7 DEF Is
<1>9. Is(t, t1.fd, [q.sock EXCEPT ![i] = k3], t1.chan)
      /\ k3.used = e.used /\ k3.repl = -1
  BY <1>5, <1>6, <1>7, <1>8 DEF Is
<1>10. /\ t \in Process
       /\ t.fd[e.req] = Closed
       /\ \A f \in Fd : f # e.req => t.fd[f] = q.fd[f]
       /\ t.sock[i] = k3 /\ \A j \in Slot : j # i => t.sock[j] = q.sock[j]
       /\ t.chan[e.chan] = "none"
       /\ \A c \in Chans : c # e.chan => t.chan[c] = q.chan[c]
  BY <1>1, <1>2, <1>4, <1>9, Parts DEF Is
<1>11. k3.used = TRUE /\ k3.repl = -1
  BY <1>9, Zenon DEF e
<1>12. ASSUME NEW j \in Slot, j # i, q.sock[j].used
       PROVE  Whole(t, j) /\ q.sock[j].repl # e.repl
  <2> DEFINE g == q.sock[j]
  <2>1. /\ g.chan \in Chans /\ g.req \in Fd /\ g.repl \in Fd
        /\ q.fd[g.req] = End("req", g.chan) /\ q.fd[g.repl] = End("repl", g.chan)
        /\ q.chan[g.chan] \in {"open", "listen", "ready", "conn"}
    BY <1>12 DEF Whole, Sound
  <2>2. g.chan # e.chan
    BY <1>12 DEF Sound, e
  <2>3. g.req # e.req /\ g.repl # e.repl /\ g.repl # e.req
    BY <1>1, <2>1, <2>2 DEF End
  <2> QED
    BY <1>10, <1>12, <2>1, <2>2, <2>3 DEF Whole
<1>13. Sound(t, {i})
  BY <1>10, <1>11, <1>12 DEF Sound
<1>14. Stray(t, {i}) \subseteq Stray(q, {}) \cup {e.repl}
  <2> SUFFICES ASSUME NEW f \in Stray(t, {i}), f # e.repl PROVE f \in Stray(q, {})
    OBVIOUS
  <2>1. f \in Fd /\ t.chan[t.fd[f].chan] # "half" /\ t.fd[f].kind \in {"req", "repl"}
    BY DEF Stray
  <2>2. f # e.req
    BY <1>10, <2>1 DEF Closed
  <2>3. t.fd[f] = q.fd[f]
    BY <1>10, <2>1, <2>2
  <2>4. q.chan[q.fd[f].chan] # "half"
    <3>1. CASE q.fd[f].chan = e.chan
      BY <1>1, <3>1
    <3>2. CASE q.fd[f].chan \in Chans \ {e.chan}
      BY <1>10, <2>1, <2>3, <3>2
    <3>3. q.fd[f].chan \in Chans
      BY <1>2, <2>1, <2>3, EndChan
    <3> QED
      BY <3>1, <3>2, <3>3
  <2>5. \A j \in Slot : q.sock[j].used => f # q.sock[j].req /\ f # q.sock[j].repl
    BY <1>10, <2>2 DEF Stray, e
  <2> QED
    BY <2>1, <2>3, <2>4, <2>5 DEF Stray
<1> QED
  BY <1>3, <1>10, <1>11, <1>13, <1>14 DEF e

(* From q to t slot i's connection has been given up, and the number s, which
   was its, is a listener's or nobody's. *)
Recovers(q, t, i, s) ==
  /\ Sound(t, {})
  /\ \A f \in Fd : q.fd[f] # Closed /\ f # s /\ f # q.sock[i].req => t.fd[f] = q.fd[f]
  /\ t.fd[s].kind = "repl"
  /\ \A j \in Slot : j # i /\ q.sock[j].used =>
       t.sock[j] = q.sock[j] /\ t.chan[q.sock[j].chan] = q.chan[q.sock[j].chan]
  /\ \A j \in Slot : (j = i \/ ~q.sock[j].used) /\ t.sock[j].used =>
       /\ t.sock[j].repl = s /\ t.sock[j].listening
       /\ q.fd[t.sock[j].req] = Closed \/ t.sock[j].req = q.sock[i].req
  /\ \A c \in Chans : t.chan[c] = "half" =>
       q.chan[c] = "half" \/ \E f \in Fd : /\ q.fd[f] = Closed \/ f = q.sock[i].req
                                          /\ t.fd[f] = End("req", c)
  /\ Stray(t, {}) \subseteq Stray(q, {}) \cup {s}

LEMMA GivesUp ==
  ASSUME NEW q, Sound(q, {}), NEW i \in Slot, q.sock[i].used,
         NEW g, Grows(Hollow(q, i), g, {i}, {})
  PROVE  Recovers(q, sockfree(g, i), i, q.sock[i].repl)
<1> DEFINE e == q.sock[i]
           h == Hollow(q, i)
           t == sockfree(g, i)
<1>1. /\ e.chan \in Chans /\ e.req \in Fd /\ e.repl \in Fd
      /\ q.fd[e.req] = End("req", e.chan) /\ q.fd[e.repl] = End("repl", e.chan)
      /\ q.chan[e.chan] \in {"open", "listen", "ready", "conn"}
  BY DEF Sound, Whole
<1>2. /\ Sound(h, {i})
      /\ Stray(h, {i}) \subseteq Stray(q, {}) \cup {e.repl}
      /\ \A f \in Fd : f # e.req => h.fd[f] = q.fd[f]
      /\ h.fd[e.req] = Closed
      /\ \A j \in Slot : j # i => h.sock[j] = q.sock[j]
      /\ h.sock[i].used = TRUE
      /\ h.chan[e.chan] = "none"
      /\ \A c \in Chans : c # e.chan => h.chan[c] = q.chan[c]
  BY HollowIs, Zenon
<1>3. /\ Sound(g, {i})
      /\ \A f \in Fd : h.fd[f] # Closed =>
           g.fd[f] = h.fd[f] /\ \A c \in Chans : h.fd[f].chan = c => g.chan[c] = h.chan[c]
      /\ \A j \in Slot : g.sock[j] = h.sock[j]
      /\ \A c \in Chans : g.chan[c] = "half" =>
           h.chan[c] = "half" \/ \E f \in Fd : h.fd[f] = Closed /\ g.fd[f] = End("req", c)
      /\ Stray(g, {i}) \subseteq Stray(h, {i})
  BY DEF Grows
<1>4. q \in Process /\ g \in Process
  BY <1>3 DEF Sound
<1>5. Is(t, g.fd, [g.sock EXCEPT ![i] = NoSock], g.chan)
  BY <1>4, FreeIs
<1> HIDE DEF e, h, t
<1>6. /\ t \in Process /\ t.fd = g.fd /\ t.chan = g.chan
      /\ t.sock[i] = NoSock /\ \A j \in Slot : j # i => t.sock[j] = g.sock[j]
  BY <1>4, <1>5, Parts DEF Is
<1>7. NoSock.used = FALSE
  BY DEF NoSock
<1>8. e.repl # e.req /\ End("repl", e.chan) # Closed
      /\ End("repl", e.chan).kind = "repl" /\ End("req", e.chan).chan = e.chan
  BY <1>1 DEF End, Closed
<1>9. Sound(t, {})
  <2>1. \A j \in Slot : t.sock[j].used => j # i /\ Whole(t, j)
    BY <1>3, <1>6, <1>7 DEF Sound, Whole
  <2> QED
    BY <1>3, <1>6, <2>1 DEF Sound
<1>10. \A f \in Fd : q.fd[f] # Closed /\ f # e.repl /\ f # e.req => t.fd[f] = q.fd[f]
  BY <1>2, <1>3, <1>6
<1>11. t.fd[e.repl].kind = "repl"
  BY <1>1, <1>2, <1>3, <1>6, <1>8
<1>12. ASSUME NEW j \in Slot, j # i, q.sock[j].used
       PROVE  t.sock[j] = q.sock[j] /\ t.chan[q.sock[j].chan] = q.chan[q.sock[j].chan]
  <2> DEFINE d == q.sock[j]
  <2>1. /\ d.chan \in Chans /\ d.req \in Fd
        /\ q.fd[d.req] = End("req", d.chan)
    BY <1>12 DEF Whole, Sound
  <2>2. d.chan # e.chan
    BY <1>12 DEF Sound, e
  <2>3. q.fd[d.req] # Closed /\ d.req # e.req /\ q.fd[d.req].chan = d.chan
    BY <1>1, <2>1, <2>2 DEF End, Closed
  <2>4. t.chan[d.chan] = q.chan[d.chan]
    BY <1>2, <1>3, <1>6, <2>1, <2>2, <2>3
  <2> QED
    BY <1>2, <1>3, <1>6, <1>12, <2>4
<1>13. \A j \in Slot : ~((j = i \/ ~q.sock[j].used) /\ t.sock[j].used)
  BY <1>2, <1>3, <1>6, <1>7
<1>14. ASSUME NEW c \in Chans, t.chan[c] = "half", q.chan[c] # "half"
       PROVE  \E f \in Fd : (q.fd[f] = Closed \/ f = e.req) /\ t.fd[f] = End("req", c)
  <2>1. h.chan[c] # "half"
    BY <1>2, <1>14
  <2>2. PICK f \in Fd : h.fd[f] = Closed /\ g.fd[f] = End("req", c)
    BY <1>3, <1>6, <1>14, <2>1
  <2> QED
    BY <1>2, <1>6, <2>2
<1>15. Stray(t, {}) \subseteq Stray(q, {}) \cup {e.repl}
  <2>1. Stray(t, {}) \subseteq Stray(g, {i})
    BY <1>6 DEF Stray
  <2> QED
    BY <1>2, <1>3, <2>1
<1> QED
  BY <1>9, <1>10, <1>11, <1>12, <1>13, <1>14, <1>15 DEF Recovers, e, t

LEMMA MoveIs ==
  ASSUME NEW q \in Process, NEW n \in Slot, NEW s \in Fd, q.sock[n].repl \in Fd
  PROVE  \E k \in Sock :
           /\ k.used = q.sock[n].used /\ k.chan = q.sock[n].chan
           /\ k.req = q.sock[n].req /\ k.repl = s /\ k.listening = q.sock[n].listening
           /\ Is(MoveTo(q, n, s),
                 [[q.fd EXCEPT ![s] = q.fd[q.sock[n].repl]]
                    EXCEPT ![q.sock[n].repl] = Closed],
                 [q.sock EXCEPT ![n] = k], q.chan)
<1> DEFINE m == q.sock[n].repl
           t1 == [q EXCEPT !.fd[s] = q.fd[m]]
           t2 == [t1 EXCEPT !.fd[m] = Closed]
<1>1. q.fd[m] \in FdVal /\ Closed \in FdVal
  <2>1. Closed \in FdVal
    BY DEF Closed, FdVal
  <2> QED
    BY <2>1, Parts
<1>2. Is(t1, [q.fd EXCEPT ![s] = q.fd[m]], q.sock, q.chan)
  BY <1>1, PutFd
<1>3. MoveTo(q, n, s) = [t2 EXCEPT !.sock[n].repl = s]
  BY DEF MoveTo, Move
<1> HIDE DEF t1
<1>4. Is(t2, [t1.fd EXCEPT ![m] = Closed], t1.sock, t1.chan)
  <2>1. t1 \in Process
    BY <1>2 DEF Is
  <2> QED
    BY <1>1, <2>1, PutFd
<1> HIDE DEF t2
<1>5. PICK k \in Sock :
        /\ k.repl = s
        /\ k.used = t2.sock[n].used /\ k.chan = t2.sock[n].chan
        /\ k.req = t2.sock[n].req /\ k.listening = t2.sock[n].listening
        /\ Is([t2 EXCEPT !.sock[n].repl = s], t2.fd, [t2.sock EXCEPT ![n] = k], t2.chan)
  <2>1. t2 \in Process /\ s \in Fd \cup {-1}
    BY <1>4 DEF Is
  <2> QED
    BY <2>1, PutRepl
<1>6. /\ k.used = q.sock[n].used /\ k.chan = q.sock[n].chan
      /\ k.req = q.sock[n].req /\ k.listening = q.sock[n].listening
  BY <1>2, <1>4, <1>5 DEF Is
<1>7. Is(MoveTo(q, n, s), [[q.fd EXCEPT ![s] = q.fd[m]] EXCEPT ![m] = Closed],
         [q.sock EXCEPT ![n] = k], q.chan)
  BY <1>2, <1>3, <1>4, <1>5 DEF Is
<1> QED
  BY <1>5, <1>6, <1>7

LEMMA MovesOver ==
  ASSUME NEW q, Sound(q, {}), NEW i \in Slot, q.sock[i].used,
         NEW g, NEW n, Grows(Hollow(q, i), g, {i}, {n}), g.sock[n].listening = TRUE
  PROVE  Recovers(q, sockfree(MoveTo(g, n, q.sock[i].repl), i), i, q.sock[i].repl)
<1> DEFINE e == q.sock[i]
           h == Hollow(q, i)
           d == g.sock[n]
           u == MoveTo(g, n, e.repl)
           t == sockfree(u, i)
<1>1. /\ e.chan \in Chans /\ e.req \in Fd /\ e.repl \in Fd
      /\ q.fd[e.req] = End("req", e.chan) /\ q.fd[e.repl] = End("repl", e.chan)
      /\ q.chan[e.chan] \in {"open", "listen", "ready", "conn"}
  BY DEF Sound, Whole
<1>2. /\ Sound(h, {i})
      /\ Stray(h, {i}) \subseteq Stray(q, {}) \cup {e.repl}
      /\ \A f \in Fd : f # e.req => h.fd[f] = q.fd[f]
      /\ h.fd[e.req] = Closed
      /\ \A j \in Slot : j # i => h.sock[j] = q.sock[j]
      /\ h.sock[i].used = TRUE
      /\ h.chan[e.chan] = "none"
      /\ \A c \in Chans : c # e.chan => h.chan[c] = q.chan[c]
  BY HollowIs, Zenon
<1>3. /\ Sound(g, {i})
      /\ \A f \in Fd : h.fd[f] # Closed =>
           g.fd[f] = h.fd[f] /\ \A c \in Chans : h.fd[f].chan = c => g.chan[c] = h.chan[c]
      /\ \A j \in Slot \ {n} : g.sock[j] = h.sock[j]
      /\ n \in Slot /\ ~h.sock[n].used /\ d.used
      /\ h.fd[d.req] = Closed /\ h.fd[d.repl] = Closed
      /\ \A f \in Fd : h.fd[f].chan # d.chan
      /\ \A c \in Chans : g.chan[c] = "half" =>
           h.chan[c] = "half" \/ \E f \in Fd : h.fd[f] = Closed /\ g.fd[f] = End("req", c)
      /\ Stray(g, {i}) \subseteq Stray(h, {i})
  BY DEF Grows
<1>4. q \in Process /\ g \in Process /\ n # i
  BY <1>2, <1>3 DEF Sound
<1>5. /\ d.chan \in Chans /\ d.req \in Fd /\ d.repl \in Fd
      /\ g.fd[d.req] = End("req", d.chan) /\ g.fd[d.repl] = End("repl", d.chan)
      /\ g.chan[d.chan] \in {"open", "listen", "ready", "conn"}
  <2>1. Whole(g, n)
    BY <1>3, <1>4 DEF Sound
  <2> QED
    BY <2>1 DEF Whole
<1>6. PICK k \in Sock :
        /\ k.used = d.used /\ k.chan = d.chan
        /\ k.req = d.req /\ k.repl = e.repl /\ k.listening = d.listening
        /\ Is(u, [[g.fd EXCEPT ![e.repl] = g.fd[d.repl]] EXCEPT ![d.repl] = Closed],
              [g.sock EXCEPT ![n] = k], g.chan)
  BY <1>1, <1>3, <1>4, <1>5, MoveIs
<1>7. k.used = TRUE /\ k.listening = TRUE
  BY <1>3, <1>6, Zenon
<1> HIDE DEF e, h, u, t
<1>8. Is(t, u.fd, [u.sock EXCEPT ![i] = NoSock], u.chan)
  <2>1. u \in Process
    BY <1>6 DEF Is
  <2> QED
    BY <2>1, FreeIs DEF t
<1>9. e.repl # e.req /\ End("repl", e.chan) # Closed /\ e.repl # d.repl /\ e.repl # d.req
  BY <1>1, <1>2, <1>3 DEF End, Closed
<1>10. /\ t \in Process
       /\ t.fd[e.repl] = End("repl", d.chan) /\ t.fd[d.repl] = Closed
       /\ \A f \in Fd : f # e.repl /\ f # d.repl => t.fd[f] = g.fd[f]
       /\ t.sock[i] = NoSock /\ t.sock[n] = k
       /\ \A j \in Slot : j # i /\ j # n => t.sock[j] = g.sock[j]
       /\ t.chan = g.chan
  <2>1. t \in Process /\ t.chan = g.chan /\ t.fd = u.fd
    BY <1>6, <1>8 DEF Is
  <2>2. /\ u.fd[e.repl] = End("repl", d.chan) /\ u.fd[d.repl] = Closed
        /\ \A f \in Fd : f # e.repl /\ f # d.repl => u.fd[f] = g.fd[f]
    BY <1>1, <1>4, <1>5, <1>6, <1>9, Parts DEF Is
  <2>3. u.sock[n] = k /\ \A j \in Slot : j # n => u.sock[j] = g.sock[j]
    BY <1>3, <1>4, <1>6, Parts DEF Is
  <2>4. t.sock[i] = NoSock /\ \A j \in Slot : j # i => t.sock[j] = u.sock[j]
    BY <1>6, <1>8, Parts DEF Is
  <2> QED
    BY <1>3, <1>4, <2>1, <2>2, <2>3, <2>4
<1>11. NoSock.used = FALSE
  BY DEF NoSock
<1> HIDE DEF d
<1>12. ASSUME NEW j \in Slot, j # i, j # n, q.sock[j].used
       PROVE  /\ t.sock[j] = q.sock[j]
              /\ t.chan[q.sock[j].chan] = q.chan[q.sock[j].chan]
              /\ Whole(t, j) /\ q.sock[j].chan # d.chan
  <2> DEFINE y == q.sock[j]
  <2>1. /\ y.chan \in Chans /\ y.req \in Fd /\ y.repl \in Fd
        /\ q.fd[y.req] = End("req", y.chan) /\ q.fd[y.repl] = End("repl", y.chan)
        /\ q.chan[y.chan] \in {"open", "listen", "ready", "conn"}
    BY <1>12 DEF Whole, Sound
  <2>2. y.chan # e.chan
    BY <1>12 DEF Sound, e
  <2>3. /\ y.req # e.req /\ y.repl # e.req /\ y.repl # e.repl /\ y.req # e.repl
        /\ q.fd[y.req] # Closed /\ q.fd[y.repl] # Closed
        /\ q.fd[y.req].chan = y.chan
    BY <1>1, <2>1, <2>2 DEF End, Closed
  <2>4. /\ h.fd[y.req] = q.fd[y.req] /\ h.fd[y.repl] = q.fd[y.repl]
        /\ h.chan[y.chan] = q.chan[y.chan]
    BY <1>2, <2>1, <2>2, <2>3
  <2>5. /\ g.fd[y.req] = q.fd[y.req] /\ g.fd[y.repl] = q.fd[y.repl]
        /\ g.chan[y.chan] = q.chan[y.chan]
    BY <1>3, <2>1, <2>3, <2>4
  <2>6. y.req # d.repl /\ y.repl # d.repl /\ y.chan # d.chan
    BY <1>3, <2>1, <2>3, <2>4
  <2>7. t.fd[y.req] = q.fd[y.req] /\ t.fd[y.repl] = q.fd[y.repl]
    BY <1>10, <2>1, <2>3, <2>5, <2>6
  <2>8. t.sock[j] = q.sock[j]
    BY <1>2, <1>3, <1>10, <1>12
  <2> QED
    BY <1>10, <2>1, <2>5, <2>6, <2>7, <2>8 DEF Whole
<1>13. Whole(t, n)
  <2>1. d.req # d.repl
    BY <1>5 DEF End
  <2>2. t.fd[d.req] = End("req", d.chan) /\ t.chan[d.chan] = g.chan[d.chan]
    BY <1>5, <1>9, <1>10, <2>1
  <2>3. t.sock[n].chan = d.chan /\ t.sock[n].req = d.req /\ t.sock[n].repl = e.repl
    BY <1>6, <1>10
  <2> QED
    BY <1>1, <1>5, <1>10, <2>2, <2>3 DEF Whole
<1>14. \A j \in Slot : t.sock[j].used => j # i /\ (j = n \/ (j # n /\ q.sock[j].used))
  BY <1>2, <1>3, <1>10, <1>11
<1>15. Sound(t, {})
  <2>1. \A j \in Slot : t.sock[j].used => Whole(t, j)
    BY <1>12, <1>13, <1>14
  <2>2. \A j \in Slot : ~t.sock[j].used => t.sock[j] = NoSock
    BY <1>3, <1>7, <1>10 DEF Sound
  <2>3. ASSUME NEW j1 \in Slot, NEW j2 \in Slot, j1 # j2, t.sock[j1].used, t.sock[j2].used
        PROVE  t.sock[j1].chan # t.sock[j2].chan
    <3>1. CASE j1 = n
      BY <1>6, <1>10, <1>12, <1>14, <2>3, <3>1
    <3>2. CASE j2 = n
      BY <1>6, <1>10, <1>12, <1>14, <2>3, <3>2
    <3>3. CASE j1 # n /\ j2 # n
      BY <1>12, <1>14, <2>3, <3>3 DEF Sound
    <3> QED
      BY <3>1, <3>2, <3>3
  <2> QED
    BY <1>10, <2>1, <2>2, <2>3 DEF Sound
<1>16. \A f \in Fd : q.fd[f] # Closed /\ f # e.repl /\ f # e.req => t.fd[f] = q.fd[f]
  BY <1>2, <1>3, <1>10
<1>17. t.fd[e.repl].kind = "repl"
  BY <1>10 DEF End
<1>18. n \in Slot /\ ~q.sock[n].used
  BY <1>2, <1>3, <1>4
<1>19. \A j \in Slot : (j = i \/ ~q.sock[j].used) /\ t.sock[j].used =>
         /\ t.sock[j].repl = e.repl /\ t.sock[j].listening
         /\ q.fd[t.sock[j].req] = Closed \/ t.sock[j].req = e.req
  <2>1. q.fd[d.req] = Closed \/ d.req = e.req
    BY <1>2, <1>3, <1>5
  <2> QED
    BY <1>6, <1>7, <1>10, <1>14, <2>1
<1>20. ASSUME NEW c \in Chans, t.chan[c] = "half", q.chan[c] # "half"
       PROVE  \E f \in Fd : (q.fd[f] = Closed \/ f = e.req) /\ t.fd[f] = End("req", c)
  <2>1. h.chan[c] # "half"
    BY <1>2, <1>20
  <2>2. PICK f \in Fd : h.fd[f] = Closed /\ g.fd[f] = End("req", c)
    BY <1>3, <1>10, <1>20, <2>1
  <2>3. f # d.repl /\ f # e.repl
    BY <1>1, <1>2, <1>5, <1>9, <2>2 DEF End
  <2> QED
    BY <1>2, <1>10, <2>2, <2>3
<1>21. Stray(t, {}) \subseteq Stray(q, {}) \cup {e.repl}
  <2> SUFFICES ASSUME NEW f \in Stray(t, {}), f # e.repl PROVE f \in Stray(g, {i})
    BY <1>2, <1>3
  <2>1. /\ f \in Fd /\ t.chan[t.fd[f].chan] # "half" /\ t.fd[f].kind \in {"req", "repl"}
        /\ \A j \in Slot : t.sock[j].used => f # t.sock[j].req /\ f # t.sock[j].repl
    BY DEF Stray
  <2>2. f # d.repl
    BY <1>10, <2>1 DEF Closed
  <2>3. t.fd[f] = g.fd[f]
    BY <1>10, <2>1, <2>2
  <2>4. f # d.req
    BY <1>6, <1>7, <1>10, <1>18, <2>1
  <2>5. \A j \in Slot \ {i} : g.sock[j].used => f # g.sock[j].req /\ f # g.sock[j].repl
    BY <1>10, <2>1, <2>2, <2>4 DEF d
  <2> QED
    BY <1>10, <2>1, <2>3, <2>5 DEF Stray
<1> QED
  BY <1>12, <1>15, <1>16, <1>17, <1>18, <1>19, <1>20, <1>21 DEF Recovers, e, t, u

LEMMA AcceptLost ==
  ASSUME NEW q, Sound(q, {}), NEW i \in Slot, q.sock[i].used,
         NEW t \in acceptlost(q, i, q.sock[i].repl)
  PROVE  Recovers(q, t, i, q.sock[i].repl)
<1>1. Sound(Hollow(q, i), {i})
  BY HollowIs
<1>2. PICK r \in relisten(Hollow(q, i)) :
        \/ r.ok # TRUE /\ t = sockfree(r.p, i)
        \/ r.ok /\ t = sockfree(MoveTo(r.p, r.i, q.sock[i].repl), i)
        \/ r.ok /\ t = sockfree(Abandon(r.p, r.i), i)
  BY DEF acceptlost, Hollow
<1>3. \/ r.ok = FALSE /\ Grows(Hollow(q, i), r.p, {i}, {})
      \/ /\ r.ok = TRUE /\ Grows(Hollow(q, i), r.p, {i}, {r.i})
         /\ r.p.sock[r.i].listening = TRUE
  BY <1>1, Relistens
<1>4. CASE r.ok = FALSE /\ Grows(Hollow(q, i), r.p, {i}, {})
  <2>1. t = sockfree(r.p, i)
    BY <1>2, <1>4, Zenon
  <2> QED
    BY <1>4, <2>1, GivesUp
<1>5. CASE /\ r.ok = TRUE /\ Grows(Hollow(q, i), r.p, {i}, {r.i})
           /\ r.p.sock[r.i].listening = TRUE
  <2>1. CASE t = sockfree(MoveTo(r.p, r.i, q.sock[i].repl), i)
    BY <1>5, <2>1, MovesOver
  <2>2. CASE t = sockfree(Abandon(r.p, r.i), i)
    <3>1. Grows(Hollow(q, i), Abandon(r.p, r.i), {i}, {})
      BY <1>1, <1>5, AbandonKeeps
    <3> QED
      BY <2>2, <3>1, GivesUp
  <2> QED
    BY <1>2, <1>5, <2>1, <2>2, Zenon
<1> QED
  BY <1>3, <1>4, <1>5

-----------------------------------------------------------------------------
(* accept(), from the moment its LISTEN has been answered. *)
LEMMA GrowsRecovers ==
  ASSUME NEW q, Sound(q, {}), NEW i \in Slot, q.sock[i].used,
         NEW g, Grows(q, g, {}, {}), NEW t, Recovers(g, t, i, q.sock[i].repl)
  PROVE  Recovers(q, t, i, q.sock[i].repl)
<1> DEFINE e == q.sock[i]
<1>1. /\ Sound(g, {})
      /\ \A f \in Fd : q.fd[f] # Closed =>
           g.fd[f] = q.fd[f] /\ \A c \in Chans : q.fd[f].chan = c => g.chan[c] = q.chan[c]
      /\ \A j \in Slot : g.sock[j] = q.sock[j]
      /\ \A c \in Chans : g.chan[c] = "half" =>
           q.chan[c] = "half" \/ \E f \in Fd : q.fd[f] = Closed /\ g.fd[f] = End("req", c)
      /\ Stray(g, {}) \subseteq Stray(q, {})
  BY DEF Grows
<1>2. e.repl \in Fd /\ q.fd[e.repl] # Closed
  BY InOrder
<1>3. /\ Sound(t, {})
      /\ \A f \in Fd : g.fd[f] # Closed /\ f # e.repl /\ f # e.req => t.fd[f] = g.fd[f]
      /\ t.fd[e.repl].kind = "repl"
      /\ \A j \in Slot : j # i /\ q.sock[j].used =>
           t.sock[j] = q.sock[j] /\ t.chan[q.sock[j].chan] = g.chan[q.sock[j].chan]
      /\ \A j \in Slot : (j = i \/ ~q.sock[j].used) /\ t.sock[j].used =>
           /\ t.sock[j].repl = e.repl /\ t.sock[j].listening
           /\ g.fd[t.sock[j].req] = Closed \/ t.sock[j].req = e.req
      /\ \A c \in Chans : t.chan[c] = "half" =>
           g.chan[c] = "half" \/ \E f \in Fd : (g.fd[f] = Closed \/ f = e.req)
                                              /\ t.fd[f] = End("req", c)
      /\ Stray(t, {}) \subseteq Stray(g, {}) \cup {e.repl}
  BY <1>1 DEF Recovers
<1>4. ASSUME NEW j \in Slot, j # i, q.sock[j].used
      PROVE  t.chan[q.sock[j].chan] = q.chan[q.sock[j].chan]
  <2>1. /\ q.sock[j].chan \in Chans /\ q.sock[j].req \in Fd
        /\ q.fd[q.sock[j].req] = End("req", q.sock[j].chan)
    BY <1>4 DEF Sound, Whole
  <2>2. q.fd[q.sock[j].req] # Closed /\ q.fd[q.sock[j].req].chan = q.sock[j].chan
    BY <2>1 DEF End, Closed
  <2> QED
    BY <1>1, <1>3, <1>4, <2>1, <2>2
<1>5. ASSUME NEW c \in Chans, t.chan[c] = "half", q.chan[c] # "half"
      PROVE  \E f \in Fd : (q.fd[f] = Closed \/ f = e.req) /\ t.fd[f] = End("req", c)
  <2>1. CASE g.chan[c] = "half"
    <3>1. PICK f \in Fd : q.fd[f] = Closed /\ g.fd[f] = End("req", c)
      BY <1>1, <1>5, <2>1
    <3>2. CASE f = e.req
      <4>1. q.fd[e.req] # Closed
        BY InOrder
      <4> QED
        BY <3>1, <3>2, <4>1
    <3>3. CASE f # e.req
      <4>1. g.fd[f] # Closed /\ f # e.repl
        BY <1>2, <3>1 DEF End, Closed
      <4> QED
        BY <1>3, <3>1, <3>3, <4>1
    <3> QED
      BY <3>2, <3>3
  <2>2. CASE g.chan[c] # "half"
    <3>1. PICK f \in Fd : (g.fd[f] = Closed \/ f = e.req) /\ t.fd[f] = End("req", c)
      BY <1>3, <1>5, <2>2
    <3> QED
      BY <1>1, <3>1
  <2> QED
    BY <2>1, <2>2
<1>6. \A f \in Fd : q.fd[f] # Closed /\ f # e.repl /\ f # e.req => t.fd[f] = q.fd[f]
  BY <1>1, <1>3
<1>7. Stray(t, {}) \subseteq Stray(q, {}) \cup {e.repl}
  BY <1>1, <1>3
<1>8. \A j \in Slot : (j = i \/ ~q.sock[j].used) /\ t.sock[j].used =>
         q.fd[t.sock[j].req] = Closed \/ t.sock[j].req = e.req
  <2>1. \A j \in Slot : t.sock[j].used => t.sock[j].req \in Fd
    BY <1>3, InOrder
  <2> QED
    BY <1>1, <1>3, <2>1
<1> QED
  BY <1>3, <1>4, <1>5, <1>6, <1>7, <1>8 DEF Recovers

(* From q to t the connection in slot i has got the number f0 and its old
   number, s, a new listener. *)
Swaps(q, t, i, s, f0) ==
  /\ Sound(t, {})
  /\ f0 \in Fd /\ q.fd[f0] = Closed /\ t.fd[f0] # Closed
  /\ \A f \in Fd : q.fd[f] # Closed /\ f # s => t.fd[f] = q.fd[f]
  /\ t.fd[s] # Closed
  /\ t.sock[i].used = TRUE /\ t.sock[i].repl = f0 /\ t.sock[i].chan = q.sock[i].chan
  /\ t.sock[i].req = q.sock[i].req /\ t.sock[i].listening = q.sock[i].listening
  /\ \A j \in Slot : q.sock[j].used =>
       (j # i => t.sock[j] = q.sock[j]) /\ t.chan[q.sock[j].chan] = q.chan[q.sock[j].chan]
  /\ \A j \in Slot : ~q.sock[j].used /\ t.sock[j].used =>
       /\ t.sock[j].repl = s /\ t.sock[j].listening
       /\ q.fd[t.sock[j].req] = Closed
  /\ \A c \in Chans : t.chan[c] = "half" =>
       q.chan[c] = "half" \/ \E f \in Fd : /\ q.fd[f] = Closed /\ f # f0
                                          /\ t.fd[f] = End("req", c)
  /\ Stray(t, {}) \subseteq Stray(q, {})

(* The cells after the dup and the dup2. *)
Swapped(g, i, n, s, t, b) ==
  LET m == g.sock[n].repl
  IN  /\ t \in Process /\ b \in Fd /\ g.fd[b] = Closed /\ t.chan = g.chan
      /\ b # s /\ b # m =>
           /\ t.fd[b] = g.fd[g.sock[i].repl] /\ t.fd[s] = g.fd[m]
           /\ t.fd[m] = Closed
           /\ \A f \in Fd : f # b /\ f # s /\ f # m => t.fd[f] = g.fd[f]
      /\ t.sock[i].repl = b
      /\ t.sock[i].used = g.sock[i].used /\ t.sock[i].chan = g.sock[i].chan
      /\ t.sock[i].req = g.sock[i].req /\ t.sock[i].listening = g.sock[i].listening
      /\ t.sock[n].repl = s
      /\ t.sock[n].used = g.sock[n].used /\ t.sock[n].chan = g.sock[n].chan
      /\ t.sock[n].req = g.sock[n].req /\ t.sock[n].listening = g.sock[n].listening
      /\ \A j \in Slot : j # i /\ j # n => t.sock[j] = g.sock[j]

LEMMA SwapIs ==
  ASSUME NEW g \in Process, NEW i \in Slot, NEW n \in Slot, i # n, NEW s \in Fd,
         g.sock[n].repl \in Fd, g.sock[i].repl \in Fd,
         g.sock[n].repl # s, Free(g) # {}
  PROVE  LET r == Swap(g, i, n, s)
         IN  Swapped(g, i, n, s, r.p, r.ret)
<1> DEFINE b == Lowest(g)
           m == g.sock[n].repl
           dup == [g EXCEPT !.fd[b] = g.fd[g.sock[i].repl]]
           u == MoveTo(dup, n, s)
           t == [u EXCEPT !.sock[i].repl = b]
<1>1. b \in Fd /\ g.fd[b] = Closed
  BY LowestFree
<1>2. Is(dup, [g.fd EXCEPT ![b] = g.fd[g.sock[i].repl]], g.sock, g.chan)
  <2>1. g.fd[g.sock[i].repl] \in FdVal
    BY Parts
  <2> QED
    BY <1>1, <2>1, PutFd
<1>3. Swap(g, i, n, s) = [p |-> t, ret |-> b]
  BY DEF Swap
<1> HIDE DEF b, dup
<1>4. PICK k \in Sock :
        /\ k.used = dup.sock[n].used /\ k.chan = dup.sock[n].chan
        /\ k.req = dup.sock[n].req /\ k.repl = s /\ k.listening = dup.sock[n].listening
        /\ Is(u, [[dup.fd EXCEPT ![s] = dup.fd[dup.sock[n].repl]]
                     EXCEPT ![dup.sock[n].repl] = Closed],
              [dup.sock EXCEPT ![n] = k], dup.chan)
  <2>1. dup \in Process /\ dup.sock[n].repl \in Fd
    BY <1>2 DEF Is
  <2> QED
    BY <2>1, MoveIs
<1> HIDE DEF u
<1>5. PICK l \in Sock :
        /\ l.repl = b
        /\ l.used = u.sock[i].used /\ l.chan = u.sock[i].chan
        /\ l.req = u.sock[i].req /\ l.listening = u.sock[i].listening
        /\ Is(t, u.fd, [u.sock EXCEPT ![i] = l], u.chan)
  <2>1. u \in Process /\ b \in Fd \cup {-1}
    BY <1>1, <1>4 DEF Is
  <2> QED
    BY <2>1, PutRepl
<1> HIDE DEF t
<1>6. t \in Process /\ t.chan = g.chan
  BY <1>2, <1>4, <1>5 DEF Is
<1>7. /\ t.sock[i] = l /\ t.sock[n] = k
      /\ \A j \in Slot : j # i /\ j # n => t.sock[j] = g.sock[j]
      /\ u.sock[i] = g.sock[i]
  BY <1>2, <1>4, <1>5, Parts DEF Is
<1>8. /\ k.used = g.sock[n].used /\ k.chan = g.sock[n].chan
      /\ k.req = g.sock[n].req /\ k.listening = g.sock[n].listening
      /\ l.used = g.sock[i].used /\ l.chan = g.sock[i].chan
      /\ l.req = g.sock[i].req /\ l.listening = g.sock[i].listening
  BY <1>2, <1>4, <1>5, <1>7 DEF Is
<1>9. ASSUME b # s, b # m
      PROVE  /\ t.fd[b] = g.fd[g.sock[i].repl] /\ t.fd[s] = g.fd[m]
             /\ t.fd[m] = Closed
             /\ \A f \in Fd : f # b /\ f # s /\ f # m => t.fd[f] = g.fd[f]
  <2>1. t.fd = [[dup.fd EXCEPT ![s] = dup.fd[m]] EXCEPT ![m] = Closed]
    BY <1>2, <1>4, <1>5 DEF Is
  <2>2. dup.fd = [g.fd EXCEPT ![b] = g.fd[g.sock[i].repl]]
    BY <1>2 DEF Is
  <2>3. DOMAIN g.fd = Fd
    BY Parts
  <2> HIDE DEF m
  <2>4. m \in Fd /\ m # s
    BY DEF m
  <2> QED
    BY <1>1, <1>9, <2>1, <2>2, <2>3, <2>4
<1>10. Swap(g, i, n, s).p = t /\ Swap(g, i, n, s).ret = b
  BY <1>3
<1>11. t.sock[i].repl = b /\ t.sock[n].repl = s
  BY <1>4, <1>5, <1>7
<1>12. Swapped(g, i, n, s, t, b)
  BY <1>1, <1>6, <1>7, <1>8, <1>9, <1>11 DEF Swapped
<1> QED
  BY <1>10, <1>12

LEMMA SwapDone ==
  ASSUME NEW q, Sound(q, {}), NEW i \in Slot, q.sock[i].used,
         NEW g, NEW n, Grows(q, g, {}, {n}), g.sock[n].listening = TRUE, Free(g) # {}
  PROVE  LET r == Swap(g, i, n, q.sock[i].repl)
         IN  Swaps(q, r.p, i, q.sock[i].repl, r.ret)
<1> DEFINE e == q.sock[i]
           d == g.sock[n]
           r == Swap(g, i, n, e.repl)
           b == r.ret
           t == r.p
<1>1. /\ e.chan \in Chans /\ e.req \in Fd /\ e.repl \in Fd
      /\ q.fd[e.req] = End("req", e.chan) /\ q.fd[e.repl] = End("repl", e.chan)
      /\ q.chan[e.chan] \in {"open", "listen", "ready", "conn"}
      /\ q.fd[e.req] # Closed /\ q.fd[e.repl] # Closed
      /\ q.fd[e.req].chan = e.chan /\ q.fd[e.repl].chan = e.chan
      /\ e.req # e.repl
  BY InOrder
<1>2. /\ Sound(g, {})
      /\ \A f \in Fd : q.fd[f] # Closed =>
           g.fd[f] = q.fd[f] /\ \A c \in Chans : q.fd[f].chan = c => g.chan[c] = q.chan[c]
      /\ \A j \in Slot \ {n} : g.sock[j] = q.sock[j]
      /\ n \in Slot /\ ~q.sock[n].used /\ d.used
      /\ q.fd[d.req] = Closed /\ q.fd[d.repl] = Closed
      /\ \A f \in Fd : q.fd[f].chan # d.chan
      /\ \A c \in Chans : g.chan[c] = "half" =>
           q.chan[c] = "half" \/ \E f \in Fd : q.fd[f] = Closed /\ g.fd[f] = End("req", c)
      /\ Stray(g, {}) \subseteq Stray(q, {})
  BY DEF Grows
<1>3. g \in Process /\ n # i /\ g.sock[i] = e
  BY <1>2 DEF Sound
<1>4. /\ d.chan \in Chans /\ d.req \in Fd /\ d.repl \in Fd
      /\ g.fd[d.req] = End("req", d.chan) /\ g.fd[d.repl] = End("repl", d.chan)
      /\ g.chan[d.chan] \in {"open", "listen", "ready", "conn"}
      /\ g.fd[d.req] # Closed /\ g.fd[d.repl] # Closed
      /\ d.req # d.repl
  BY <1>2, InOrder
<1>5. d.repl # e.repl /\ d.req # e.repl /\ d.repl # e.req /\ d.req # e.req
      /\ d.chan # e.chan
  BY <1>1, <1>2
<1>6. /\ t \in Process /\ b \in Fd /\ g.fd[b] = Closed /\ t.chan = g.chan
      /\ b # e.repl /\ b # d.repl =>
           /\ t.fd[b] = g.fd[g.sock[i].repl] /\ t.fd[e.repl] = g.fd[d.repl]
           /\ t.fd[d.repl] = Closed
           /\ \A f \in Fd : f # b /\ f # e.repl /\ f # d.repl => t.fd[f] = g.fd[f]
      /\ t.sock[i].repl = b
      /\ t.sock[i].used = g.sock[i].used /\ t.sock[i].chan = g.sock[i].chan
      /\ t.sock[i].req = g.sock[i].req /\ t.sock[i].listening = g.sock[i].listening
      /\ t.sock[n].repl = e.repl
      /\ t.sock[n].used = d.used /\ t.sock[n].chan = d.chan
      /\ t.sock[n].req = d.req /\ t.sock[n].listening = d.listening
      /\ \A j \in Slot : j # i /\ j # n => t.sock[j] = g.sock[j]
  <2>1. /\ g.sock[n].repl \in Fd /\ g.sock[i].repl \in Fd /\ g.sock[n].repl # e.repl
        /\ g \in Process /\ n \in Slot /\ i # n /\ e.repl \in Fd
    BY <1>1, <1>2, <1>3, <1>4, <1>5
  <2>2. Swapped(g, i, n, e.repl, t, b)
    BY <2>1, SwapIs
  <2> HIDE DEF t, b, e
  <2> QED
    BY <2>2 DEF Swapped
<1> HIDE DEF t, b
<1>7. t.sock[i].used = TRUE /\ t.sock[n].used = TRUE /\ t.sock[n].listening = TRUE
  BY <1>2, <1>3, <1>6, Zenon DEF d, e
<1> HIDE DEF e, d
<1>8. b # e.repl /\ b # d.repl /\ b # e.req /\ b # d.req /\ q.fd[b] = Closed
  BY <1>1, <1>2, <1>4, <1>6
<1>9. /\ t.fd[b] = End("repl", e.chan) /\ t.fd[e.repl] = End("repl", d.chan)
      /\ t.fd[d.repl] = Closed
      /\ t.fd[e.req] = End("req", e.chan) /\ t.fd[d.req] = End("req", d.chan)
      /\ \A f \in Fd : f # b /\ f # e.repl /\ f # d.repl => t.fd[f] = g.fd[f]
  BY <1>1, <1>2, <1>3, <1>4, <1>5, <1>6, <1>8
<1>10. t.chan[e.chan] = q.chan[e.chan] /\ t.chan[d.chan] = g.chan[d.chan]
  BY <1>1, <1>2, <1>6
<1>11. ASSUME NEW j \in Slot, j # i, j # n, q.sock[j].used
       PROVE  /\ t.sock[j] = q.sock[j]
              /\ t.chan[q.sock[j].chan] = q.chan[q.sock[j].chan]
              /\ Whole(t, j) /\ q.sock[j].chan # d.chan /\ q.sock[j].chan # e.chan
  <2> DEFINE y == q.sock[j]
  <2>1. /\ y.chan \in Chans /\ y.req \in Fd /\ y.repl \in Fd
        /\ q.fd[y.req] = End("req", y.chan) /\ q.fd[y.repl] = End("repl", y.chan)
        /\ q.chan[y.chan] \in {"open", "listen", "ready", "conn"}
        /\ q.fd[y.req] # Closed /\ q.fd[y.repl] # Closed
        /\ q.fd[y.req].chan = y.chan /\ q.fd[y.repl].chan = y.chan
    BY <1>11, InOrder
  <2>2. y.chan # e.chan /\ y.chan # d.chan
    BY <1>2, <1>11, <2>1 DEF Sound, e
  <2>3. /\ y.repl # e.repl /\ y.req # e.repl /\ y.repl # d.repl /\ y.req # d.repl
        /\ y.repl # b /\ y.req # b
    BY <1>1, <1>2, <1>8, <2>1, <2>2
  <2>4. t.fd[y.req] = q.fd[y.req] /\ t.fd[y.repl] = q.fd[y.repl]
        /\ t.chan[y.chan] = q.chan[y.chan]
    BY <1>2, <1>6, <1>9, <2>1, <2>3
  <2>5. t.sock[j] = q.sock[j]
    BY <1>2, <1>6, <1>11
  <2> QED
    BY <2>1, <2>2, <2>4, <2>5 DEF Whole
<1>12. Whole(t, i) /\ Whole(t, n)
  <2>1. t.sock[i].chan = e.chan /\ t.sock[i].req = e.req /\ t.sock[i].repl = b
    BY <1>3, <1>6
  <2>2. t.sock[n].chan = d.chan /\ t.sock[n].req = d.req /\ t.sock[n].repl = e.repl
    BY <1>6
  <2>3. Whole(t, i)
    BY <1>1, <1>6, <1>9, <1>10, <2>1 DEF Whole
  <2>4. Whole(t, n)
    BY <1>1, <1>4, <1>9, <1>10, <2>2 DEF Whole
  <2> QED
    BY <2>3, <2>4
<1>13. \A j \in Slot : t.sock[j].used => j = i \/ j = n \/ (j # i /\ j # n /\ q.sock[j].used)
  BY <1>2, <1>6
<1>14. Sound(t, {})
  <2>1. \A j \in Slot : t.sock[j].used => Whole(t, j)
    BY <1>11, <1>12, <1>13
  <2>2. ASSUME NEW j \in Slot, ~t.sock[j].used PROVE t.sock[j] = NoSock
    <3>1. j # i /\ j # n
      BY <1>7, <2>2
    <3> QED
      BY <1>2, <1>6, <2>2, <3>1 DEF Sound
  <2>3. ASSUME NEW j1 \in Slot, NEW j2 \in Slot, j1 # j2, t.sock[j1].used, t.sock[j2].used
        PROVE  t.sock[j1].chan # t.sock[j2].chan
    <3>1. CASE j1 # n /\ j2 # n /\ j1 # i /\ j2 # i
      BY <1>11, <1>13, <2>3, <3>1 DEF Sound
    <3>2. CASE j1 \in {i, n} \/ j2 \in {i, n}
      BY <1>3, <1>5, <1>6, <1>11, <1>13, <2>3, <3>2
    <3> QED
      BY <3>1, <3>2
  <2> QED
    BY <1>6, <2>1, <2>2, <2>3 DEF Sound
<1>15. \A f \in Fd : q.fd[f] # Closed /\ f # e.repl => t.fd[f] = q.fd[f]
  BY <1>2, <1>8, <1>9
<1>16. t.fd[e.repl] # Closed /\ t.fd[b] # Closed
  BY <1>9 DEF End, Closed
<1>17. \A j \in Slot : ~q.sock[j].used /\ t.sock[j].used => j = n
  BY <1>13 DEF e
<1>18. ASSUME NEW c \in Chans, t.chan[c] = "half", q.chan[c] # "half"
       PROVE  \E f \in Fd : q.fd[f] = Closed /\ f # b /\ t.fd[f] = End("req", c)
  <2>1. PICK f \in Fd : q.fd[f] = Closed /\ g.fd[f] = End("req", c)
    BY <1>2, <1>6, <1>18
  <2>2. f # b /\ f # e.repl /\ f # d.repl
    BY <1>1, <1>4, <1>6, <2>1 DEF End, Closed
  <2> QED
    BY <1>9, <2>1, <2>2
<1>19. Stray(t, {}) \subseteq Stray(q, {})
  <2> SUFFICES ASSUME NEW f \in Stray(t, {}) PROVE f \in Stray(g, {})
    BY <1>2
  <2>1. /\ f \in Fd /\ t.chan[t.fd[f].chan] # "half" /\ t.fd[f].kind \in {"req", "repl"}
        /\ \A j \in Slot : t.sock[j].used => f # t.sock[j].req /\ f # t.sock[j].repl
    BY DEF Stray
  <2>2. f # d.repl
    BY <1>9, <2>1 DEF Closed
  <2>3. f # b /\ f # e.repl /\ f # e.req /\ f # d.req
    <3>1. f # t.sock[i].req /\ f # t.sock[i].repl
      BY <1>7, <2>1
    <3>2. f # t.sock[n].req /\ f # t.sock[n].repl
      BY <1>2, <1>7, <2>1
    <3> QED
      BY <1>3, <1>6, <3>1, <3>2
  <2>4. t.fd[f] = g.fd[f]
    BY <1>9, <2>1, <2>2, <2>3
  <2>5. \A j \in Slot : g.sock[j].used => f # g.sock[j].req /\ f # g.sock[j].repl
    BY <1>3, <1>6, <2>1, <2>2, <2>3 DEF d
  <2> QED
    BY <1>6, <2>1, <2>4, <2>5 DEF Stray
<1>20. \A j \in Slot : q.sock[j].used =>
         (j # i => t.sock[j] = q.sock[j]) /\ t.chan[q.sock[j].chan] = q.chan[q.sock[j].chan]
  BY <1>2, <1>10, <1>11 DEF e
<1>21. \A j \in Slot : ~q.sock[j].used /\ t.sock[j].used =>
         t.sock[j].repl = e.repl /\ t.sock[j].listening /\ q.fd[t.sock[j].req] = Closed
  BY <1>2, <1>6, <1>7, <1>17
<1>22. /\ t.sock[i].repl = b /\ t.sock[i].chan = e.chan
       /\ t.sock[i].req = e.req /\ t.sock[i].listening = e.listening
  BY <1>3, <1>6
<1> QED
  BY <1>6, <1>7, <1>8, <1>14, <1>15, <1>16, <1>18, <1>19, <1>20, <1>21, <1>22
     DEF Swaps, e, b, t

LEMMA AcceptedIs ==
  ASSUME NEW q, Sound(q, {}), NEW i \in Slot, q.sock[i].used,
         NEW r \in Accepted(q, i, q.sock[i].repl)
  PROVE  \/ r.ret = -1 /\ Recovers(q, r.p, i, q.sock[i].repl)
         \/ r.ret \in Fd /\ Swaps(q, r.p, i, q.sock[i].repl, r.ret)
<1> DEFINE s == q.sock[i].repl
           Lost(x) == {[p |-> t, ret |-> -1] : t \in acceptlost(x, i, s)}
<1>1. ASSUME NEW x, Grows(q, x, {}, {}), r \in Lost(x)
      PROVE  r.ret = -1 /\ Recovers(q, r.p, i, s)
  <2>1. PICK t \in acceptlost(x, i, s) : r = [p |-> t, ret |-> -1]
    BY <1>1
  <2>2. Sound(x, {}) /\ x.sock[i] = q.sock[i]
    BY <1>1 DEF Grows
  <2>3. Recovers(x, t, i, x.sock[i].repl)
    BY <2>1, <2>2, AcceptLost
  <2>4. Recovers(q, t, i, s)
    BY <1>1, <2>2, <2>3, GrowsRecovers
  <2> QED
    BY <2>1, <2>4
<1>2. PICK o \in relisten(q) :
        \/ o.ok # TRUE /\ r \in Lost(o.p)
        \/ o.ok /\ Free(o.p) = {} /\ r \in Lost(Abandon(o.p, o.i))
        \/ o.ok /\ Free(o.p) # {} /\ r = Swap(o.p, i, o.i, s)
        \/ o.ok /\ Free(o.p) # {} /\ r \in Lost(Abandon(o.p, o.i))
  BY DEF Accepted
<1> HIDE DEF Lost
<1>3. \/ o.ok = FALSE /\ Grows(q, o.p, {}, {})
      \/ o.ok = TRUE /\ Grows(q, o.p, {}, {o.i}) /\ o.p.sock[o.i].listening = TRUE
  BY Relistens
<1>4. CASE o.ok = FALSE /\ Grows(q, o.p, {}, {})
  <2>1. r \in Lost(o.p)
    BY <1>2, <1>4, Zenon
  <2> QED
    BY <1>1, <1>4, <2>1
<1>5. CASE o.ok = TRUE /\ Grows(q, o.p, {}, {o.i}) /\ o.p.sock[o.i].listening = TRUE
  <2>1. CASE r \in Lost(Abandon(o.p, o.i))
    <3>1. Grows(q, Abandon(o.p, o.i), {}, {})
      BY <1>5, AbandonKeeps
    <3> QED
      BY <1>1, <2>1, <3>1
  <2>2. CASE Free(o.p) # {} /\ r = Swap(o.p, i, o.i, s)
    <3>1. Swaps(q, r.p, i, s, r.ret)
      BY <1>5, <2>2, SwapDone
    <3> QED
      BY <3>1 DEF Swaps
  <2> QED
    BY <1>2, <1>5, <2>1, <2>2, Zenon
<1> QED
  BY <1>3, <1>4, <1>5

-----------------------------------------------------------------------------
(* The inductive invariant.  Beside a table in order: half-open channels are
   held by descriptors the program does not know of, and so are the request
   descriptors of its sockets; what the program knows is open; a new socket
   has no LISTEN, what accept() is blocked on has, and what the program listens
   on is no connection it would not know of; what it takes for a connection is
   one; and only the numbers it listens on can be astray. *)
Roles == {"none", "file", "socket", "listener", "conn"}

SlotKnown(q, r, a, i) ==
  LET k == q.sock[i]
  IN  /\ r[k.req] = "none"
      /\ r[k.repl] = "socket" => ~k.listening
      /\ r[k.repl] = "listener" /\ q.chan[k.chan] = "conn" => k.listening
      /\ a = k.repl => k.listening

Connection(q, f) ==
  \E i \in Slot : /\ q.sock[i].used /\ q.sock[i].repl = f /\ ~q.sock[i].listening
                 /\ q.chan[q.sock[i].chan] = "conn"

Known(q, r, a) ==
  /\ Sound(q, {})
  /\ r \in [Fd -> Roles] /\ a \in Fd \cup {-1}
  /\ a # -1 => r[a] = "listener"
  /\ \A c \in Chans : q.chan[c] = "half" =>
       \E f \in Fd : q.fd[f] = End("req", c) /\ r[f] = "none"
  /\ \A f \in Fd : r[f] # "none" => q.fd[f] # Closed
  /\ \A i \in Slot : q.sock[i].used => SlotKnown(q, r, a, i)
  /\ \A f \in Fd : r[f] = "conn" => Connection(q, f)
  /\ \A f \in Stray(q, {}) : q.fd[f].kind = "repl" /\ r[f] = "listener"

IInv == Known(p, role, at)

LEMMA OneSlot ==
  ASSUME NEW q, Sound(q, {}), NEW i \in Slot, NEW j \in Slot,
         q.sock[i].used, q.sock[j].used, q.sock[i].repl = q.sock[j].repl
  PROVE  i = j
<1>1. q.sock[i].chan = q.sock[j].chan
  BY InOrder
<1> QED
  BY <1>1 DEF Sound

LEMMA KnownQuiet ==
  ASSUME NEW q, NEW r, NEW a, Known(q, r, a), NEW t, Grows(q, t, {}, {})
  PROVE  Known(t, r, a)
<1>1. /\ Sound(q, {})
      /\ r \in [Fd -> Roles] /\ a \in Fd \cup {-1}
      /\ a # -1 => r[a] = "listener"
      /\ \A c \in Chans : q.chan[c] = "half" =>
           \E f \in Fd : q.fd[f] = End("req", c) /\ r[f] = "none"
      /\ \A f \in Fd : r[f] # "none" => q.fd[f] # Closed
      /\ \A i \in Slot : q.sock[i].used => SlotKnown(q, r, a, i)
      /\ \A f \in Fd : r[f] = "conn" => Connection(q, f)
      /\ \A f \in Stray(q, {}) : q.fd[f].kind = "repl" /\ r[f] = "listener"
  BY DEF Known
<1>2. /\ Sound(t, {})
      /\ \A f \in Fd : q.fd[f] # Closed =>
           t.fd[f] = q.fd[f] /\ \A c \in Chans : q.fd[f].chan = c => t.chan[c] = q.chan[c]
      /\ \A j \in Slot : t.sock[j] = q.sock[j]
      /\ \A c \in Chans : t.chan[c] = "half" =>
           q.chan[c] = "half" \/ \E f \in Fd : q.fd[f] = Closed /\ t.fd[f] = End("req", c)
      /\ Stray(t, {}) \subseteq Stray(q, {})
  BY DEF Grows
<1>3. \A j \in Slot : q.sock[j].used => t.chan[q.sock[j].chan] = q.chan[q.sock[j].chan]
  BY <1>1, <1>2, InOrder
<1>4. \A i \in Slot : t.sock[i].used => SlotKnown(t, r, a, i)
  BY <1>1, <1>2, <1>3 DEF SlotKnown
<1>5. \A f \in Fd : r[f] = "conn" => Connection(t, f)
  BY <1>1, <1>2, <1>3 DEF Connection
<1>6. \A f \in Fd : r[f] # "none" => t.fd[f] # Closed
  BY <1>1, <1>2
<1>7. \A f \in Stray(t, {}) : t.fd[f].kind = "repl" /\ r[f] = "listener"
  <2> TAKE f \in Stray(t, {})
  <2>1. f \in Fd /\ f \in Stray(q, {})
    BY <1>2 DEF Stray
  <2> QED
    BY <1>1, <1>2, <2>1
<1>8. ASSUME NEW c \in Chans, t.chan[c] = "half"
      PROVE  \E f \in Fd : t.fd[f] = End("req", c) /\ r[f] = "none"
  <2>1. CASE q.chan[c] = "half"
    <3>1. PICK f \in Fd : q.fd[f] = End("req", c) /\ r[f] = "none"
      BY <1>1, <2>1
    <3>2. q.fd[f] # Closed
      BY <3>1 DEF End, Closed
    <3> QED
      BY <1>2, <3>1, <3>2
  <2>2. CASE q.chan[c] # "half"
    BY <1>1, <1>2, <1>8, <2>2
  <2> QED
    BY <2>1, <2>2
<1> QED
  BY <1>1, <1>2, <1>4, <1>5, <1>6, <1>7, <1>8 DEF Known

LEMMA KnownSocket ==
  ASSUME NEW q, NEW r, Known(q, r, -1), NEW t, NEW n, Grows(q, t, {}, {n}),
         t.sock[n].listening = FALSE
  PROVE  Known(t, [r EXCEPT ![t.sock[n].repl] = "socket"], -1)
<1> DEFINE d == t.sock[n]
           z == [r EXCEPT ![d.repl] = "socket"]
<1>1. /\ Sound(q, {})
      /\ r \in [Fd -> Roles]
      /\ \A c \in Chans : q.chan[c] = "half" =>
           \E f \in Fd : q.fd[f] = End("req", c) /\ r[f] = "none"
      /\ \A f \in Fd : r[f] # "none" => q.fd[f] # Closed
      /\ \A i \in Slot : q.sock[i].used => SlotKnown(q, r, -1, i)
      /\ \A f \in Fd : r[f] = "conn" => Connection(q, f)
      /\ \A f \in Stray(q, {}) : q.fd[f].kind = "repl" /\ r[f] = "listener"
  BY DEF Known
<1>2. /\ Sound(t, {})
      /\ \A f \in Fd : q.fd[f] # Closed =>
           t.fd[f] = q.fd[f] /\ \A c \in Chans : q.fd[f].chan = c => t.chan[c] = q.chan[c]
      /\ \A j \in Slot \ {n} : t.sock[j] = q.sock[j]
      /\ n \in Slot /\ ~q.sock[n].used /\ d.used
      /\ q.fd[d.req] = Closed /\ q.fd[d.repl] = Closed
      /\ \A c \in Chans : t.chan[c] = "half" =>
           q.chan[c] = "half" \/ \E f \in Fd : q.fd[f] = Closed /\ t.fd[f] = End("req", c)
      /\ Stray(t, {}) \subseteq Stray(q, {})
  BY DEF Grows
<1>3. /\ d.chan \in Chans /\ d.req \in Fd /\ d.repl \in Fd
      /\ t.fd[d.req] # Closed /\ t.fd[d.repl] # Closed
      /\ t.fd[d.repl] = End("repl", d.chan) /\ d.req # d.repl
  BY <1>2, InOrder
<1> HIDE DEF d
<1>4. /\ z \in [Fd -> Roles] /\ z[d.repl] = "socket"
      /\ \A f \in Fd : f # d.repl => z[f] = r[f]
      /\ r[d.repl] = "none" /\ r[d.req] = "none"
  BY <1>1, <1>2, <1>3 DEF Roles
<1> HIDE DEF z
<1>5. ASSUME NEW j \in Slot, j # n, q.sock[j].used
      PROVE  /\ t.sock[j] = q.sock[j] /\ t.chan[q.sock[j].chan] = q.chan[q.sock[j].chan]
             /\ q.sock[j].req \in Fd /\ q.sock[j].repl \in Fd
             /\ q.sock[j].req # d.repl /\ q.sock[j].repl # d.repl
             /\ q.sock[j].repl # -1
  <2>1. \A f \in Fd : f # -1
    BY SizesAssumption DEF Fd
  <2>2. /\ q.sock[j].chan \in Chans /\ q.sock[j].req \in Fd /\ q.sock[j].repl \in Fd
        /\ q.fd[q.sock[j].req] # Closed /\ q.fd[q.sock[j].repl] # Closed
        /\ q.fd[q.sock[j].req].chan = q.sock[j].chan
    BY <1>1, <1>5, InOrder
  <2> QED
    BY <1>2, <1>5, <2>1, <2>2
<1>6. \A i \in Slot : t.sock[i].used => SlotKnown(t, z, -1, i)
  <2> SUFFICES ASSUME NEW i \in Slot, t.sock[i].used PROVE SlotKnown(t, z, -1, i)
    OBVIOUS
  <2>1. CASE i = n
    <3>1. -1 # d.repl
      BY <1>3, SizesAssumption DEF Fd
    <3>2. z[d.req] = "none" /\ z[d.repl] = "socket"
      BY <1>3, <1>4
    <3> QED
      BY <2>1, <3>1, <3>2 DEF SlotKnown, d
  <2>2. CASE i # n
    <3>1. q.sock[i].used
      BY <1>2, <2>2
    <3>2. SlotKnown(q, r, -1, i)
      BY <1>1, <3>1
    <3>3. z[q.sock[i].req] = r[q.sock[i].req] /\ z[q.sock[i].repl] = r[q.sock[i].repl]
      BY <1>4, <1>5, <2>2, <3>1
    <3> QED
      BY <1>5, <2>2, <3>1, <3>2, <3>3 DEF SlotKnown
  <2> QED
    BY <2>1, <2>2
<1>7. \A f \in Fd : z[f] = "conn" => Connection(t, f)
  <2> SUFFICES ASSUME NEW f \in Fd, z[f] = "conn" PROVE Connection(t, f)
    OBVIOUS
  <2>1. r[f] = "conn"
    BY <1>4
  <2>2. PICK i \in Slot : /\ q.sock[i].used /\ q.sock[i].repl = f /\ ~q.sock[i].listening
                         /\ q.chan[q.sock[i].chan] = "conn"
    BY <1>1, <2>1 DEF Connection
  <2>3. i # n
    BY <1>2, <2>2
  <2> QED
    BY <1>5, <2>2, <2>3 DEF Connection
<1>8. \A f \in Fd : z[f] # "none" => t.fd[f] # Closed
  BY <1>1, <1>2, <1>3, <1>4
<1>9. \A f \in Stray(t, {}) : t.fd[f].kind = "repl" /\ z[f] = "listener"
  <2> TAKE f \in Stray(t, {})
  <2>1. f \in Fd /\ f \in Stray(q, {})
    BY <1>2 DEF Stray
  <2>2. q.fd[f].kind = "repl" /\ r[f] = "listener"
    BY <1>1, <2>1
  <2> QED
    BY <1>1, <1>2, <1>4, <2>1, <2>2
<1>10. ASSUME NEW c \in Chans, t.chan[c] = "half"
       PROVE  \E f \in Fd : t.fd[f] = End("req", c) /\ z[f] = "none"
  <2>1. PICK f \in Fd : t.fd[f] = End("req", c) /\ r[f] = "none"
    <3>1. CASE q.chan[c] = "half"
      <4>1. PICK f \in Fd : q.fd[f] = End("req", c) /\ r[f] = "none"
        BY <1>1, <3>1
      <4>2. q.fd[f] # Closed
        BY <4>1 DEF End, Closed
      <4> QED
        BY <1>2, <4>1, <4>2
    <3>2. CASE q.chan[c] # "half"
      BY <1>1, <1>2, <1>10, <3>2
    <3> QED
      BY <3>1, <3>2
  <2>2. f # d.repl
    BY <1>3, <2>1 DEF End
  <2> QED
    BY <1>4, <2>1, <2>2
<1> QED
  BY <1>2, <1>4, <1>6, <1>7, <1>8, <1>9, <1>10 DEF Known, z, d

(* What listen(), connect(), accept(), a peer and the end of a wait may change:
   how far channels in use have got, and s_listening. *)
Live == {"open", "listen", "ready", "conn"}

Alike(q, t) ==
  /\ t \in Process /\ t.fd = q.fd
  /\ \A i \in Slot : /\ t.sock[i].used = q.sock[i].used /\ t.sock[i].chan = q.sock[i].chan
                     /\ t.sock[i].req = q.sock[i].req /\ t.sock[i].repl = q.sock[i].repl
                     /\ ~q.sock[i].used => t.sock[i] = q.sock[i]
  /\ \A c \in Chans : t.chan[c] = q.chan[c] \/ (t.chan[c] \in Live /\ q.chan[c] \in Live)

LEMMA AlikeSound ==
  ASSUME NEW q, Sound(q, {}), NEW t, Alike(q, t)
  PROVE  /\ Sound(t, {}) /\ Stray(t, {}) \subseteq Stray(q, {})
         /\ \A c \in Chans : t.chan[c] = "half" => q.chan[c] = "half"
<1>1. /\ t \in Process /\ t.fd = q.fd
      /\ \A i \in Slot : /\ t.sock[i].used = q.sock[i].used /\ t.sock[i].chan = q.sock[i].chan
                         /\ t.sock[i].req = q.sock[i].req /\ t.sock[i].repl = q.sock[i].repl
                         /\ ~q.sock[i].used => t.sock[i] = q.sock[i]
      /\ \A c \in Chans : t.chan[c] = q.chan[c] \/ (t.chan[c] \in Live /\ q.chan[c] \in Live)
  BY DEF Alike
<1>2. ASSUME NEW i \in Slot, t.sock[i].used PROVE q.sock[i].used /\ Whole(t, i)
  <2>1. q.sock[i].used
    BY <1>1, <1>2, Zenon
  <2>2. /\ q.sock[i].chan \in Chans /\ q.sock[i].req \in Fd /\ q.sock[i].repl \in Fd
        /\ q.fd[q.sock[i].req] = End("req", q.sock[i].chan)
        /\ q.fd[q.sock[i].repl] = End("repl", q.sock[i].chan)
        /\ q.chan[q.sock[i].chan] \in {"open", "listen", "ready", "conn"}
    BY <2>1, InOrder
  <2>3. t.chan[q.sock[i].chan] \in {"open", "listen", "ready", "conn"}
    BY <1>1, <2>2 DEF Live
  <2> QED
    BY <1>1, <2>1, <2>2, <2>3 DEF Whole
<1>3. Sound(t, {})
  <2>1. \A i \in Slot : ~t.sock[i].used => t.sock[i] = NoSock
    BY <1>1 DEF Sound
  <2>2. \A i, j \in Slot : i # j /\ t.sock[i].used /\ t.sock[j].used
                          => t.sock[i].chan # t.sock[j].chan
    BY <1>1, <1>2 DEF Sound
  <2> QED
    BY <1>1, <1>2, <2>1, <2>2 DEF Sound
<1>4. \A c \in Chans : t.chan[c] = "half" => q.chan[c] = "half"
  BY <1>1 DEF Live
<1>5. \A i \in Slot : q.sock[i].used => t.sock[i].used
  BY <1>1, Zenon
<1>6. Stray(t, {}) \subseteq Stray(q, {})
  <2> SUFFICES ASSUME NEW f \in Stray(t, {}) PROVE f \in Stray(q, {})
    OBVIOUS
  <2>1. /\ f \in Fd /\ t.chan[t.fd[f].chan] # "half" /\ t.fd[f].kind \in {"req", "repl"}
        /\ \A j \in Slot : t.sock[j].used => f # t.sock[j].req /\ f # t.sock[j].repl
    BY DEF Stray
  <2>2. q.chan[q.fd[f].chan] # "half"
    <3>1. q.fd[f].chan \in Chans
      BY <1>1, <2>1, EndChan DEF Sound
    <3> QED
      BY <1>1, <2>1, <3>1 DEF Live
  <2> QED
    BY <1>1, <1>5, <2>1, <2>2 DEF Stray
<1> QED
  BY <1>3, <1>4, <1>6

LEMMA KnownAlike ==
  ASSUME NEW q, NEW r, NEW a, Known(q, r, a), NEW t, Alike(q, t),
         NEW z \in [Fd -> Roles], NEW b \in Fd \cup {-1},
         \A f \in Fd : z[f] = "none" <=> r[f] = "none",
         \A f \in Fd : r[f] = "listener" => z[f] = "listener",
         b # -1 => z[b] = "listener",
         \A i \in Slot : q.sock[i].used => SlotKnown(t, z, b, i),
         \A f \in Fd : z[f] = "conn" => Connection(t, f)
  PROVE  Known(t, z, b)
<1>1. /\ Sound(q, {})
      /\ \A c \in Chans : q.chan[c] = "half" =>
           \E f \in Fd : q.fd[f] = End("req", c) /\ r[f] = "none"
      /\ \A f \in Fd : r[f] # "none" => q.fd[f] # Closed
      /\ \A f \in Stray(q, {}) : q.fd[f].kind = "repl" /\ r[f] = "listener"
  BY DEF Known
<1>2. /\ Sound(t, {}) /\ Stray(t, {}) \subseteq Stray(q, {})
      /\ \A c \in Chans : t.chan[c] = "half" => q.chan[c] = "half"
  BY <1>1, AlikeSound
<1>3. t.fd = q.fd /\ \A i \in Slot : t.sock[i].used => q.sock[i].used
  BY Zenon DEF Alike
<1>4. \A f \in Stray(t, {}) : f \in Fd
  BY DEF Stray
<1> QED
  BY <1>1, <1>2, <1>3, <1>4 DEF Known

(* One slot, i, and its channel differ from q to t. *)
Touches(q, t, i) ==
  /\ Alike(q, t)
  /\ \A j \in Slot : j # i => t.sock[j] = q.sock[j]
  /\ \A c \in Chans : c # q.sock[i].chan => t.chan[c] = q.chan[c]

LEMMA Untouched ==
  ASSUME NEW q, Sound(q, {}), NEW i \in Slot, q.sock[i].used, NEW t, Touches(q, t, i),
         NEW j \in Slot, j # i, q.sock[j].used
  PROVE  t.sock[j] = q.sock[j] /\ t.chan[q.sock[j].chan] = q.chan[q.sock[j].chan]
         /\ q.sock[j].repl # q.sock[i].repl /\ q.sock[j].req # q.sock[i].repl
<1>1. q.sock[j].chan \in Chans /\ q.sock[j].chan # q.sock[i].chan
  <2>1. q.sock[j].chan # q.sock[i].chan
    BY DEF Sound
  <2> QED
    BY <2>1, InOrder
<1>2. q.sock[j].repl # q.sock[i].repl /\ q.sock[j].req # q.sock[i].repl
  BY <1>1, InOrder
<1> QED
  BY <1>1, <1>2 DEF Touches

(* listen(), connect() and accept(): the slot and the number it is known by. *)
LEMMA KnownTouched ==
  ASSUME NEW q, NEW r, Known(q, r, -1), NEW i \in Slot, q.sock[i].used,
         NEW t, Touches(q, t, i),
         NEW b \in {-1, q.sock[i].repl}, NEW role1 \in {"listener", "conn"},
         r[q.sock[i].repl] \in {"socket", "listener"},
         role1 = "listener" => t.sock[i].listening = TRUE,
         role1 = "conn" => /\ t.sock[i].listening = FALSE
                           /\ t.chan[q.sock[i].chan] = "conn"
                           /\ r[q.sock[i].repl] # "listener" /\ b = -1
  PROVE  Known(t, [r EXCEPT ![q.sock[i].repl] = role1], b)
<1> DEFINE s == q.sock[i].repl
           z == [r EXCEPT ![s] = role1]
<1>1. /\ Sound(q, {}) /\ r \in [Fd -> Roles]
      /\ \A j \in Slot : q.sock[j].used => SlotKnown(q, r, -1, j)
      /\ \A f \in Fd : r[f] = "conn" => Connection(q, f)
  BY DEF Known
<1>2. s \in Fd /\ q.sock[i].req \in Fd /\ q.sock[i].req # s /\ s # -1
  <2>1. s \in Fd /\ q.sock[i].req \in Fd /\ q.sock[i].req # s
    BY <1>1, InOrder
  <2> HIDE DEF s
  <2> QED
    BY <2>1, SizesAssumption DEF Fd
<1>3. /\ t.sock[i].used = q.sock[i].used /\ t.sock[i].chan = q.sock[i].chan
      /\ t.sock[i].req = q.sock[i].req /\ t.sock[i].repl = s
      /\ Alike(q, t)
  BY DEF Touches, Alike
<1>4. z \in [Fd -> Roles] /\ z[s] = role1 /\ \A f \in Fd : f # s => z[f] = r[f]
  BY <1>1, <1>2 DEF Roles
<1> HIDE DEF z
<1>5. ASSUME NEW j \in Slot, q.sock[j].used PROVE SlotKnown(t, z, b, j)
  <2>1. SlotKnown(q, r, -1, j)
    BY <1>1, <1>5
  <2>2. CASE j = i
    <3>1. z[q.sock[i].req] = "none"
      BY <1>2, <1>4, <2>1, <2>2 DEF SlotKnown
    <3>2. b = s => role1 = "listener"
      BY <1>2
    <3>3. z[s] = "socket" => FALSE
      BY <1>4
    <3>4. role1 = "listener" => t.sock[i].listening
      OBVIOUS
    <3> QED
      BY <1>3, <1>4, <2>2, <3>1, <3>2, <3>3, <3>4 DEF SlotKnown
  <2>3. CASE j # i
    <3>1. /\ t.sock[j] = q.sock[j] /\ t.chan[q.sock[j].chan] = q.chan[q.sock[j].chan]
          /\ q.sock[j].repl # s /\ q.sock[j].req # s
      BY <1>1, <1>5, <2>3, Untouched
    <3>2. q.sock[j].req \in Fd /\ q.sock[j].repl \in Fd
      BY <1>1, <1>5, InOrder
    <3>3. z[q.sock[j].req] = r[q.sock[j].req] /\ z[q.sock[j].repl] = r[q.sock[j].repl]
      BY <1>4, <3>1, <3>2
    <3>4. b # q.sock[j].repl
      BY <3>1, <3>2, SizesAssumption DEF Fd
    <3> QED
      BY <2>1, <3>1, <3>3, <3>4 DEF SlotKnown
  <2> QED
    BY <2>2, <2>3
<1>6. ASSUME NEW f \in Fd, z[f] = "conn" PROVE Connection(t, f)
  <2>1. CASE f = s
    <3>1. role1 = "conn"
      BY <1>4, <1>6, <2>1
    <3>2. /\ t.sock[i].listening = FALSE /\ t.chan[t.sock[i].chan] = "conn"
          /\ t.sock[i].repl = f
      BY <1>3, <2>1, <3>1
    <3>3. t.sock[i].used
      BY <1>3, Zenon
    <3> QED
      BY <3>2, <3>3 DEF Connection
  <2>2. CASE f # s
    <3>1. r[f] = "conn"
      BY <1>4, <1>6, <2>2
    <3>2. PICK j \in Slot : /\ q.sock[j].used /\ q.sock[j].repl = f /\ ~q.sock[j].listening
                           /\ q.chan[q.sock[j].chan] = "conn"
      BY <1>1, <3>1 DEF Connection
    <3>3. j # i
      BY <2>2, <3>2
    <3>4. /\ t.sock[j] = q.sock[j] /\ t.chan[q.sock[j].chan] = q.chan[q.sock[j].chan]
      BY <1>1, <3>2, <3>3, Untouched
    <3> QED
      BY <3>2, <3>4 DEF Connection
  <2> QED
    BY <2>1, <2>2
<1>7. \A f \in Fd : z[f] = "none" <=> r[f] = "none"
  BY <1>2, <1>4
<1>8. \A f \in Fd : r[f] = "listener" => z[f] = "listener"
  BY <1>2, <1>4
<1>9. b \in Fd \cup {-1} /\ (b # -1 => z[b] = "listener")
  BY <1>2, <1>4
<1>10. Known(t, z, b)
  BY <1>3, <1>4, <1>5, <1>6, <1>7, <1>8, <1>9, KnownAlike, Zenon
<1> QED
  BY <1>10 DEF z

(* accept() has lost the connection: the number it was called with is still a
   listener's. *)
LEMMA KnownRecovers ==
  ASSUME NEW o, NEW r, NEW i \in Slot, o.sock[i].used, NEW s, s = o.sock[i].repl,
         Known(o, r, s), NEW q, Touches(o, q, i), NEW t, Recovers(q, t, i, s)
  PROVE  Known(t, r, -1)
<1>1. /\ Sound(o, {})
      /\ r \in [Fd -> Roles]
      /\ \A c \in Chans : o.chan[c] = "half" =>
           \E f \in Fd : o.fd[f] = End("req", c) /\ r[f] = "none"
      /\ \A f \in Fd : r[f] # "none" => o.fd[f] # Closed
      /\ \A j \in Slot : o.sock[j].used => SlotKnown(o, r, s, j)
      /\ \A f \in Fd : r[f] = "conn" => Connection(o, f)
      /\ \A f \in Stray(o, {}) : o.fd[f].kind = "repl" /\ r[f] = "listener"
      /\ s # -1 => r[s] = "listener"
  BY DEF Known
<1> DEFINE m == q.sock[i].req
<1>2. /\ Sound(q, {}) /\ Stray(q, {}) \subseteq Stray(o, {})
      /\ \A c \in Chans : q.chan[c] = "half" => o.chan[c] = "half"
      /\ q.fd = o.fd /\ m = o.sock[i].req
      /\ \A j \in Slot : o.sock[j].used => q.sock[j].used
      /\ q.sock[i].chan = o.sock[i].chan
  <2>1. Alike(o, q)
    BY DEF Touches
  <2>2. q.fd = o.fd /\ m = o.sock[i].req /\ \A j \in Slot : o.sock[j].used => q.sock[j].used
        /\ q.sock[i].chan = o.sock[i].chan
    BY <2>1, Zenon DEF Alike
  <2> QED
    BY <1>1, <2>1, <2>2, AlikeSound
<1>3. /\ Sound(t, {})
      /\ \A f \in Fd : q.fd[f] # Closed /\ f # s /\ f # m => t.fd[f] = q.fd[f]
      /\ t.fd[s].kind = "repl"
      /\ \A j \in Slot : j # i /\ q.sock[j].used =>
           t.sock[j] = q.sock[j] /\ t.chan[q.sock[j].chan] = q.chan[q.sock[j].chan]
      /\ \A j \in Slot : (j = i \/ ~q.sock[j].used) /\ t.sock[j].used =>
           /\ t.sock[j].repl = s /\ t.sock[j].listening
           /\ q.fd[t.sock[j].req] = Closed \/ t.sock[j].req = m
      /\ \A c \in Chans : t.chan[c] = "half" =>
           q.chan[c] = "half" \/ \E f \in Fd : (q.fd[f] = Closed \/ f = m)
                                              /\ t.fd[f] = End("req", c)
      /\ Stray(t, {}) \subseteq Stray(q, {}) \cup {s}
  BY DEF Recovers
<1>4. /\ s \in Fd /\ m \in Fd /\ s # m /\ s # -1
      /\ o.sock[i].chan \in Chans /\ o.fd[m].chan = o.sock[i].chan
      /\ o.chan[o.sock[i].chan] \in Live
  <2>1. /\ s \in Fd /\ m \in Fd /\ s # m
        /\ o.sock[i].chan \in Chans /\ o.fd[m].chan = o.sock[i].chan
        /\ o.chan[o.sock[i].chan] \in Live
    BY <1>1, <1>2, InOrder DEF Live
  <2> QED
    BY <2>1, SizesAssumption DEF Fd
<1>5. r[s] = "listener" /\ r[m] = "none"
  <2>1. SlotKnown(o, r, s, i)
    BY <1>1
  <2> QED
    BY <1>1, <1>2, <1>4, <2>1 DEF SlotKnown
<1> HIDE DEF m
<1>6. ASSUME NEW j \in Slot, j # i, o.sock[j].used
      PROVE  t.sock[j] = o.sock[j] /\ t.chan[o.sock[j].chan] = o.chan[o.sock[j].chan]
  <2>1. q.sock[j] = o.sock[j] /\ q.chan[o.sock[j].chan] = o.chan[o.sock[j].chan]
    BY <1>1, <1>6, Untouched
  <2> QED
    BY <1>2, <1>3, <1>6, <2>1
<1>7. ASSUME NEW j \in Slot, t.sock[j].used PROVE SlotKnown(t, r, -1, j)
  <2>1. CASE j # i /\ q.sock[j].used
    <3>1. q.sock[j] = o.sock[j] /\ o.sock[j].used
      BY <2>1 DEF Touches
    <3>2. SlotKnown(o, r, s, j)
      BY <1>1, <3>1
    <3>3. -1 # o.sock[j].repl
      <4>1. o.sock[j].repl \in Fd
        BY <1>1, <3>1, InOrder
      <4> QED
        BY <4>1, SizesAssumption DEF Fd
    <3> QED
      BY <1>6, <2>1, <3>1, <3>2, <3>3 DEF SlotKnown
  <2>2. CASE j = i \/ ~q.sock[j].used
    <3>1. /\ t.sock[j].repl = s /\ t.sock[j].listening
          /\ q.fd[t.sock[j].req] = Closed \/ t.sock[j].req = m
      BY <1>3, <1>7, <2>2
    <3>2. t.sock[j].req \in Fd
      BY <1>3, <1>7, InOrder
    <3>3. r[t.sock[j].req] = "none"
      BY <1>1, <1>2, <1>5, <3>1, <3>2
    <3> QED
      BY <1>4, <1>5, <3>1, <3>3 DEF SlotKnown
  <2> QED
    BY <2>1, <2>2
<1>8. ASSUME NEW f \in Fd, r[f] = "conn" PROVE Connection(t, f)
  <2>1. PICK j \in Slot : /\ o.sock[j].used /\ o.sock[j].repl = f /\ ~o.sock[j].listening
                         /\ o.chan[o.sock[j].chan] = "conn"
    BY <1>1, <1>8 DEF Connection
  <2>2. j # i
    BY <1>5, <1>8, <2>1
  <2> QED
    BY <1>6, <2>1, <2>2 DEF Connection
<1>9. \A f \in Fd : r[f] # "none" => t.fd[f] # Closed
  <2>1. t.fd[s] # Closed
    BY <1>3 DEF Closed
  <2> QED
    BY <1>1, <1>2, <1>3, <1>5, <2>1
<1>10. ASSUME NEW f \in Stray(t, {}) PROVE t.fd[f].kind = "repl" /\ r[f] = "listener"
  <2>1. CASE f = s
    BY <1>3, <1>5, <2>1
  <2>2. CASE f # s
    <3>1. f \in Stray(o, {}) /\ f \in Fd
      BY <1>2, <1>3, <2>2 DEF Stray
    <3>2. o.fd[f].kind = "repl" /\ r[f] = "listener"
      BY <1>1, <3>1
    <3>3. f # m /\ o.fd[f] # Closed
      BY <1>1, <1>5, <3>1, <3>2
    <3> QED
      BY <1>2, <1>3, <2>2, <3>1, <3>2, <3>3
  <2> QED
    BY <2>1, <2>2
<1>11. ASSUME NEW c \in Chans, t.chan[c] = "half"
       PROVE  \E f \in Fd : t.fd[f] = End("req", c) /\ r[f] = "none"
  <2>1. CASE q.chan[c] = "half"
    <3>1. PICK f \in Fd : o.fd[f] = End("req", c) /\ r[f] = "none"
      BY <1>1, <1>2, <2>1
    <3>2. o.fd[f] # Closed /\ o.fd[f].chan = c
      BY <3>1 DEF End, Closed
    <3>3. c # o.sock[i].chan
      BY <1>2, <1>4, <2>1 DEF Live
    <3> QED
      BY <1>2, <1>3, <1>4, <1>5, <3>1, <3>2, <3>3
  <2>2. CASE q.chan[c] # "half"
    BY <1>1, <1>2, <1>3, <1>5, <1>11, <2>2
  <2> QED
    BY <2>1, <2>2
<1> QED
  BY <1>1, <1>3, <1>7, <1>8, <1>9, <1>10, <1>11 DEF Known

(* accept() returns the connection on f0. *)
LEMMA KnownSwaps ==
  ASSUME NEW o, NEW r, NEW i \in Slot, o.sock[i].used, NEW s, s = o.sock[i].repl,
         Known(o, r, s), NEW q, Touches(o, q, i),
         q.sock[i].listening = FALSE, q.chan[o.sock[i].chan] = "conn",
         NEW t, NEW f0, Swaps(q, t, i, s, f0)
  PROVE  Known(t, [r EXCEPT ![f0] = "conn"], -1)
<1> DEFINE z == [r EXCEPT ![f0] = "conn"]
<1>1. /\ Sound(o, {})
      /\ r \in [Fd -> Roles]
      /\ \A c \in Chans : o.chan[c] = "half" =>
           \E f \in Fd : o.fd[f] = End("req", c) /\ r[f] = "none"
      /\ \A f \in Fd : r[f] # "none" => o.fd[f] # Closed
      /\ \A j \in Slot : o.sock[j].used => SlotKnown(o, r, s, j)
      /\ \A f \in Fd : r[f] = "conn" => Connection(o, f)
      /\ \A f \in Stray(o, {}) : o.fd[f].kind = "repl" /\ r[f] = "listener"
      /\ s # -1 => r[s] = "listener"
  BY DEF Known
<1>2. /\ Sound(q, {}) /\ Stray(q, {}) \subseteq Stray(o, {})
      /\ \A c \in Chans : q.chan[c] = "half" => o.chan[c] = "half"
      /\ q.fd = o.fd
      /\ \A j \in Slot : o.sock[j].used => q.sock[j].used
      /\ q.sock[i].chan = o.sock[i].chan /\ q.sock[i].req = o.sock[i].req
  <2>1. Alike(o, q)
    BY DEF Touches
  <2>2. q.fd = o.fd /\ \A j \in Slot : o.sock[j].used => q.sock[j].used
        /\ q.sock[i].chan = o.sock[i].chan /\ q.sock[i].req = o.sock[i].req
    BY <2>1, Zenon DEF Alike
  <2> QED
    BY <1>1, <2>1, <2>2, AlikeSound
<1>3. /\ Sound(t, {})
      /\ f0 \in Fd /\ q.fd[f0] = Closed /\ t.fd[f0] # Closed
      /\ \A f \in Fd : q.fd[f] # Closed /\ f # s => t.fd[f] = q.fd[f]
      /\ t.fd[s] # Closed
      /\ t.sock[i].used = TRUE /\ t.sock[i].repl = f0 /\ t.sock[i].chan = q.sock[i].chan
      /\ t.sock[i].req = q.sock[i].req /\ t.sock[i].listening = q.sock[i].listening
      /\ \A j \in Slot : q.sock[j].used =>
           (j # i => t.sock[j] = q.sock[j]) /\ t.chan[q.sock[j].chan] = q.chan[q.sock[j].chan]
      /\ \A j \in Slot : ~q.sock[j].used /\ t.sock[j].used =>
           /\ t.sock[j].repl = s /\ t.sock[j].listening
           /\ q.fd[t.sock[j].req] = Closed
      /\ \A c \in Chans : t.chan[c] = "half" =>
           q.chan[c] = "half" \/ \E f \in Fd : q.fd[f] = Closed /\ f # f0
                                              /\ t.fd[f] = End("req", c)
      /\ Stray(t, {}) \subseteq Stray(q, {})
  BY DEF Swaps
<1>4. s \in Fd /\ s # -1 /\ f0 # -1 /\ o.sock[i].req \in Fd /\ o.fd[o.sock[i].req] # Closed
  <2>1. s \in Fd /\ o.sock[i].req \in Fd /\ o.fd[o.sock[i].req] # Closed
    BY <1>1, InOrder
  <2> QED
    BY <1>3, <2>1, SizesAssumption DEF Fd
<1>5. r[s] = "listener" /\ r[f0] = "none" /\ s # f0
  BY <1>1, <1>2, <1>3, <1>4
<1>6. z \in [Fd -> Roles] /\ z[f0] = "conn" /\ \A f \in Fd : f # f0 => z[f] = r[f]
  BY <1>1, <1>3 DEF Roles
<1> HIDE DEF z
<1>7. t.sock[i].listening = FALSE /\ t.chan[t.sock[i].chan] = "conn"
  BY <1>2, <1>3
<1>8. ASSUME NEW j \in Slot, j # i, o.sock[j].used
      PROVE  /\ t.sock[j] = o.sock[j] /\ t.chan[o.sock[j].chan] = o.chan[o.sock[j].chan]
             /\ o.sock[j].repl \in Fd /\ o.sock[j].req \in Fd
             /\ o.sock[j].repl # f0 /\ o.sock[j].req # f0 /\ o.sock[j].repl # -1
  <2>1. q.sock[j] = o.sock[j] /\ q.chan[o.sock[j].chan] = o.chan[o.sock[j].chan]
    BY <1>1, <1>8, Untouched
  <2>2. /\ o.sock[j].repl \in Fd /\ o.sock[j].req \in Fd
        /\ o.fd[o.sock[j].repl] # Closed /\ o.fd[o.sock[j].req] # Closed
    BY <1>1, <1>8, InOrder
  <2>3. o.sock[j].repl # -1
    BY <2>2, SizesAssumption DEF Fd
  <2> QED
    BY <1>2, <1>3, <1>8, <2>1, <2>2, <2>3
<1>9. ASSUME NEW j \in Slot, t.sock[j].used PROVE SlotKnown(t, z, -1, j)
  <2>1. CASE j # i /\ q.sock[j].used
    <3>1. o.sock[j].used
      BY <2>1 DEF Touches
    <3>2. SlotKnown(o, r, s, j)
      BY <1>1, <3>1
    <3> QED
      BY <1>6, <1>8, <2>1, <3>1, <3>2 DEF SlotKnown
  <2>2. CASE j # i /\ ~q.sock[j].used
    <3>1. /\ t.sock[j].repl = s /\ t.sock[j].listening
          /\ q.fd[t.sock[j].req] = Closed
      BY <1>3, <1>9, <2>2
    <3>2. t.sock[j].req \in Fd /\ t.sock[j].req # f0
      <4>1. t.sock[j].req \in Fd /\ t.fd[t.sock[j].req] = End("req", t.sock[j].chan)
        BY <1>3, <1>9, InOrder
      <4>2. t.fd[f0] = End("repl", t.sock[i].chan)
        BY <1>3, InOrder
      <4> QED
        BY <4>1, <4>2 DEF End
    <3>3. z[t.sock[j].req] = "none"
      BY <1>1, <1>2, <1>6, <3>1, <3>2
    <3>4. z[s] = "listener"
      BY <1>4, <1>5, <1>6
    <3> QED
      BY <1>4, <3>1, <3>3, <3>4 DEF SlotKnown
  <2>3. CASE j = i
    <3>1. t.sock[i].req = o.sock[i].req /\ t.sock[i].repl = f0
      BY <1>2, <1>3
    <3>2. z[t.sock[i].req] = "none"
      <4>1. SlotKnown(o, r, s, i)
        BY <1>1
      <4>2. r[o.sock[i].req] = "none"
        BY <4>1 DEF SlotKnown
      <4> QED
        BY <1>2, <1>3, <1>4, <1>6, <3>1, <4>2
    <3> QED
      BY <1>4, <1>6, <2>3, <3>1, <3>2 DEF SlotKnown
  <2> QED
    BY <2>1, <2>2, <2>3
<1>10. ASSUME NEW f \in Fd, z[f] = "conn" PROVE Connection(t, f)
  <2>1. CASE f = f0
    BY <1>3, <1>7, <2>1 DEF Connection
  <2>2. CASE f # f0
    <3>1. r[f] = "conn"
      BY <1>6, <1>10, <2>2
    <3>2. PICK j \in Slot : /\ o.sock[j].used /\ o.sock[j].repl = f /\ ~o.sock[j].listening
                           /\ o.chan[o.sock[j].chan] = "conn"
      BY <1>1, <3>1 DEF Connection
    <3>3. j # i
      BY <1>5, <3>1, <3>2
    <3> QED
      BY <1>8, <3>2, <3>3 DEF Connection
  <2> QED
    BY <2>1, <2>2
<1>11. \A f \in Fd : z[f] # "none" => t.fd[f] # Closed
  BY <1>1, <1>2, <1>3, <1>6
<1>12. ASSUME NEW f \in Stray(t, {}) PROVE t.fd[f].kind = "repl" /\ z[f] = "listener"
  <2>1. f \in Stray(o, {}) /\ f \in Fd
    BY <1>2, <1>3 DEF Stray
  <2>2. o.fd[f].kind = "repl" /\ r[f] = "listener" /\ f # f0
    BY <1>1, <1>5, <2>1
  <2>3. f # s
    BY <2>1 DEF Stray
  <2> QED
    BY <1>1, <1>2, <1>3, <1>6, <2>1, <2>2, <2>3
<1>13. ASSUME NEW c \in Chans, t.chan[c] = "half"
       PROVE  \E f \in Fd : t.fd[f] = End("req", c) /\ z[f] = "none"
  <2>1. CASE q.chan[c] = "half"
    <3>1. PICK f \in Fd : o.fd[f] = End("req", c) /\ r[f] = "none"
      BY <1>1, <1>2, <2>1
    <3>2. o.fd[f] # Closed /\ f # s /\ f # f0
      BY <1>2, <1>3, <1>5, <3>1 DEF End, Closed
    <3> QED
      BY <1>2, <1>3, <1>6, <3>1, <3>2
  <2>2. CASE q.chan[c] # "half"
    <3>1. PICK f \in Fd : q.fd[f] = Closed /\ f # f0 /\ t.fd[f] = End("req", c)
      BY <1>3, <1>13, <2>2
    <3>2. r[f] = "none"
      BY <1>1, <1>2, <3>1
    <3> QED
      BY <1>6, <3>1, <3>2
  <2> QED
    BY <2>1, <2>2
<1>14. Known(t, z, -1)
  BY <1>3, <1>6, <1>9, <1>10, <1>11, <1>12, <1>13 DEF Known
<1> QED
  BY <1>14 DEF z

(* close() and sockdrop() of a socket. *)
Dropped(q, t, i) ==
  LET e == q.sock[i]
  IN  /\ t \in Process /\ t.fd[e.req] = Closed /\ t.fd[e.repl] = Closed
      /\ \A f \in Fd : f # e.req /\ f # e.repl => t.fd[f] = q.fd[f]
      /\ t.sock[i] = NoSock /\ \A j \in Slot : j # i => t.sock[j] = q.sock[j]
      /\ t.chan[e.chan] # "half"
      /\ \A d \in Chans : d # e.chan => t.chan[d] = q.chan[d]

LEMMA KnownDrops ==
  ASSUME NEW q, NEW r, Known(q, r, -1), NEW i \in Slot, q.sock[i].used,
         NEW t, Dropped(q, t, i)
  PROVE  Known(t, [r EXCEPT ![q.sock[i].repl] = "none"], -1)
<1> DEFINE s == q.sock[i].repl
           z == [r EXCEPT ![s] = "none"]
           e == q.sock[i]
<1>0. /\ t \in Process /\ t.fd[e.req] = Closed /\ t.fd[s] = Closed
      /\ \A f \in Fd : f # e.req /\ f # s => t.fd[f] = q.fd[f]
      /\ t.sock[i] = NoSock /\ \A j \in Slot : j # i => t.sock[j] = q.sock[j]
      /\ t.chan[e.chan] # "half"
      /\ \A d \in Chans : d # e.chan => t.chan[d] = q.chan[d]
  BY DEF Dropped
<1>1. /\ Sound(q, {}) /\ q \in Process
      /\ r \in [Fd -> Roles]
      /\ \A c \in Chans : q.chan[c] = "half" =>
           \E f \in Fd : q.fd[f] = End("req", c) /\ r[f] = "none"
      /\ \A f \in Fd : r[f] # "none" => q.fd[f] # Closed
      /\ \A j \in Slot : q.sock[j].used => SlotKnown(q, r, -1, j)
      /\ \A f \in Fd : r[f] = "conn" => Connection(q, f)
      /\ \A f \in Stray(q, {}) : q.fd[f].kind = "repl" /\ r[f] = "listener"
  BY DEF Known, Sound
<1>2. /\ e.chan \in Chans /\ e.req \in Fd /\ s \in Fd
      /\ q.fd[e.req] = End("req", e.chan) /\ q.fd[s] = End("repl", e.chan)
      /\ q.chan[e.chan] \in {"open", "listen", "ready", "conn"}
  BY <1>1, InOrder
<1>3. r[e.req] = "none"
  BY <1>1 DEF SlotKnown
<1>4. z \in [Fd -> Roles] /\ z[s] = "none" /\ \A f \in Fd : f # s => z[f] = r[f]
  BY <1>1, <1>2 DEF Roles
<1> HIDE DEF z
<1>5. NoSock.used = FALSE
  BY DEF NoSock
<1>6. ASSUME NEW j \in Slot, t.sock[j].used
      PROVE  /\ j # i /\ t.sock[j] = q.sock[j] /\ q.sock[j].used
             /\ q.sock[j].chan \in Chans /\ q.sock[j].chan # e.chan
             /\ t.chan[q.sock[j].chan] = q.chan[q.sock[j].chan]
             /\ q.sock[j].req \in Fd /\ q.sock[j].repl \in Fd
             /\ q.sock[j].req # s /\ q.sock[j].repl # s /\ Whole(t, j)
  <2>1. j # i /\ t.sock[j] = q.sock[j] /\ q.sock[j].used
    BY <1>0, <1>5, <1>6
  <2>2. /\ q.sock[j].chan \in Chans /\ q.sock[j].req \in Fd /\ q.sock[j].repl \in Fd
        /\ q.fd[q.sock[j].req] = End("req", q.sock[j].chan)
        /\ q.fd[q.sock[j].repl] = End("repl", q.sock[j].chan)
        /\ q.chan[q.sock[j].chan] \in {"open", "listen", "ready", "conn"}
    BY <1>0, <1>1, <2>1, InOrder
  <2>3. q.sock[j].chan # e.chan
    BY <1>0, <1>1, <2>1 DEF Sound
  <2>4. /\ q.sock[j].req # s /\ q.sock[j].repl # s
        /\ q.sock[j].req # e.req /\ q.sock[j].repl # e.req
    BY <1>0, <1>2, <2>2, <2>3 DEF End
  <2>5. Whole(t, j)
    BY <1>0, <2>1, <2>2, <2>3, <2>4 DEF Whole
  <2> QED
    BY <1>0, <2>1, <2>2, <2>3, <2>4, <2>5
<1>7. Sound(t, {})
  <2>1. \A j \in Slot : ~t.sock[j].used => t.sock[j] = NoSock
    BY <1>0, <1>1 DEF Sound
  <2>2. \A j1, j2 \in Slot : j1 # j2 /\ t.sock[j1].used /\ t.sock[j2].used
                            => t.sock[j1].chan # t.sock[j2].chan
    BY <1>0, <1>1, <1>6 DEF Sound
  <2> QED
    BY <1>0, <1>6, <2>1, <2>2 DEF Sound
<1>8. \A j \in Slot : t.sock[j].used => SlotKnown(t, z, -1, j)
  <2> SUFFICES ASSUME NEW j \in Slot, t.sock[j].used PROVE SlotKnown(t, z, -1, j)
    OBVIOUS
  <2>1. SlotKnown(q, r, -1, j)
    BY <1>0, <1>1, <1>6
  <2> QED
    BY <1>0, <1>4, <1>6, <2>1 DEF SlotKnown
<1>9. ASSUME NEW f \in Fd, z[f] = "conn" PROVE Connection(t, f)
  <2>1. f # s /\ r[f] = "conn"
    BY <1>0, <1>4, <1>9
  <2>2. PICK j \in Slot : /\ q.sock[j].used /\ q.sock[j].repl = f /\ ~q.sock[j].listening
                         /\ q.chan[q.sock[j].chan] = "conn"
    BY <1>0, <1>1, <2>1 DEF Connection
  <2>3. j # i /\ t.sock[j] = q.sock[j]
    BY <1>0, <2>1, <2>2
  <2> QED
    BY <1>0, <1>6, <2>2, <2>3 DEF Connection
<1>10. \A f \in Fd : z[f] # "none" => t.fd[f] # Closed
  BY <1>0, <1>1, <1>2, <1>3, <1>4
<1>11. ASSUME NEW f \in Stray(t, {}) PROVE t.fd[f].kind = "repl" /\ z[f] = "listener"
  <2>1. /\ f \in Fd /\ t.chan[t.fd[f].chan] # "half" /\ t.fd[f].kind \in {"req", "repl"}
        /\ \A j \in Slot : t.sock[j].used => f # t.sock[j].req /\ f # t.sock[j].repl
    BY DEF Stray
  <2>2. f # s /\ f # e.req
    BY <1>0, <1>2, <2>1 DEF Closed
  <2>3. t.fd[f] = q.fd[f]
    BY <1>0, <1>2, <2>1, <2>2
  <2>4. q.chan[q.fd[f].chan] # "half"
    <3>1. q.fd[f].chan \in Chans
      BY <1>0, <1>1, <2>1, <2>3, EndChan
    <3> QED
      BY <1>0, <1>2, <2>1, <2>3, <3>1
  <2>5. f \in Stray(q, {})
    BY <1>0, <2>1, <2>2, <2>3, <2>4 DEF Stray
  <2> QED
    BY <1>0, <1>1, <1>4, <2>1, <2>2, <2>3, <2>5
<1>12. ASSUME NEW c \in Chans, t.chan[c] = "half"
       PROVE  \E f \in Fd : t.fd[f] = End("req", c) /\ z[f] = "none"
  <2>1. c # e.chan /\ q.chan[c] = "half"
    BY <1>0, <1>12
  <2>2. PICK f \in Fd : q.fd[f] = End("req", c) /\ r[f] = "none"
    BY <1>0, <1>1, <2>1
  <2>3. f # s /\ f # e.req
    BY <1>0, <1>2, <2>1, <2>2 DEF End
  <2> QED
    BY <1>0, <1>4, <2>2, <2>3
<1>13. Known(t, z, -1)
  BY <1>0, <1>4, <1>7, <1>8, <1>9, <1>10, <1>11, <1>12 DEF Known
<1> QED
  BY <1>13 DEF z

(* A descriptor that is no socket's, nor a half-open channel's, is closed, or
   opened on something of the program's. *)
LEMMA KnownPlain ==
  ASSUME NEW q, NEW r, Known(q, r, -1), NEW s \in Fd,
         q.fd[s] # Closed => r[s] # "none" /\ lookup(q, s) = {},
         NEW t, NEW v \in {Closed, File}, Is(t, [q.fd EXCEPT ![s] = v], q.sock, q.chan),
         NEW w \in {"none", "file"}, w # "none" => v = File
  PROVE  Known(t, [r EXCEPT ![s] = w], -1)
<1> DEFINE z == [r EXCEPT ![s] = w]
<1>1. /\ Sound(q, {}) /\ q \in Process
      /\ r \in [Fd -> Roles]
      /\ \A c \in Chans : q.chan[c] = "half" =>
           \E f \in Fd : q.fd[f] = End("req", c) /\ r[f] = "none"
      /\ \A f \in Fd : r[f] # "none" => q.fd[f] # Closed
      /\ \A j \in Slot : q.sock[j].used => SlotKnown(q, r, -1, j)
      /\ \A f \in Fd : r[f] = "conn" => Connection(q, f)
      /\ \A f \in Stray(q, {}) : q.fd[f].kind = "repl" /\ r[f] = "listener"
  BY DEF Known, Sound
<1>2. /\ t \in Process /\ t.sock = q.sock /\ t.chan = q.chan
      /\ t.fd[s] = v /\ \A f \in Fd : f # s => t.fd[f] = q.fd[f]
  BY <1>1, Parts DEF Is
<1>3. z \in [Fd -> Roles] /\ z[s] = w /\ \A f \in Fd : f # s => z[f] = r[f]
  BY <1>1 DEF Roles
<1> HIDE DEF z
<1>4. v.kind \notin {"req", "repl"} /\ (v = File => v # Closed)
  BY DEF Closed, File
<1>5. ASSUME NEW j \in Slot, q.sock[j].used
      PROVE  /\ q.sock[j].req \in Fd /\ q.sock[j].repl \in Fd
             /\ q.sock[j].req # s /\ q.sock[j].repl # s /\ Whole(t, j)
  <2>1. /\ q.sock[j].chan \in Chans /\ q.sock[j].req \in Fd /\ q.sock[j].repl \in Fd
        /\ q.fd[q.sock[j].req] = End("req", q.sock[j].chan)
        /\ q.fd[q.sock[j].repl] = End("repl", q.sock[j].chan)
        /\ q.chan[q.sock[j].chan] \in {"open", "listen", "ready", "conn"}
        /\ q.fd[q.sock[j].req] # Closed /\ q.fd[q.sock[j].repl] # Closed
    BY <1>1, <1>5, InOrder
  <2>2. r[q.sock[j].req] = "none"
    BY <1>1, <1>5 DEF SlotKnown
  <2>3. q.sock[j].req # s /\ q.sock[j].repl # s
    BY <1>5, <2>1, <2>2 DEF lookup
  <2>4. Whole(t, j)
    BY <1>2, <2>1, <2>3 DEF Whole
  <2> QED
    BY <2>1, <2>3, <2>4
<1>6. Sound(t, {})
  BY <1>1, <1>2, <1>5 DEF Sound
<1>7. \A j \in Slot : t.sock[j].used => SlotKnown(t, z, -1, j)
  BY <1>1, <1>2, <1>3, <1>5 DEF SlotKnown
<1>8. ASSUME NEW f \in Fd, z[f] = "conn" PROVE Connection(t, f)
  <2>1. f # s /\ r[f] = "conn"
    BY <1>3, <1>8
  <2> QED
    BY <1>1, <1>2, <2>1 DEF Connection
<1>9. \A f \in Fd : z[f] # "none" => t.fd[f] # Closed
  BY <1>1, <1>2, <1>3, <1>4
<1>10. ASSUME NEW f \in Stray(t, {}) PROVE t.fd[f].kind = "repl" /\ z[f] = "listener"
  <2>1. f \in Fd /\ t.fd[f].kind \in {"req", "repl"}
    BY DEF Stray
  <2>2. f # s
    BY <1>2, <1>4, <2>1
  <2>3. f \in Stray(q, {})
    BY <1>2, <2>1, <2>2 DEF Stray
  <2> QED
    BY <1>1, <1>2, <1>3, <2>1, <2>2, <2>3
<1>11. ASSUME NEW c \in Chans, t.chan[c] = "half"
       PROVE  \E f \in Fd : t.fd[f] = End("req", c) /\ z[f] = "none"
  <2>1. PICK f \in Fd : q.fd[f] = End("req", c) /\ r[f] = "none"
    BY <1>1, <1>2, <1>11
  <2>2. f # s
    BY <2>1 DEF End, Closed
  <2> QED
    BY <1>2, <1>3, <2>1, <2>2
<1>12. Known(t, z, -1)
  BY <1>3, <1>6, <1>7, <1>8, <1>9, <1>10, <1>11 DEF Known
<1> QED
  BY <1>12 DEF z

(* The daemon reclaims a channel nobody can write to. *)
LEMMA KnownReaped ==
  ASSUME NEW q, NEW r, NEW a, Known(q, r, a), NEW c \in Chans,
         \A f \in Fd : q.fd[f] # End("req", c),
         NEW t, Is(t, q.fd, q.sock, [q.chan EXCEPT ![c] = "none"])
  PROVE  Known(t, r, a)
<1>1. /\ Sound(q, {}) /\ q \in Process
      /\ r \in [Fd -> Roles] /\ a \in Fd \cup {-1}
      /\ a # -1 => r[a] = "listener"
      /\ \A d \in Chans : q.chan[d] = "half" =>
           \E f \in Fd : q.fd[f] = End("req", d) /\ r[f] = "none"
      /\ \A f \in Fd : r[f] # "none" => q.fd[f] # Closed
      /\ \A j \in Slot : q.sock[j].used => SlotKnown(q, r, a, j)
      /\ \A f \in Fd : r[f] = "conn" => Connection(q, f)
      /\ \A f \in Stray(q, {}) : q.fd[f].kind = "repl" /\ r[f] = "listener"
  BY DEF Known, Sound
<1>2. /\ t \in Process /\ t.sock = q.sock /\ t.fd = q.fd
      /\ t.chan[c] = "none" /\ \A d \in Chans : d # c => t.chan[d] = q.chan[d]
  BY <1>1, Parts DEF Is
<1>3. q.chan[c] # "half"
  BY <1>1
<1>4. ASSUME NEW j \in Slot, q.sock[j].used
      PROVE  /\ q.sock[j].chan \in Chans /\ q.sock[j].chan # c
             /\ t.chan[q.sock[j].chan] = q.chan[q.sock[j].chan] /\ Whole(t, j)
  <2>1. /\ q.sock[j].chan \in Chans /\ q.sock[j].req \in Fd /\ q.sock[j].repl \in Fd
        /\ q.fd[q.sock[j].req] = End("req", q.sock[j].chan)
        /\ q.fd[q.sock[j].repl] = End("repl", q.sock[j].chan)
        /\ q.chan[q.sock[j].chan] \in {"open", "listen", "ready", "conn"}
    BY <1>1, <1>4, InOrder
  <2>2. q.sock[j].chan # c
    BY <2>1
  <2> QED
    BY <1>2, <2>1, <2>2 DEF Whole
<1>5. Sound(t, {})
  BY <1>1, <1>2, <1>4 DEF Sound
<1>6. \A j \in Slot : t.sock[j].used => SlotKnown(t, r, a, j)
  BY <1>1, <1>2, <1>4 DEF SlotKnown
<1>7. \A f \in Fd : r[f] = "conn" => Connection(t, f)
  BY <1>1, <1>2, <1>4 DEF Connection
<1>8. ASSUME NEW f \in Stray(t, {}) PROVE f \in Fd /\ f \in Stray(q, {})
  <2>1. f \in Fd /\ q.fd[f].kind \in {"req", "repl"} /\ t.chan[q.fd[f].chan] # "half"
    BY <1>2 DEF Stray
  <2>2. q.fd[f].chan \in Chans
    BY <1>1, <2>1, EndChan
  <2>3. q.chan[q.fd[f].chan] # "half"
    BY <1>2, <1>3, <2>1, <2>2
  <2> QED
    BY <1>2, <2>1, <2>3 DEF Stray
<1>9. \A d \in Chans : t.chan[d] = "half" => q.chan[d] = "half"
  BY <1>2
<1> QED
  BY <1>1, <1>2, <1>5, <1>6, <1>7, <1>8, <1>9 DEF Known

-----------------------------------------------------------------------------
(* The actions. *)
SameSocket(k, e) ==
  k.used = e.used /\ k.chan = e.chan /\ k.req = e.req /\ k.repl = e.repl

LEMMA TouchIs ==
  ASSUME NEW q, Sound(q, {}), NEW i \in Slot, q.sock[i].used,
         NEW t \in Process, t.fd = q.fd,
         SameSocket(t.sock[i], q.sock[i]),
         \A j \in Slot : j # i => t.sock[j] = q.sock[j],
         t.chan[q.sock[i].chan] \in Live,
         \A d \in Chans : d # q.sock[i].chan => t.chan[d] = q.chan[d]
  PROVE  Touches(q, t, i)
<1>1. q.sock[i].chan \in Chans /\ q.chan[q.sock[i].chan] \in Live
  BY InOrder DEF Live
<1>2. ASSUME NEW j \in Slot
      PROVE  SameSocket(t.sock[j], q.sock[j]) /\ (~q.sock[j].used => t.sock[j] = q.sock[j])
  <2>1. CASE j = i
    BY <2>1
  <2>2. CASE j # i
    BY <2>2 DEF SameSocket
  <2> QED
    BY <2>1, <2>2
<1>3. \A d \in Chans : t.chan[d] = q.chan[d] \/ (t.chan[d] \in Live /\ q.chan[d] \in Live)
  BY <1>1
<1>4. Alike(q, t)
  BY <1>2, <1>3, Zenon DEF Alike, SameSocket
<1> QED
  BY <1>4 DEF Touches

(* The same, of what assignments to the two make of q. *)
LEMMA PutTouches ==
  ASSUME NEW q, Sound(q, {}), NEW i \in Slot, q.sock[i].used,
         NEW k \in Sock, SameSocket(k, q.sock[i]), NEW v \in Live, NEW t,
         Is(t, q.fd, [q.sock EXCEPT ![i] = k], [q.chan EXCEPT ![q.sock[i].chan] = v])
  PROVE  Touches(q, t, i) /\ t.sock[i] = k /\ t.chan[q.sock[i].chan] = v
<1>1. q.sock[i].chan \in Chans
  BY InOrder
<1>2. q.sock \in [Slot -> Sock] /\ q.chan \in [Chans -> ChanState]
  BY Parts DEF Sound
<1>3. /\ t \in Process /\ t.fd = q.fd
      /\ t.sock[i] = k /\ t.chan[q.sock[i].chan] = v
      /\ \A j \in Slot : j # i => t.sock[j] = q.sock[j]
      /\ \A d \in Chans : d # q.sock[i].chan => t.chan[d] = q.chan[d]
  BY <1>1, <1>2 DEF Is
<1>4. SameSocket(t.sock[i], q.sock[i]) /\ t.chan[q.sock[i].chan] \in Live
  BY <1>3
<1>5. Touches(q, t, i)
  BY <1>3, <1>4, TouchIs
<1> QED
  BY <1>3, <1>5

LEMMA ChanTouches ==
  ASSUME NEW q, Sound(q, {}), NEW i \in Slot, q.sock[i].used, NEW v \in Live
  PROVE  LET t == [q EXCEPT !.chan[q.sock[i].chan] = v]
         IN  /\ Touches(q, t, i) /\ t.sock[i] = q.sock[i]
             /\ t.chan[q.sock[i].chan] = v
<1> DEFINE t == [q EXCEPT !.chan[q.sock[i].chan] = v]
<1>1. q \in Process /\ q.sock[i].chan \in Chans /\ v \in ChanState
  <2>1. q.sock[i].chan \in Chans
    BY InOrder
  <2> QED
    BY <2>1 DEF Sound, Live, ChanState
<1>2. Is(t, q.fd, q.sock, [q.chan EXCEPT ![q.sock[i].chan] = v])
  BY <1>1, PutChan
<1>3. q.chan \in [Chans -> ChanState]
  BY <1>1, Parts
<1> HIDE DEF t
<1>4. /\ t \in Process /\ t.fd = q.fd /\ t.sock = q.sock
      /\ t.chan[q.sock[i].chan] = v
      /\ \A d \in Chans : d # q.sock[i].chan => t.chan[d] = q.chan[d]
  BY <1>1, <1>2, <1>3 DEF Is
<1>5. SameSocket(t.sock[i], q.sock[i]) /\ t.chan[q.sock[i].chan] \in Live
  BY <1>4 DEF SameSocket
<1>6. Touches(q, t, i)
  BY <1>4, <1>5, TouchIs
<1> QED
  BY <1>4, <1>6 DEF t

LEMMA PostTouches ==
  ASSUME NEW q, Sound(q, {}), NEW i \in Slot, q.sock[i].used
  PROVE  Touches(q, Post(q, i), i) /\ Post(q, i).sock[i].listening = TRUE
<1>1. q \in Process /\ q.sock[i].chan \in Chans
  <2>1. q.sock[i].chan \in Chans
    BY InOrder
  <2> QED
    BY <2>1 DEF Sound
<1> DEFINE t == Post(q, i)
<1>2. PICK k \in Sock :
        /\ k.used = q.sock[i].used /\ k.chan = q.sock[i].chan
        /\ k.req = q.sock[i].req /\ k.repl = q.sock[i].repl /\ k.listening = TRUE
        /\ Is(t, q.fd, [q.sock EXCEPT ![i] = k],
              [q.chan EXCEPT ![q.sock[i].chan] = "listen"])
  BY <1>1, PostIs
<1> HIDE DEF t
<1>3. "listen" \in Live /\ SameSocket(k, q.sock[i])
  BY <1>2 DEF Live, SameSocket
<1>4. Is(t, q.fd, [q.sock EXCEPT ![i] = k], [q.chan EXCEPT ![q.sock[i].chan] = "listen"])
  BY <1>2
<1>5. Touches(q, t, i) /\ t.sock[i] = k
  BY <1>3, <1>4, PutTouches
<1> QED
  BY <1>2, <1>5 DEF t

(* What a number's slot is, by the invariant. *)
LEMMA Behind ==
  ASSUME NEW q, NEW r, NEW a, Known(q, r, a), NEW s, NEW i \in lookup(q, s)
  PROVE  /\ Sound(q, {}) /\ i \in Slot /\ q.sock[i].used /\ q.sock[i].repl = s
         /\ s \in Fd /\ s # -1 /\ SlotKnown(q, r, a, i)
         /\ q.sock[i].listening \in BOOLEAN /\ q.sock[i].chan \in Chans
         /\ q \in Process
<1>1. Sound(q, {}) /\ i \in Slot /\ q.sock[i].used /\ q.sock[i].repl = s
  BY DEF Known, lookup
<1>2. s \in Fd /\ q.sock[i].chan \in Chans
  BY <1>1, InOrder
<1>3. s # -1
  BY <1>2, SizesAssumption DEF Fd
<1>4. q.sock[i].listening \in BOOLEAN /\ q \in Process
  BY <1>1, Parts DEF Sound, Sock
<1> QED
  BY <1>1, <1>2, <1>3, <1>4 DEF Known

LEMMA Socket ==
  ASSUME IInv, socket
  PROVE  IInv'
<1> DEFINE i == Min(FreeSlots(p))
<1>1. Sound(p, {}) /\ p \in Process /\ at = -1 /\ at' = -1
  BY DEF IInv, Known, Sound, socket, Idle
<1>2. i \in Slot /\ ~p.sock[i].used /\ p.sock[i] = NoSock
  BY <1>1, FirstSlot DEF socket, Sound
<1>3. PICK r \in ichan_open(sockalloc(p), i) :
        /\ r.ok = TRUE => p' = r.p /\ role' = [role EXCEPT ![r.p.sock[i].repl] = "socket"]
        /\ r.ok = FALSE => p' = sockfree(r.p, i) /\ role' = role
  BY DEF socket
<1>4. \/ r.ok = FALSE /\ Is(sockfree(r.p, i), p.fd, p.sock, p.chan)
      \/ \E a, b, c :
           /\ Taken(p, a, b, c)
           /\ \/ /\ r.ok = TRUE
                 /\ \E k : /\ OpenedAs(k, a, b, c)
                          /\ Is(r.p, Ends(p, a, b, c), [p.sock EXCEPT ![i] = k],
                                [p.chan EXCEPT ![c] = "open"])
              \/ /\ r.ok = FALSE
                 /\ Is(sockfree(r.p, i), Ends(p, a, b, c), p.sock,
                       [p.chan EXCEPT ![c] = "half"])
  BY <1>1, <1>2, OpenResults DEF socket
<1> HIDE DEF i
<1>5. ASSUME r.ok = FALSE, Grows(p, sockfree(r.p, i), {}, {}) PROVE IInv'
  <2>1. p' = sockfree(r.p, i) /\ role' = role
    BY <1>3, <1>5
  <2>2. Known(sockfree(r.p, i), role, at)
    BY <1>5, KnownQuiet DEF IInv
  <2> QED
    BY <1>1, <2>1, <2>2 DEF IInv
<1>6. ASSUME r.ok = FALSE, Is(sockfree(r.p, i), p.fd, p.sock, p.chan) PROVE IInv'
  BY <1>1, <1>5, <1>6, Nothing
<1>7. ASSUME NEW a, NEW b, NEW c, Taken(p, a, b, c), r.ok = FALSE,
             Is(sockfree(r.p, i), Ends(p, a, b, c), p.sock, [p.chan EXCEPT ![c] = "half"])
      PROVE  IInv'
  <2>1. Grows(p, sockfree(r.p, i), {}, {})
    BY <1>1, <1>7, HalfOpens
  <2> QED
    BY <1>5, <1>7, <2>1
<1>8. ASSUME NEW a, NEW b, NEW c, Taken(p, a, b, c), r.ok = TRUE,
             NEW k, OpenedAs(k, a, b, c),
             Is(r.p, Ends(p, a, b, c), [p.sock EXCEPT ![i] = k], [p.chan EXCEPT ![c] = "open"])
      PROVE  IInv'
  <2>1. /\ k \in Sock /\ k.used = TRUE /\ k.chan = c /\ k.req = a /\ k.repl = b
        /\ k.listening = FALSE
    BY <1>8 DEF OpenedAs
  <2>2. Grows(p, r.p, {}, {i})
    BY <1>1, <1>2, <1>8, <2>1, Opens
  <2>3. r.p.sock[i] = k
    BY <1>1, <1>2, <1>8, <2>1, Parts DEF Is
  <2>4. Known(r.p, [role EXCEPT ![r.p.sock[i].repl] = "socket"], -1)
    BY <1>1, <2>1, <2>2, <2>3, KnownSocket DEF IInv
  <2>5. p' = r.p /\ role' = [role EXCEPT ![r.p.sock[i].repl] = "socket"]
    BY <1>3, <1>8
  <2> QED
    BY <1>1, <2>4, <2>5 DEF IInv
<1> QED
  BY <1>4, <1>6, <1>7, <1>8

LEMMA Listen ==
  ASSUME IInv, NEW s \in Fd, listen(s)
  PROVE  IInv'
<1>1. Known(p, role, -1) /\ at' = -1
  BY DEF listen, Idle, IInv
<1>2. PICK i \in lookup(p, s) : p' = Post(p, i)
  BY DEF listen
<1>3. role[s] = "socket" /\ role' = [role EXCEPT ![s] = "listener"]
  BY DEF listen
<1>4. Sound(p, {}) /\ i \in Slot /\ p.sock[i].used /\ p.sock[i].repl = s
  BY <1>1, Behind
<1>5. Touches(p, Post(p, i), i) /\ Post(p, i).sock[i].listening = TRUE
  BY <1>4, PostTouches
<1>6. Known(Post(p, i), [role EXCEPT ![p.sock[i].repl] = "listener"], -1)
  BY <1>1, <1>3, <1>4, <1>5, KnownTouched
<1> QED
  BY <1>1, <1>2, <1>3, <1>4, <1>6 DEF IInv

LEMMA Connect ==
  ASSUME IInv, NEW s \in Fd, connect(s)
  PROVE  IInv'
<1>1. Known(p, role, -1) /\ at' = -1
  BY DEF connect, Idle, IInv
<1>2. PICK i \in lookup(p, s) : p' = [p EXCEPT !.chan[p.sock[i].chan] = "conn"]
  BY DEF connect
<1>3. role[s] = "socket" /\ role' = [role EXCEPT ![s] = "conn"]
  BY DEF connect
<1>4. /\ Sound(p, {}) /\ i \in Slot /\ p.sock[i].used /\ p.sock[i].repl = s
      /\ SlotKnown(p, role, -1, i) /\ p.sock[i].listening \in BOOLEAN
  BY <1>1, Behind
<1>5. p.sock[i].listening = FALSE
  BY <1>3, <1>4 DEF SlotKnown
<1>6. "conn" \in Live
  BY DEF Live
<1>7. Touches(p, p', i) /\ p'.sock[i] = p.sock[i] /\ p'.chan[p.sock[i].chan] = "conn"
  BY <1>2, <1>4, <1>6, ChanTouches
<1>8. Known(p', [role EXCEPT ![p.sock[i].repl] = "conn"], -1)
  BY <1>1, <1>3, <1>4, <1>5, <1>7, KnownTouched
<1> QED
  BY <1>1, <1>3, <1>4, <1>8 DEF IInv

LEMMA Accept ==
  ASSUME IInv, NEW s \in Fd, accept(s)
  PROVE  IInv'
<1>1. Known(p, role, -1) /\ at' = s
  BY DEF accept, Idle, IInv
<1>2. PICK i \in lookup(p, s) : p' = IF p.sock[i].listening THEN p ELSE Post(p, i)
  BY DEF accept
<1>3. role[s] \in {"socket", "listener"} /\ role' = [role EXCEPT ![s] = "listener"]
  BY DEF accept
<1>4. /\ Sound(p, {}) /\ i \in Slot /\ p.sock[i].used /\ p.sock[i].repl = s
      /\ p.sock[i].listening \in BOOLEAN /\ p \in Process
  BY <1>1, Behind
<1>5. Touches(p, p', i) /\ p'.sock[i].listening = TRUE
  <2>1. CASE p.sock[i].listening
    BY <1>2, <1>4, <2>1 DEF Touches, Alike
  <2>2. CASE ~p.sock[i].listening
    BY <1>2, <1>4, <2>2, PostTouches
  <2> QED
    BY <2>1, <2>2
<1>6. Known(p', [role EXCEPT ![p.sock[i].repl] = "listener"], s)
  BY <1>1, <1>3, <1>4, <1>5, KnownTouched
<1> QED
  BY <1>1, <1>3, <1>4, <1>6 DEF IInv

LEMMA Returns ==
  ASSUME IInv, AcceptReturns
  PROVE  IInv'
<1>1. PICK i \in lookup(p, at) :
        LET c == p.sock[i].chan
            q == [p EXCEPT !.chan[c] = "conn", !.sock[i].listening = FALSE]
        IN  \E r \in Accepted(q, i, at) :
              /\ p' = r.p
              /\ role' = IF r.ret = -1 THEN role ELSE [role EXCEPT ![r.ret] = "conn"]
  BY Zenon DEF AcceptReturns
<1> DEFINE t1 == [p EXCEPT !.chan[p.sock[i].chan] = "conn"]
           q == [t1 EXCEPT !.sock[i].listening = FALSE]
<1>2. PICK r \in Accepted(q, i, at) :
        /\ p' = r.p
        /\ role' = IF r.ret = -1 THEN role ELSE [role EXCEPT ![r.ret] = "conn"]
  BY <1>1
<1>3. /\ Sound(p, {}) /\ i \in Slot /\ p.sock[i].used /\ p.sock[i].repl = at
      /\ p.sock[i].chan \in Chans /\ p \in Process
  BY Behind DEF IInv
<1>4. Is(t1, p.fd, p.sock, [p.chan EXCEPT ![p.sock[i].chan] = "conn"])
  <2>1. "conn" \in ChanState
    BY DEF ChanState
  <2> QED
    BY <1>3, <2>1, PutChan
<1> HIDE DEF t1
<1>5. PICK k \in Sock :
        /\ k.listening = FALSE
        /\ k.used = t1.sock[i].used /\ k.chan = t1.sock[i].chan
        /\ k.req = t1.sock[i].req /\ k.repl = t1.sock[i].repl
        /\ Is(q, t1.fd, [t1.sock EXCEPT ![i] = k], t1.chan)
  <2>1. t1 \in Process /\ FALSE \in BOOLEAN
    BY <1>4 DEF Is
  <2> QED
    BY <1>3, <2>1, PutListening
<1> HIDE DEF q
<1>6. /\ k.used = p.sock[i].used /\ k.chan = p.sock[i].chan
      /\ k.req = p.sock[i].req /\ k.repl = p.sock[i].repl
      /\ Is(q, p.fd, [p.sock EXCEPT ![i] = k], [p.chan EXCEPT ![p.sock[i].chan] = "conn"])
  BY <1>4, <1>5 DEF Is
<1>7. "conn" \in Live
  BY DEF Live
<1>8. Touches(p, q, i) /\ q.sock[i] = k /\ q.chan[p.sock[i].chan] = "conn"
  <2>1. SameSocket(k, p.sock[i])
    BY <1>6 DEF SameSocket
  <2>2. Is(q, p.fd, [p.sock EXCEPT ![i] = k], [p.chan EXCEPT ![p.sock[i].chan] = "conn"])
    BY <1>6
  <2> QED
    BY <1>3, <1>7, <2>1, <2>2, PutTouches
<1>9. Alike(p, q)
  BY <1>8 DEF Touches
<1>10. Sound(q, {})
  BY <1>3, <1>9, AlikeSound
<1>11. q.sock[i].used /\ q.sock[i].repl = at
  BY <1>3, <1>9, Zenon DEF Alike
<1>12. \/ r.ret = -1 /\ Recovers(q, r.p, i, at)
       \/ r.ret \in Fd /\ Swaps(q, r.p, i, at, r.ret)
  BY <1>2, <1>3, <1>10, <1>11, AcceptedIs
<1>13. at' = -1 /\ Known(p, role, at)
  BY DEF AcceptReturns, IInv
<1>14. CASE r.ret = -1 /\ Recovers(q, r.p, i, at)
  <2>1. Known(r.p, role, -1)
    BY <1>3, <1>8, <1>13, <1>14, KnownRecovers
  <2>2. p' = r.p /\ role' = role
    BY <1>2, <1>14
  <2> QED
    BY <1>13, <2>1, <2>2 DEF IInv
<1>15. CASE r.ret \in Fd /\ Swaps(q, r.p, i, at, r.ret)
  <2>1. q.sock[i].listening = FALSE
    BY <1>5, <1>8
  <2>2. Known(r.p, [role EXCEPT ![r.ret] = "conn"], -1)
    BY <1>3, <1>8, <1>13, <1>15, <2>1, KnownSwaps
  <2>3. r.ret # -1
    BY <1>15, SizesAssumption DEF Fd
  <2>4. p' = r.p /\ role' = [role EXCEPT ![r.ret] = "conn"]
    BY <1>2, <2>3
  <2> QED
    BY <1>13, <2>2, <2>4 DEF IInv
<1> QED
  BY <1>12, <1>14, <1>15

LEMMA Fails ==
  ASSUME IInv, AcceptFails
  PROVE  IInv'
<1>1. Known(p, role, at) /\ at # -1 /\ at' = -1 /\ role' = role
  BY DEF AcceptFails, Idle, IInv
<1>2. PICK i \in lookup(p, at) :
        \/ /\ p.chan[p.sock[i].chan] = "listen"
           /\ \E v \in {"open", "conn"} : p' = [p EXCEPT !.chan[p.sock[i].chan] = v]
        \/ p' = p
  BY DEF AcceptFails
<1>3. /\ Sound(p, {}) /\ i \in Slot /\ p.sock[i].used /\ p.sock[i].repl = at
      /\ p \in Process /\ SlotKnown(p, role, at, i)
  BY <1>1, Behind
<1>4. role \in [Fd -> Roles] /\ role[at] = "listener"
      /\ \A j \in Slot : p.sock[j].used => SlotKnown(p, role, at, j)
      /\ \A f \in Fd : role[f] = "conn" => Connection(p, f)
  BY <1>1 DEF Known
<1>5. p.sock[i].listening
  BY <1>3 DEF SlotKnown
<1>6. Touches(p, p', i) /\ p'.sock[i] = p.sock[i]
  <2>1. CASE p' = p
    BY <1>3, <2>1 DEF Touches, Alike
  <2>2. CASE \E v \in {"open", "conn"} : p' = [p EXCEPT !.chan[p.sock[i].chan] = v]
    <3>1. PICK v \in {"open", "conn"} : p' = [p EXCEPT !.chan[p.sock[i].chan] = v]
      BY <2>2
    <3>2. v \in Live
      BY DEF Live
    <3> QED
      BY <1>3, <3>1, <3>2, ChanTouches
  <2> QED
    BY <1>2, <2>1, <2>2
<1>7. \A j \in Slot : j # i => p'.sock[j] = p.sock[j]
  BY <1>6 DEF Touches
<1>8. ASSUME NEW j \in Slot, p.sock[j].used PROVE SlotKnown(p', role, -1, j)
  <2>1. SlotKnown(p, role, at, j) /\ p'.sock[j] = p.sock[j]
    BY <1>4, <1>6, <1>7, <1>8
  <2>2. -1 # p.sock[j].repl
    <3>1. p.sock[j].repl \in Fd
      BY <1>3, <1>8, InOrder
    <3> QED
      BY <3>1, SizesAssumption DEF Fd
  <2>3. CASE j = i
    BY <1>5, <1>3, <1>4, <2>1, <2>2, <2>3 DEF SlotKnown
  <2>4. CASE j # i
    <3>1. p'.chan[p.sock[j].chan] = p.chan[p.sock[j].chan]
      BY <1>3, <1>6, <1>8, <2>4, Untouched
    <3> QED
      BY <2>1, <2>2, <3>1 DEF SlotKnown
  <2> QED
    BY <2>3, <2>4
<1>9. ASSUME NEW f \in Fd, role[f] = "conn" PROVE Connection(p', f)
  <2>0. Connection(p, f)
    BY <1>1, <1>9 DEF Known
  <2>1. PICK j \in Slot : /\ p.sock[j].used /\ p.sock[j].repl = f /\ ~p.sock[j].listening
                         /\ p.chan[p.sock[j].chan] = "conn"
    BY <2>0 DEF Connection
  <2>2. j # i
    BY <1>5, <2>1
  <2>3. p'.sock[j] = p.sock[j] /\ p'.chan[p.sock[j].chan] = p.chan[p.sock[j].chan]
    BY <1>3, <1>6, <2>1, <2>2, Untouched
  <2> QED
    BY <2>1, <2>3 DEF Connection
<1>10. Known(p', role, -1)
  <2>1. Alike(p, p') /\ -1 \in Fd \cup {-1}
    BY <1>6 DEF Touches
  <2> QED
    BY <1>1, <1>4, <1>8, <1>9, <2>1, KnownAlike
<1> QED
  BY <1>1, <1>10 DEF IInv

LEMMA Close ==
  ASSUME IInv, NEW s \in Fd, close(s)
  PROVE  IInv'
<1>1. Known(p, role, -1) /\ at' = -1 /\ role[s] # "none"
      /\ role' = [role EXCEPT ![s] = "none"]
  BY DEF close, Idle, IInv
<1>2. p \in Process
  BY <1>1 DEF Known, Sound
<1>3. CASE lookup(p, s) = {}
  <2>1. p' = _rawclose(p, s)
    BY <1>3 DEF close
  <2>2. Is(p', [p.fd EXCEPT ![s] = Closed], p.sock, p.chan)
    BY <1>2, <2>1, CloseIs
  <2>3. Known(p', [role EXCEPT ![s] = "none"], -1)
    BY <1>1, <1>3, <2>2, KnownPlain
  <2> QED
    BY <1>1, <2>3 DEF IInv
<1>4. CASE lookup(p, s) # {}
  <2>1. PICK i \in lookup(p, s) : p' = Abandon(p, i)
    BY <1>4 DEF close
  <2>2. Sound(p, {}) /\ i \in Slot /\ p.sock[i].used /\ p.sock[i].repl = s
    BY <1>1, Behind
  <2>3. p.sock[i].chan \in Chans /\ p.sock[i].req \in Fd /\ p.sock[i].repl \in Fd
    BY <2>2, InOrder
  <2>4. Is(p', [[p.fd EXCEPT ![p.sock[i].req] = Closed] EXCEPT ![s] = Closed],
           [p.sock EXCEPT ![i] = NoSock], [p.chan EXCEPT ![p.sock[i].chan] = "none"])
    BY <1>2, <2>1, <2>2, <2>3, AbandonIs
  <2>5. /\ p' \in Process /\ p'.fd[p.sock[i].req] = Closed /\ p'.fd[s] = Closed
        /\ \A f \in Fd : f # p.sock[i].req /\ f # s => p'.fd[f] = p.fd[f]
        /\ p'.sock[i] = NoSock /\ \A j \in Slot : j # i => p'.sock[j] = p.sock[j]
        /\ p'.chan[p.sock[i].chan] # "half"
        /\ \A d \in Chans : d # p.sock[i].chan => p'.chan[d] = p.chan[d]
    BY <1>2, <2>2, <2>3, <2>4, Parts DEF Is
  <2>6. Dropped(p, p', i)
    BY <2>2, <2>5 DEF Dropped
  <2>7. Known(p', [role EXCEPT ![s] = "none"], -1)
    BY <1>1, <2>2, <2>6, KnownDrops
  <2> QED
    BY <1>1, <2>7 DEF IInv
<1> QED
  BY <1>3, <1>4

LEMMA SockDrop ==
  ASSUME IInv, NEW s \in Fd, sockdrop(s)
  PROVE  IInv'
<1>1. Known(p, role, -1) /\ at' = -1 /\ role' = [role EXCEPT ![s] = "none"]
  BY DEF sockdrop, Idle, IInv
<1>2. PICK i \in lookup(p, s) :
        p' = sockfree(_rawclose(_rawclose(p, p.sock[i].req), s), i)
  BY DEF sockdrop
<1>3. /\ Sound(p, {}) /\ i \in Slot /\ p.sock[i].used /\ p.sock[i].repl = s
      /\ p \in Process
  BY <1>1, Behind
<1>4. p.sock[i].chan \in Chans /\ p.sock[i].req \in Fd /\ p.chan[p.sock[i].chan] # "half"
  <2>1. /\ p.sock[i].chan \in Chans /\ p.sock[i].req \in Fd
        /\ p.chan[p.sock[i].chan] \in {"open", "listen", "ready", "conn"}
    BY <1>3, InOrder
  <2> QED
    BY <2>1
<1> DEFINE t1 == _rawclose(p, p.sock[i].req)
           t2 == _rawclose(t1, s)
<1>5. Is(t1, [p.fd EXCEPT ![p.sock[i].req] = Closed], p.sock, p.chan)
  BY <1>3, <1>4, CloseIs
<1> HIDE DEF t1
<1>6. Is(t2, [t1.fd EXCEPT ![s] = Closed], t1.sock, t1.chan)
  <2>1. t1 \in Process
    BY <1>5 DEF Is
  <2> QED
    BY <2>1, CloseIs
<1> HIDE DEF t2
<1>7. Is(p', t2.fd, [t2.sock EXCEPT ![i] = NoSock], t2.chan)
  <2>1. t2 \in Process
    BY <1>6 DEF Is
  <2>2. p' = sockfree(t2, i)
    BY <1>2 DEF t1, t2
  <2> QED
    BY <1>3, <2>1, <2>2, FreeIs
<1>8. /\ p' \in Process /\ p'.fd[p.sock[i].req] = Closed /\ p'.fd[s] = Closed
      /\ \A f \in Fd : f # p.sock[i].req /\ f # s => p'.fd[f] = p.fd[f]
      /\ p'.sock[i] = NoSock /\ \A j \in Slot : j # i => p'.sock[j] = p.sock[j]
      /\ p'.chan = p.chan
  BY <1>3, <1>4, <1>5, <1>6, <1>7, Parts DEF Is
<1>9. Dropped(p, p', i)
  BY <1>3, <1>4, <1>8 DEF Dropped
<1>10. Known(p', [role EXCEPT ![s] = "none"], -1)
  BY <1>1, <1>3, <1>9, KnownDrops
<1> QED
  BY <1>1, <1>10 DEF IInv

LEMMA PlainOpen ==
  ASSUME IInv, OpenFile
  PROVE  IInv'
<1> DEFINE s == Lowest(p)
<1>1. Known(p, role, -1) /\ at' = -1 /\ role' = [role EXCEPT ![s] = "file"]
      /\ Free(p) # {}
  BY DEF OpenFile, Idle, IInv
<1>2. s \in Fd /\ p.fd[s] = Closed /\ p \in Process
  BY <1>1, LowestFree DEF Known, Sound
<1>3. p' = [p EXCEPT !.fd[s] = File]
  BY DEF OpenFile, rawopen
<1> HIDE DEF s
<1>4. Is(p', [p.fd EXCEPT ![s] = File], p.sock, p.chan)
  <2>1. File \in FdVal
    BY DEF FdVal
  <2> QED
    BY <1>2, <1>3, <2>1, PutFd
<1>5. Known(p', [role EXCEPT ![s] = "file"], -1)
  BY <1>1, <1>2, <1>4, KnownPlain
<1> QED
  BY <1>1, <1>5 DEF IInv

LEMMA PeerConnects ==
  ASSUME IInv, NEW c \in Chans, Peer(c)
  PROVE  IInv'
<1>1. /\ Known(p, role, at) /\ at' = at /\ role' = role
      /\ p.chan[c] = "listen" /\ p' = [p EXCEPT !.chan[c] = "ready"]
  BY DEF Peer, IInv
<1>2. /\ Sound(p, {}) /\ p \in Process /\ role \in [Fd -> Roles] /\ at \in Fd \cup {-1}
      /\ at # -1 => role[at] = "listener"
      /\ \A j \in Slot : p.sock[j].used => SlotKnown(p, role, at, j)
      /\ \A f \in Fd : role[f] = "conn" => Connection(p, f)
  BY <1>1 DEF Known, Sound
<1>3. Is(p', p.fd, p.sock, [p.chan EXCEPT ![c] = "ready"])
  <2>1. "ready" \in ChanState
    BY DEF ChanState
  <2> QED
    BY <1>1, <1>2, <2>1, PutChan
<1>4. /\ p' \in Process /\ p'.fd = p.fd /\ p'.sock = p.sock
      /\ p'.chan[c] = "ready" /\ \A d \in Chans : d # c => p'.chan[d] = p.chan[d]
  BY <1>2, <1>3, Parts DEF Is
<1>5. Alike(p, p')
  BY <1>1, <1>4 DEF Alike, Live
<1>6. ASSUME NEW j \in Slot, p.sock[j].used PROVE SlotKnown(p', role, at, j)
  <2>1. SlotKnown(p, role, at, j) /\ p.sock[j].chan \in Chans
    BY <1>2, <1>6, InOrder
  <2>2. p'.chan[p.sock[j].chan] = "conn" => p.chan[p.sock[j].chan] = "conn"
    BY <1>4, <2>1
  <2> QED
    BY <1>4, <2>1, <2>2 DEF SlotKnown
<1>7. ASSUME NEW f \in Fd, role[f] = "conn" PROVE Connection(p', f)
  <2>1. PICK j \in Slot : /\ p.sock[j].used /\ p.sock[j].repl = f /\ ~p.sock[j].listening
                         /\ p.chan[p.sock[j].chan] = "conn"
    BY <1>2, <1>7 DEF Connection
  <2>2. p.sock[j].chan \in Chans /\ p.sock[j].chan # c
    BY <1>1, <1>2, <2>1, InOrder
  <2> QED
    BY <1>4, <2>1, <2>2 DEF Connection
<1>8. Known(p', role, at)
  BY <1>1, <1>2, <1>5, <1>6, <1>7, KnownAlike
<1> QED
  BY <1>1, <1>8 DEF IInv

LEMMA Reclaims ==
  ASSUME IInv, NEW c \in Chans, Reap(c)
  PROVE  IInv'
<1>1. /\ Known(p, role, at) /\ at' = at /\ role' = role
      /\ \A f \in Fd : p.fd[f] # End("req", c)
      /\ p' = [p EXCEPT !.chan[c] = "none"]
  BY DEF Reap, IInv
<1>2. p \in Process /\ "none" \in ChanState
  BY <1>1 DEF Known, Sound, ChanState
<1>3. Is(p', p.fd, p.sock, [p.chan EXCEPT ![c] = "none"])
  BY <1>1, <1>2, PutChan
<1>4. Known(p', role, at)
  BY <1>1, <1>3, KnownReaped
<1> QED
  BY <1>1, <1>4 DEF IInv

-----------------------------------------------------------------------------
LEMMA InitIInv == Init => IInv
<1> SUFFICES ASSUME Init PROVE Known(p, role, at)
  BY DEF IInv
<1>1. /\ p = [fd |-> [f \in Fd |-> Closed], sock |-> [i \in Slot |-> NoSock],
              chan |-> [c \in Chans |-> "none"]]
      /\ at = -1 /\ role = [f \in Fd |-> "none"]
  BY DEF Init
<1>2. p \in Process
  <2>1. Closed \in FdVal /\ NoSock \in Sock /\ "none" \in ChanState
    BY Blank DEF FdVal, ChanState
  <2> QED
    BY <1>1, <2>1 DEF Process
<1>3. /\ \A f \in Fd : p.fd[f] = Closed /\ role[f] = "none"
      /\ \A i \in Slot : p.sock[i] = NoSock
      /\ \A c \in Chans : p.chan[c] = "none"
  BY <1>1
<1>4. NoSock.used = FALSE /\ Closed.kind = "none"
  BY DEF NoSock, Closed
<1>5. Sound(p, {})
  BY <1>2, <1>3, <1>4 DEF Sound
<1>6. role \in [Fd -> Roles] /\ at = -1
  BY <1>1 DEF Roles
<1>7. Stray(p, {}) = {}
  BY <1>3, <1>4 DEF Stray
<1> QED
  BY <1>3, <1>4, <1>5, <1>6, <1>7 DEF Known

LEMMA NextIInv == IInv /\ [Next]_vars => IInv'
<1> SUFFICES ASSUME IInv, [Next]_vars PROVE IInv'
  OBVIOUS
<1>1. CASE socket
  BY <1>1, Socket
<1>2. CASE AcceptReturns
  BY <1>2, Returns
<1>3. CASE AcceptFails
  BY <1>3, Fails
<1>4. CASE OpenFile
  BY <1>4, PlainOpen
<1>5. ASSUME NEW f \in Fd,
             listen(f) \/ connect(f) \/ accept(f) \/ close(f) \/ sockdrop(f)
      PROVE  IInv'
  BY <1>5, Listen, Connect, Accept, Close, SockDrop
<1>6. ASSUME NEW c \in Chans, Peer(c) \/ Reap(c) PROVE IInv'
  BY <1>6, PeerConnects, Reclaims
<1>7. CASE UNCHANGED vars
  BY <1>7 DEF vars, IInv
<1> QED
  BY <1>1, <1>2, <1>3, <1>4, <1>5, <1>6, <1>7 DEF Next

(* The invariant holds throughout. *)
THEOREM Invariance == Spec => []IInv
<1> QED
  BY InitIInv, NextIInv, PTL DEF Spec

(* Types, and a slot not in use is blank: sockfree() zeroes it on every path of
   accept() and of its recoveries. *)
THEOREM TypeCorrect == Spec => []TypeOK
<1>1. IInv => TypeOK
  <2> SUFFICES ASSUME IInv PROVE TypeOK
    OBVIOUS
  <2>1. /\ p \in Process /\ \A i \in Slot : ~p.sock[i].used => p.sock[i] = NoSock
        /\ at \in Fd \cup {-1} /\ role \in [Fd -> Roles]
    BY DEF IInv, Known, Sound
  <2> QED
    BY <2>1 DEF TypeOK, Roles
<1> QED
  BY <1>1, Invariance, PTL

(* However accept() swaps and recovers, for any number of descriptors, slots
   and channels, the table says what the kernel has. *)
THEOREM TableTrue == Spec => []TableMatchesKernel
<1>1. IInv => TableMatchesKernel
  <2> SUFFICES ASSUME IInv PROVE TableMatchesKernel
    OBVIOUS
  <2>1. Sound(p, {})
    BY DEF IInv, Known
  <2>2. ASSUME NEW i \in Slot, p.sock[i].used
        PROVE  /\ p.sock[i].req \in Fd /\ p.fd[p.sock[i].req] = End("req", p.sock[i].chan)
               /\ p.sock[i].repl \in Fd /\ p.fd[p.sock[i].repl] = End("repl", p.sock[i].chan)
    BY <2>1, <2>2, InOrder
  <2>3. ASSUME NEW i \in Slot, NEW j \in Slot, i # j, p.sock[i].used, p.sock[j].used
        PROVE  p.sock[i].chan # p.sock[j].chan /\ p.sock[i].repl # p.sock[j].repl
    <3>1. p.sock[i].repl # p.sock[j].repl
      BY <2>1, <2>3, OneSlot
    <3> QED
      BY <2>1, <2>3, <3>1 DEF Sound
  <2> QED
    BY <2>2, <2>3 DEF TableMatchesKernel
<1> QED
  BY <1>1, Invariance, PTL

(* What the program was given is what it takes it for: a connection is one, and
   the number it listens on is none. *)
THEOREM CallerRight == Spec => []CallersView
<1>1. IInv => CallersView
  <2> SUFFICES ASSUME IInv, NEW f \in Fd
               PROVE  /\ role[f] = "conn" =>
                           \E i \in lookup(p, f) : p.chan[p.sock[i].chan] = "conn"
                                                   /\ ~p.sock[i].listening
                      /\ role[f] = "listener" =>
                           \A i \in lookup(p, f) :
                             p.chan[p.sock[i].chan] = "conn" => p.sock[i].listening
    BY DEF CallersView
  <2>1. Known(p, role, at)
    BY DEF IInv
  <2>2. ASSUME role[f] = "conn"
        PROVE  \E i \in lookup(p, f) : p.chan[p.sock[i].chan] = "conn"
                                       /\ ~p.sock[i].listening
    <3>1. Connection(p, f)
      BY <2>1, <2>2 DEF Known
    <3> QED
      BY <3>1 DEF Connection, lookup
  <2>3. ASSUME role[f] = "listener", NEW i \in lookup(p, f), p.chan[p.sock[i].chan] = "conn"
        PROVE  p.sock[i].listening
    <3>1. p.sock[i].repl = f /\ SlotKnown(p, role, at, i)
      BY <2>1, Behind
    <3> QED
      BY <2>3, <3>1 DEF SlotKnown
  <2> QED
    BY <2>2, <2>3
<1> QED
  BY <1>1, Invariance, PTL

(* Every channel descriptor is a socket's, or one of the two exceptions. *)
THEOREM NoLeak == Spec => []NothingLeaks
<1>1. IInv => NothingLeaks
  <2> SUFFICES ASSUME IInv, NEW f \in Fd, p.fd[f].kind \in {"req", "repl"},
                      p.chan[p.fd[f].chan] # "half",
                      \A i \in Slot : p.sock[i].used =>
                         f # p.sock[i].req /\ f # p.sock[i].repl
               PROVE  p.fd[f].kind = "repl" /\ role[f] = "listener"
    BY DEF NothingLeaks
  <2>1. f \in Stray(p, {})
    BY DEF Stray
  <2> QED
    BY <2>1 DEF IInv, Known
<1> QED
  BY <1>1, Invariance, PTL
=============================================================================
