------------------------------ MODULE LibSocket ------------------------------
(***************************************************************************)
(* The socket library (net/libsocket.c): a table of sockets, each a channel *)
(* to the daemon and known to the program by the number of its reply       *)
(* descriptor, and accept(), which swaps two channels under that number.    *)
(*                                                                         *)
(* One process.  Between its calls, and while it is blocked in accept(),   *)
(* peers connect and the daemon reclaims channels nobody can write to.     *)
(* Every call that can fail may fail: for want of descriptors, of slots or *)
(* of channels, by a refusal of the daemon, an error or a signal.  The     *)
(* records that travel on a channel are the business of InetChannel; here  *)
(* a channel is what its layer has got to.                                 *)
(***************************************************************************)
EXTENDS Integers, FiniteSets, FiniteSetsExt

CONSTANTS
  NUFILE,    \* descriptors of the process
  MAXSOCK,   \* slots of the table
  Chans      \* channels the daemon will serve (its ceiling)

ASSUME SizesAssumption == NUFILE \in Nat \ {0} /\ MAXSOCK \in Nat \ {0}
ASSUME ChansAssumption == Chans \subseteq Nat \ {0} /\ IsFiniteSet(Chans)

VARIABLES
  p,      \* the process: its descriptors and its sockets; its channels
  at,     \* the descriptor accept() is blocked on, or -1
  role    \* what the program takes each descriptor for

vars == <<p, at, role>>

Fd == 0 .. NUFILE - 1
Slot == 1 .. MAXSOCK

(* What a descriptor can be open on: nothing, something of the program's, or
   one of a channel's FIFOs. *)
Closed == [kind |-> "none", chan |-> 0]
File == [kind |-> "file", chan |-> 0]
End(kind, c) == [kind |-> kind, chan |-> c]
FdVal == {Closed, File} \cup [kind : {"req", "repl"}, chan : Chans]

(* A channel's layer: not there, open, LISTEN outstanding, LISTEN answered and
   the answer not read, connected; or open, and the ichan_open() that asked for
   it was interrupted before it knew. *)
ChanState == {"none", "open", "listen", "ready", "conn", "half"}

(* struct sock; of a slot not in use it is all zero. *)
Sock == [used : BOOLEAN, chan : Chans \cup {0}, req : Fd \cup {-1},
         repl : Fd \cup {-1}, listening : BOOLEAN]

NoSock == [used |-> FALSE, chan |-> 0, req |-> -1, repl |-> -1, listening |-> FALSE]

(* What there is of the process: its descriptors, its table, its channels. *)
Process == [fd : [Fd -> FdVal], sock : [Slot -> Sock], chan : [Chans -> ChanState]]

-----------------------------------------------------------------------------
(* Kernel calls.  All these operators take and give the process. *)

Free(q) == {f \in Fd : q.fd[f] = Closed}

Lowest(q) == Min(Free(q))

rawopen(q, end) == [q EXCEPT !.fd[Lowest(q)] = end]

_rawclose(q, f) == IF f \in Fd THEN [q EXCEPT !.fd[f] = Closed] ELSE q

(* dup2(from, to), then close(from). *)
Move(q, from, to) == [q EXCEPT !.fd[to] = q.fd[from], !.fd[from] = Closed]

-----------------------------------------------------------------------------
(* The table *)

FreeSlots(q) == {i \in Slot : ~q.sock[i].used}

(* sockalloc(): the first free slot, zeroed. *)
sockalloc(q) == [q EXCEPT !.sock[Min(FreeSlots(q))] = [NoSock EXCEPT !.used = TRUE]]

(* Clearing the slot without the block behind it. *)
FreeSlotOnly(q, i) == [q EXCEPT !.sock[i].used = FALSE]

sockfree(q, i) == [q EXCEPT !.sock[i] = NoSock]

(* lookup(): the slots known by descriptor f; one at most. *)
lookup(q, f) == {i \in Slot : q.sock[i].used /\ q.sock[i].repl = f}

-----------------------------------------------------------------------------
(* The channel library, as far as descriptors go *)

Done(q) == [ok |-> TRUE, p |-> q]
Failed(q) == [ok |-> FALSE, p |-> q]

Unused(q) ==
  {c \in Chans : q.chan[c] = "none" /\ \A f \in Fd : q.fd[f].chan # c}

(* ichan_open(): two descriptors to keep and one, for the rendezvous, to give
   back.  A shortage of them, and a refusal, give back what was taken; an
   interrupted wait for the answer returns at once. *)
ichan_open(q, i) ==
  IF Cardinality(Free(q)) < 3 \/ Unused(q) = {} THEN {Failed(q)}
  ELSE LET c == Min(Unused(q))
           half == rawopen(q, End("req", c))
           whole == [rawopen(half, End("repl", c)) EXCEPT !.chan[c] = "open"]
       IN  {Done([whole EXCEPT !.sock[i].chan = c,
                               !.sock[i].req = Lowest(q),
                               !.sock[i].repl = Lowest(half)]),
            Failed(q),
            Failed([whole EXCEPT !.chan[c] = "half"])}

(* ichan_abort(): the channel goes back to the daemon, its reply descriptor
   stays. *)
ichan_abort(q, i) ==
  [_rawclose(q, q.sock[i].req) EXCEPT !.chan[q.sock[i].chan] = "none",
                                      !.sock[i].req = -1]

ichan_close(q, i) == _rawclose(ichan_abort(q, i), q.sock[i].repl)

-----------------------------------------------------------------------------
(* listen(), relisten(), acceptlost() and accept() *)

(* NWIOTCPLISTEN, posted. *)
Post(q, i) ==
  [q EXCEPT !.chan[q.sock[i].chan] = "listen", !.sock[i].listening = TRUE]

(* Forgetting the socket of a channel that could not be configured. *)
AbandonHalf(q, i) == sockfree(q, i)

(* Closing and freeing a channel that is not to be used after all. *)
Abandon(q, i) == sockfree(ichan_close(q, i), i)

(* relisten(): another listening channel, in slot i; the descriptor it is
   given is whichever is free.  Its configuration, or the post, may fail. *)
relisten(q) ==
  IF FreeSlots(q) = {} THEN {[ok |-> FALSE, p |-> q, i |-> 0]}
  ELSE LET i == Min(FreeSlots(q))
           opened == ichan_open(sockalloc(q), i)
           ok == {r \in opened : r.ok}
       IN  {[ok |-> FALSE, p |-> sockfree(r.p, i), i |-> 0] : r \in opened \ ok}
           \cup {[ok |-> TRUE, p |-> Post(r.p, i), i |-> i] : r \in ok}
           \cup {[ok |-> FALSE, p |-> Abandon(r.p, i), i |-> 0] : r \in ok}

(* Slot i's channel moves to the number s. *)
MoveTo(q, i, s) == [Move(q, q.sock[i].repl, s) EXCEPT !.sock[i].repl = s]

(* Handing the connection back on s. *)
KeepConnection(q, i, s) == {q}

(* acceptlost(): the connection in slot i is given up, and the number s, which
   stays open throughout, is given a new listener if there can be one and
   dup2() succeeds. *)
acceptlost(q, i, s) ==
  LET lost == [ichan_abort(q, i) EXCEPT !.sock[i].repl = -1,
                                        !.sock[i].listening = FALSE]
      tried == relisten(lost)
      ok == {r \in tried : r.ok}
  IN  {sockfree(r.p, i) : r \in tried \ ok}
      \cup {sockfree(MoveTo(r.p, r.i, s), i) : r \in ok}
      \cup {sockfree(Abandon(r.p, r.i), i) : r \in ok}

(* The swap with its two halves the other way round: dup2() closes its target,
   and its target is the connection. *)
SwapBackwards(q, i, n, s) ==
  LET moved == MoveTo(q, n, s)
      conn == Lowest(moved)
  IN  [p |-> [moved EXCEPT !.fd[conn] = moved.fd[q.sock[i].repl],
                           !.sock[i].repl = conn],
       ret |-> conn]

(* The swap: dup() the connection in slot i, then dup2() the listener in slot
   n onto s. *)
Swap(q, i, n, s) ==
  LET conn == Lowest(q)
      dup == [q EXCEPT !.fd[conn] = q.fd[q.sock[i].repl]]
  IN  [p |-> [MoveTo(dup, n, s) EXCEPT !.sock[i].repl = conn], ret |-> conn]

(* accept() from the moment slot i's LISTEN has been answered; ret is the
   number returned, or -1. *)
Accepted(q, i, s) ==
  LET Lost(r) == {[p |-> t, ret |-> -1] : t \in acceptlost(r, i, s)}
      After(r) ==
        IF ~r.ok THEN Lost(r.p)
        ELSE IF Free(r.p) = {} THEN Lost(Abandon(r.p, r.i))
        ELSE {Swap(r.p, i, r.i, s)} \cup Lost(Abandon(r.p, r.i))
  IN  UNION {After(r) : r \in relisten(q)}

-----------------------------------------------------------------------------
(* The program's calls *)

Idle == at = -1

socket ==
  /\ Idle
  /\ FreeSlots(p) # {}
  /\ LET i == Min(FreeSlots(p))
     IN  \E r \in ichan_open(sockalloc(p), i) :
           IF r.ok
           THEN p' = r.p /\ role' = [role EXCEPT ![r.p.sock[i].repl] = "socket"]
           ELSE p' = sockfree(r.p, i) /\ UNCHANGED role
  /\ UNCHANGED at

listen(s) ==
  /\ Idle
  /\ role[s] = "socket"
  /\ \E i \in lookup(p, s) : p' = Post(p, i)
  /\ role' = [role EXCEPT ![s] = "listener"]
  /\ UNCHANGED at

connect(s) ==
  /\ Idle
  /\ role[s] = "socket"
  /\ \E i \in lookup(p, s) : p' = [p EXCEPT !.chan[p.sock[i].chan] = "conn"]
  /\ role' = [role EXCEPT ![s] = "conn"]
  /\ UNCHANGED at

(* accept(), up to its wait; without a listen() it starts one.  Not called on
   what the program knows to be a connection. *)
accept(s) ==
  /\ Idle
  /\ role[s] \in {"socket", "listener"}
  /\ \E i \in lookup(p, s) : p' = IF p.sock[i].listening THEN p ELSE Post(p, i)
  /\ role' = [role EXCEPT ![s] = "listener"]
  /\ at' = s

(* The LISTEN is answered with success. *)
AcceptReturns ==
  /\ ~Idle
  /\ \E i \in lookup(p, at) :
       LET c == p.sock[i].chan
           q == [p EXCEPT !.chan[c] = "conn", !.sock[i].listening = FALSE]
       IN  /\ p.chan[c] = "ready"
           /\ \E r \in Accepted(q, i, at) :
                /\ p' = r.p
                /\ role' = IF r.ret = -1 THEN role
                           ELSE [role EXCEPT ![r.ret] = "conn"]
  /\ at' = -1

(* The wait ends in an error, and with it the LISTEN, or in a signal, and the
   LISTEN is cancelled; unless a peer connected just before the cancel, whose
   answer is then discarded. *)
AcceptFails ==
  /\ ~Idle
  /\ \E i \in lookup(p, at) :
       LET c == p.sock[i].chan
           Left(state) == p' = [p EXCEPT !.chan[c] = state]
       IN  \/ p.chan[c] = "listen" /\ (Left("open") \/ Left("conn"))
           \/ p.chan[c] \in {"open", "conn"} /\ UNCHANGED p
  /\ at' = -1
  /\ UNCHANGED role

(* close(): soclose() of a socket, the raw call of anything else. *)
close(f) ==
  /\ Idle
  /\ role[f] # "none"
  /\ p' = IF lookup(p, f) = {} THEN _rawclose(p, f)
          ELSE Abandon(p, CHOOSE i \in lookup(p, f) : TRUE)
  /\ role' = [role EXCEPT ![f] = "none"]
  /\ UNCHANGED at

(* sockdrop(): let go without closing. *)
sockdrop(f) ==
  /\ Idle
  /\ role[f] # "none"
  /\ \E i \in lookup(p, f) :
       p' = sockfree(_rawclose(_rawclose(p, p.sock[i].req), f), i)
  /\ role' = [role EXCEPT ![f] = "none"]
  /\ UNCHANGED at

(* Any other descriptor the program opens. *)
OpenFile ==
  /\ Idle
  /\ Free(p) # {}
  /\ role' = [role EXCEPT ![Lowest(p)] = "file"]
  /\ p' = rawopen(p, File)
  /\ UNCHANGED at

(* Somebody connects to a listening channel. *)
Peer(c) ==
  /\ p.chan[c] = "listen"
  /\ p' = [p EXCEPT !.chan[c] = "ready"]
  /\ UNCHANGED <<at, role>>

(* The daemon sees end of file on a request FIFO nobody holds. *)
Reap(c) ==
  /\ p.chan[c] # "none"
  /\ \A f \in Fd : p.fd[f] # End("req", c)
  /\ p' = [p EXCEPT !.chan[c] = "none"]
  /\ UNCHANGED <<at, role>>

Init ==
  /\ p = [fd |-> [f \in Fd |-> Closed], sock |-> [i \in Slot |-> NoSock],
          chan |-> [c \in Chans |-> "none"]]
  /\ at = -1
  /\ role = [f \in Fd |-> "none"]

Next ==
  \/ socket \/ AcceptReturns \/ AcceptFails \/ OpenFile
  \/ \E f \in Fd : listen(f) \/ connect(f) \/ accept(f) \/ close(f) \/ sockdrop(f)
  \/ \E c \in Chans : Peer(c) \/ Reap(c)

Spec == Init /\ [][Next]_vars

-----------------------------------------------------------------------------
(* Properties *)

(* Types; the slot and the block behind it go together. *)
TypeOK ==
  /\ p \in Process
  /\ \A i \in Slot : p.sock[i].used \/ p.sock[i] = NoSock
  /\ at \in Fd \cup {-1}
  /\ role \in [Fd -> {"none", "file", "socket", "listener", "conn"}]

(* The table says what the kernel has: each socket's two numbers are open on
   the two FIFOs of its own channel, no two sockets share a channel or a
   number, and a slot not in use names nothing.  accept()'s dup and dup2, and
   the recoveries of acceptlost(), leave it so however they end. *)
TableMatchesKernel ==
  /\ \A i \in Slot : p.sock[i].used =>
       /\ p.sock[i].req \in Fd /\ p.fd[p.sock[i].req] = End("req", p.sock[i].chan)
       /\ p.sock[i].repl \in Fd /\ p.fd[p.sock[i].repl] = End("repl", p.sock[i].chan)
  /\ \A i, j \in Slot : i # j /\ p.sock[i].used /\ p.sock[j].used =>
       p.sock[i].chan # p.sock[j].chan /\ p.sock[i].repl # p.sock[j].repl

(* What the program takes a number for is what it is: a connection accept() or
   connect() gave it is a connected channel, and the number it listens on is
   no connection: at worst nothing is behind it and every call on it answers
   EBADF, or a signal cancelled the LISTEN as a peer connected and s_listening,
   still set, keeps the library from taking it for one. *)
CallersView ==
  \A f \in Fd :
    /\ role[f] = "conn" =>
         \E i \in lookup(p, f) : p.chan[p.sock[i].chan] = "conn"
                                 /\ ~p.sock[i].listening
    /\ role[f] = "listener" =>
         \A i \in lookup(p, f) :
           p.chan[p.sock[i].chan] = "conn" => p.sock[i].listening

(* libsocket.c: a struct sock "exists for exactly as long as its socket is
   open".  Every channel descriptor of the process is some socket's, however
   accept(), relisten() and acceptlost() fail, but for the number of a lost
   listener, which the program still holds, and for the two descriptors of an
   interrupted ichan_open(). *)
NothingLeaks ==
  \A f \in Fd :
    p.fd[f].kind \in {"req", "repl"} =>
      \/ p.chan[p.fd[f].chan] = "half"
      \/ \E i \in Slot : p.sock[i].used /\ f \in {p.sock[i].req, p.sock[i].repl}
      \/ p.fd[f].kind = "repl" /\ role[f] = "listener"

(* libsocket.c, of s_listening: "a LISTEN ioctl is outstanding"; so that the
   wait of the next accept() has something to wait for. *)
ListeningIsOutstanding ==
  \A i \in Slot : p.sock[i].listening => p.chan[p.sock[i].chan] \in {"listen", "ready"}
=============================================================================
