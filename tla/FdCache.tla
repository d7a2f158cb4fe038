------------------------------- MODULE FdCache -------------------------------
(***************************************************************************)
(* The inet daemon's descriptor budget: admission of client channels       *)
(* (net/inet/coh_sr.c sr_accept, sr_refuse, the end of sr_chan_req) over   *)
(* the cache of reply-FIFO descriptors (net/inet/coh_fdc.c).               *)
(*                                                                         *)
(* A channel costs the daemon one permanent descriptor, its request FIFO.  *)
(* Its reply FIFO is opened by path when there is something to write, and  *)
(* the descriptor is kept only while descriptors are spare.  The daemon is *)
(* single-threaded, so each of its handlers is one action; the clients run *)
(* beside it and announce, close or die between any two of them.           *)
(*                                                                         *)
(* A client stands for the pair of FIFOs it makes in ichan_open().  A      *)
(* descriptor is represented by the client whose FIFO it is open on.       *)
(***************************************************************************)
EXTENDS Integers, Sequences, FiniteSets

CONSTANTS
  FDC_NCHAN,   \* slots in the channel table (coh_fdc.h FDC_NCHAN)
  NDesc,       \* NOFILE less the descriptors the daemon holds for ever
  StampMod,    \* fdc_stamp is a long: it counts modulo StampMod, signed
  Client,      \* channels clients may ask for
  NoFd         \* "no descriptor", and "no path"

Chan == 0 .. FDC_NCHAN - 1

ASSUME NchanAssumption == FDC_NCHAN \in Nat \ {0}
ASSUME NDescAssumption == NDesc \in Nat \ {0}
ASSUME StampAssumption == StampMod \in Nat \ {0}
ASSUME NoFdAssumption == NoFd \notin Client

VARIABLES
  reqfd,    \* sr_chans[i].src_reqfd while src_inuse, else NoFd
  active,   \* fdc_chans[i].fc_active
  path,     \* fdc_chans[i].fc_path
  held,     \* fdc_chans[i].fc_fd: whose reply FIFO it is open on, or NoFd
  use,      \* fdc_chans[i].fc_use
  stamp,    \* fdc_stamp
  rv,       \* the rendezvous FIFO: hellos not yet read
  client,   \* what each client is doing
  linked,   \* clients whose reply FIFO still has its name in /tmp
  lost,     \* clients the daemon could not write a reply to
  blocked   \* the daemon sleeps for ever in open() of a FIFO

tables == <<reqfd, active, path, held, use, stamp>>
world == <<rv, client, linked, lost, blocked>>
vars == <<tables, world>>

(* What a client is doing:
     "new"      has not called ichan_open
     "waiting"  has announced itself and reads the reply to its NWR_OPEN
     "open"     was admitted
     "refused"  was answered ENFILE and has still to run ichan_giveup
     "closed"   ran ichan_close or ichan_giveup
     "dead"     exited, or was killed, without either, after an answer
     "orphan"   the same, before any answer *)
ClientState ==
  {"new", "waiting", "open", "refused", "closed", "dead", "orphan"}

(* The slots of a table that have a descriptor. *)
Filled(t) == {i \in Chan : t[i] # NoFd}

(* Descriptors the kernel would still give the daemon. *)
Free(r, h) == NDesc - Cardinality(Filled(r)) - Cardinality(Filled(h))

(* The client at the other end still has its FIFOs open. *)
Alive(c) == client[c] \in {"waiting", "open", "refused"}

-----------------------------------------------------------------------------
(* coh_fdc.c *)

(* fdc_free(): what dup() gives before it fails, at most FDC_NCHAN + 4. *)
fdc_free(r, h) ==
  IF Free(r, h) > FDC_NCHAN + 4 THEN FDC_NCHAN + 4 ELSE Free(r, h)

fdc_held(h) == Cardinality(Filled(h))

(* The slots fdc_evict(except) would choose: held, not `except', and the
   first of those least recently written. *)
OldestExcept(h, except) ==
  {v \in Filled(h) \ except :
     \A w \in Filled(h) \ except :
        use[v] < use[w] \/ (use[v] = use[w] /\ v <= w)}

(* fdc_evict(): the descriptor tables it can leave; none when nothing is
   there to close. *)
fdc_evict(h, except) ==
  {[h EXCEPT ![v] = NoFd] : v \in OldestExcept(h, except)}

(* fdc_spare() returning 0: nothing free and nothing held. *)
SpareFails(r, h) == fdc_free(r, h) <= 0 /\ Filled(h) = {}

(* fdc_spare() returning 1: the table once a descriptor is free for the
   caller's own open. *)
fdc_spare(r, h) == IF fdc_free(r, h) > 0 THEN {h} ELSE fdc_evict(h, {})

(* Counting the last descriptor as room: the deadlock the code warns of. *)
GreedyRoom(r, h) == fdc_free(r, h) + fdc_held(h) >= 1

(* Not counting held descriptors as reclaimable. *)
TimidRoom(r, h) == fdc_free(r, h) >= 2

fdc_room(r, h) == fdc_free(r, h) + fdc_held(h) >= 2

ActiveSlots == {i \in Chan : active[i]}

(* A ceiling that forgets the descriptor kept back for replies. *)
BoastfulCeiling ==
  LET n == Cardinality(ActiveSlots) + fdc_free(reqfd, held) + fdc_held(held)
  IN  IF n > FDC_NCHAN THEN FDC_NCHAN ELSE n

fdc_ceiling ==
  LET n == Cardinality(ActiveSlots) + fdc_free(reqfd, held)
           + fdc_held(held) - 1
  IN  IF n > FDC_NCHAN THEN FDC_NCHAN ELSE n

(* The values of a signed counter of that width. *)
Stamps == (-StampMod) .. (StampMod - 1)

(* A stamp that runs past the width of its type. *)
StampPastMax == stamp + 1

(* ++fdc_stamp on a signed long. *)
NextStamp == ((stamp + 1 + StampMod) % (2 * StampMod)) - StampMod

(* fdc_fd(i) failing: no such path, or nothing free and nothing to evict.
   A failed open of an unlinked path still costs one other channel its
   cached descriptor. *)
OpenFails(i) ==
  /\ held[i] = NoFd
  /\ \/ path[i] \notin linked
     \/ Free(reqfd, held) = 0 /\ Filled(held) \ {i} = {}

(* fdc_fd(i) when open() fails for good: what the cache is left holding. *)
AfterFailure(i) ==
  IF Filled(held) \ {i} = {} THEN {held} ELSE fdc_evict(held, {i})

(* fdc_fd(i) giving a descriptor: cached, opened, or opened after one
   eviction. *)
AfterSuccess(i) ==
  IF held[i] # NoFd THEN {held}
  ELSE {[h EXCEPT ![i] = path[i]] :
          h \in IF Free(reqfd, held) > 0 THEN {held}
                                         ELSE fdc_evict(held, {i})}

(* Opening without evicting anyone when the descriptors have run out. *)
OpenOnly(i) ==
  /\ active[i]
  /\ IF held[i] # NoFd \/ (path[i] \in linked /\ Free(reqfd, held) > 0)
     THEN /\ held' = IF held[i] # NoFd THEN held
                                       ELSE [held EXCEPT ![i] = path[i]]
          /\ stamp' = NextStamp
          /\ use' = [use EXCEPT ![i] = NextStamp]
          /\ UNCHANGED lost
     ELSE /\ lost' = lost \cup {path[i]}
          /\ UNCHANGED <<held, use, stamp>>

(* Writing one reply on channel i: fdc_fd(i), and the write() on what it
   returned.  A write on -1 reaches nobody. *)
fdc_fd(i) ==
  /\ active[i]
  /\ IF OpenFails(i)
     THEN /\ held' \in AfterFailure(i)
          /\ lost' = lost \cup {path[i]}
          /\ UNCHANGED <<use, stamp>>
     ELSE /\ held' \in AfterSuccess(i)
          /\ stamp' = NextStamp
          /\ use' = [use EXCEPT ![i] = NextStamp]
          /\ UNCHANGED lost

(* fdc_hold(i, c), from a cache that holds h. *)
fdc_hold(i, c, h) ==
  /\ held' = [h EXCEPT ![i] = NoFd]
  /\ use' = [use EXCEPT ![i] = 0]
  /\ active' = [active EXCEPT ![i] = TRUE]
  /\ path' = [path EXCEPT ![i] = c]

-----------------------------------------------------------------------------
(* coh_sr.c *)

FreeSlots == {i \in Chan : reqfd[i] = NoFd}
FirstFree == {i \in FreeSlots : \A j \in FreeSlots : i <= j}

(* Going on without making sure of a descriptor for the refusal itself. *)
RefuseBlindly(c) ==
  /\ IF Free(reqfd, held) > 0
     THEN client' = [client EXCEPT ![c] = "refused"]
     ELSE UNCHANGED client
  /\ UNCHANGED <<reqfd, active, path, held, use, stamp, linked, lost, blocked>>

(* sr_refuse(): one ENFILE reply through a descriptor of its own.  Opened
   O_WRONLY: a reply FIFO whose reader has died puts the daemon to sleep. *)
sr_refuse(c) ==
  /\ IF SpareFails(reqfd, held)
     THEN UNCHANGED <<held, client, blocked>>
     ELSE /\ held' \in fdc_spare(reqfd, held)
          /\ IF Alive(c)
             THEN /\ client' = [client EXCEPT ![c] = "refused"]
                  /\ UNCHANGED blocked
             ELSE /\ blocked' = TRUE
                  /\ UNCHANGED client
  /\ UNCHANGED <<reqfd, active, path, use, stamp, linked, lost>>

(* The rest of sr_accept() for a client there is room for: open the request
   FIFO O_RDONLY, which sleeps if its writer has died, then fdc_hold(). *)
Admit(c) ==
  IF Alive(c)
  THEN /\ \E i \in FirstFree, h \in fdc_spare(reqfd, held) :
            /\ reqfd' = [reqfd EXCEPT ![i] = c]
            /\ fdc_hold(i, c, h)
       /\ client' = [client EXCEPT ![c] = "open"]
       /\ UNCHANGED <<stamp, linked, lost, blocked>>
  ELSE /\ held' \in fdc_spare(reqfd, held)
       /\ blocked' = TRUE
       /\ UNCHANGED <<reqfd, active, path, use, stamp, client, linked, lost>>

(* sr_accept(): take one hello and admit or refuse it. *)
sr_accept ==
  /\ ~blocked
  /\ rv # <<>>
  /\ rv' = Tail(rv)
  /\ IF \/ FreeSlots = {}
        \/ ~fdc_room(reqfd, held)
        \/ SpareFails(reqfd, held)
     THEN sr_refuse(Head(rv))
     ELSE Admit(Head(rv))

(* Any layer answering any channel. *)
Reply(i) ==
  /\ ~blocked
  /\ fdc_fd(i)
  /\ UNCHANGED <<reqfd, active, path, rv, client, linked, blocked>>

(* fdc_forget() without the unlink. *)
ForgetQuietly(i, h) ==
  /\ held' = [h EXCEPT ![i] = NoFd]
  /\ active' = [active EXCEPT ![i] = FALSE]
  /\ path' = [path EXCEPT ![i] = NoFd]
  /\ UNCHANGED linked

(* fdc_forget() that leaves the cached descriptor open. *)
ForgetHolding(i, h) ==
  /\ held' = h
  /\ active' = [active EXCEPT ![i] = FALSE]
  /\ path' = [path EXCEPT ![i] = NoFd]
  /\ linked' = linked \ {path[i]}

(* fdc_forget(i), from a cache that holds h. *)
fdc_forget(i, h) ==
  /\ held' = [h EXCEPT ![i] = NoFd]
  /\ active' = [active EXCEPT ![i] = FALSE]
  /\ path' = [path EXCEPT ![i] = NoFd]
  /\ linked' = linked \ {path[i]}

(* Taking a short read from a client that is still there for end of file. *)
EofTooSoon(i) ==
  /\ ~blocked
  /\ reqfd[i] # NoFd
  /\ reqfd' = [reqfd EXCEPT ![i] = NoFd]
  /\ fdc_forget(i, held)
  /\ UNCHANGED <<use, stamp, rv, client, lost, blocked>>

(* Never seeing end of file, as when the request FIFO is held O_RDWR. *)
NeverEof(i) == FALSE /\ UNCHANGED vars

(* sr_chan_req() at end of file: the client went without closing. *)
ChanEof(i) ==
  /\ ~blocked
  /\ reqfd[i] # NoFd
  /\ client[reqfd[i]] \in {"dead", "orphan"}
  /\ reqfd' = [reqfd EXCEPT ![i] = NoFd]
  /\ fdc_forget(i, held)
  /\ UNCHANGED <<use, stamp, rv, client, lost, blocked>>

(* sr_chan_req() on NWR_CLOSE: the reply, which may find the FIFO's name
   already gone, then the same clearing. *)
ChanClose(i) ==
  /\ ~blocked
  /\ reqfd[i] # NoFd
  /\ client[reqfd[i]] = "closed"
  /\ reqfd' = [reqfd EXCEPT ![i] = NoFd]
  /\ IF OpenFails(i)
     THEN /\ \E h \in AfterFailure(i) : fdc_forget(i, h)
          /\ lost' = lost \cup {path[i]}
          /\ UNCHANGED <<use, stamp>>
     ELSE /\ \E h \in AfterSuccess(i) : fdc_forget(i, h)
          /\ stamp' = NextStamp
          /\ use' = [use EXCEPT ![i] = NextStamp]
          /\ UNCHANGED lost
  /\ UNCHANGED <<rv, client, blocked>>

-----------------------------------------------------------------------------
(* The clients: inet_chan.c ichan_open, ichan_giveup, ichan_close, and a
   process that exits or is killed.  *)

ichan_open(c) ==
  /\ client[c] = "new"
  /\ client' = [client EXCEPT ![c] = "waiting"]
  /\ linked' = linked \cup {c}
  /\ rv' = Append(rv, c)
  /\ UNCHANGED <<tables, lost, blocked>>

ichan_giveup(c) ==
  /\ client[c] = "refused"
  /\ client' = [client EXCEPT ![c] = "closed"]
  /\ linked' = linked \ {c}
  /\ UNCHANGED <<tables, rv, lost, blocked>>

ichan_close(c) ==
  /\ client[c] = "open"
  /\ client' = [client EXCEPT ![c] = "closed"]
  /\ linked' = linked \ {c}
  /\ UNCHANGED <<tables, rv, lost, blocked>>

Die(c) ==
  /\ client[c] \in {"waiting", "open", "refused"}
  /\ client' = [client EXCEPT
       ![c] = IF client[c] = "open" THEN "dead" ELSE "orphan"]
  /\ UNCHANGED <<tables, rv, linked, lost, blocked>>

(* Another process asks for a channel under a name nothing refers to any
   more: pids come round, and ichan_open() unlinks before it makes FIFOs. *)
Again(c) ==
  /\ client[c] \in {"closed", "dead", "orphan"}
  /\ \A i \in Chan : reqfd[i] # c
  /\ \A k \in 1 .. Len(rv) : rv[k] # c
  /\ client' = [client EXCEPT ![c] = "new"]
  /\ linked' = linked \ {c}
  /\ lost' = lost \ {c}
  /\ UNCHANGED <<tables, rv, blocked>>

-----------------------------------------------------------------------------
(* fdc_init() and sr_init(). *)
Init ==
  /\ reqfd = [i \in Chan |-> NoFd]
  /\ active = [i \in Chan |-> FALSE]
  /\ path = [i \in Chan |-> NoFd]
  /\ held = [i \in Chan |-> NoFd]
  /\ use = [i \in Chan |-> 0]
  /\ stamp = 0
  /\ rv = <<>>
  /\ client = [c \in Client |-> "new"]
  /\ linked = {}
  /\ lost = {}
  /\ blocked = FALSE

Daemon ==
  \/ sr_accept
  \/ \E i \in Chan : Reply(i) \/ ChanEof(i) \/ ChanClose(i)

Clients ==
  \E c \in Client :
     ichan_open(c) \/ ichan_giveup(c) \/ ichan_close(c) \/ Die(c) \/ Again(c)

Next == Daemon \/ Clients

(* The main loop selects on the rendezvous FIFO and on every request FIFO and
   serves all that are readable, so no readable descriptor waits for ever. *)
Fairness ==
  /\ WF_vars(sr_accept)
  /\ \A i \in Chan : WF_vars(ChanEof(i)) /\ WF_vars(ChanClose(i))

Spec == Init /\ [][Next]_vars /\ Fairness

-----------------------------------------------------------------------------
(* Properties *)

Slot == Client \cup {NoFd}

(* Types of the daemon's two tables and of what surrounds them. *)
TypeOK ==
  /\ reqfd \in [Chan -> Slot]
  /\ active \in [Chan -> BOOLEAN]
  /\ path \in [Chan -> Slot]
  /\ held \in [Chan -> Slot]
  /\ use \in [Chan -> Stamps]
  /\ stamp \in Stamps
  /\ rv \in Seq(Client)
  /\ client \in [Client -> ClientState]
  /\ linked \subseteq Client
  /\ lost \subseteq Client
  /\ blocked \in BOOLEAN

(* The two tables, sr_chans and fdc_chans, speak of the same channels, and a
   cached descriptor is open on the reply FIFO of the slot's present
   occupant: a reply never goes down a former occupant's FIFO. *)
HeldIsOwn ==
  \A i \in Chan :
     /\ active[i] <=> reqfd[i] # NoFd
     /\ path[i] = reqfd[i]
     /\ held[i] \in {NoFd, path[i]}

(* The daemon never uses more descriptors than the kernel gives it. *)
Fits == Free(reqfd, held) >= 0

(* Every admitted channel can be answered: what is not spent on request FIFOs
   is at least one descriptor, free or held and so reclaimable.  This is the
   deadlock fdc_room() is there to avoid. *)
Answerable == Free(reqfd, held) + fdc_held(held) >= 1

(* What ties the clients to the tables: a channel belongs to a client that was
   admitted; a hello in the rendezvous FIFO is the only one of a client that
   has had no answer; a client that is still there has a reply FIFO to be
   found by name; and a reply was dropped only for a client that has gone. *)
Bookkeeping ==
  /\ \A i \in Chan :
        reqfd[i] # NoFd => client[reqfd[i]] \in {"open", "closed", "dead"}
  /\ \A k \in 1 .. Len(rv) : client[rv[k]] \in {"waiting", "orphan"}
  /\ \A j, k \in 1 .. Len(rv) : rv[j] = rv[k] => j = k
  /\ \A c \in Client : Alive(c) => c \in linked
  /\ \A c \in lost : client[c] \in {"closed", "dead"}

(* No reply is dropped for a client that is still there to read it. *)
NoReplyLost == \A c \in lost : client[c] \notin {"waiting", "open", "refused"}

(* What sr_ceiling() says at boot stays true whatever channels come and go:
   fdc_ceiling() does not depend on the channels there are. *)
CeilingStable ==
  fdc_ceiling = IF NDesc - 1 > FDC_NCHAN THEN FDC_NCHAN ELSE NDesc - 1

(* A client is refused only when the daemon really carries as many channels
   as fdc_ceiling() announced: admission is neither greedy nor timid. *)
RefusedOnlyWhenFull ==
  [][ \A c \in Client :
        client[c] # "refused" /\ client'[c] = "refused"
          => Cardinality(Filled(reqfd)) = fdc_ceiling ]_vars

(* The daemon owns the cleanup: a reply FIFO's name outlives its client only
   while a channel of the daemon still stands for it, or when the client died
   before it had been given one. *)
NamesTidied ==
  \A c \in linked :
     \/ client[c] \in {"waiting", "refused", "orphan"}
     \/ \E i \in Chan : path[i] = c

(* The daemon does not go to sleep for ever in open(): what sr_accept() says
   of the request FIFO ("there is a writer already and this open does not
   block"). *)
NeverBlocked == ~blocked

(* Every client that announces itself is admitted or refused, unless the
   daemon goes to sleep in open() first. *)
EveryHelloAnswered ==
  \A c \in Client : client[c] = "waiting" ~> client[c] # "waiting" \/ blocked

(* The channel of a client that closed or died is given back, with the same
   exception. *)
EveryChannelReclaimed ==
  \A i \in Chan :
     (reqfd[i] # NoFd /\ client[reqfd[i]] \in {"closed", "dead"})
        ~> reqfd[i] = NoFd \/ blocked

=============================================================================
