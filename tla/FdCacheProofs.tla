---------------------------- MODULE FdCacheProofs ----------------------------
(***************************************************************************)
(* Proofs about FdCache, for every table size, every number of             *)
(* descriptors and every set of clients.                                   *)
(***************************************************************************)
EXTENDS FdCache, FiniteSetTheorems, TLAPS

(* The inductive invariant: the budget cannot be kept without knowing that
   both tables list the same channels, nor a reply be written without
   knowing that the client's FIFO still has its name. *)
IInv == TypeOK /\ HeldIsOwn /\ Fits /\ Answerable /\ Bookkeeping

-----------------------------------------------------------------------------
(* The stamp stays within its type, wrap-around included. *)
LEMMA NextStampType ==
  ASSUME stamp \in Stamps
  PROVE  NextStamp \in Stamps
<1> DEFINE m == 2 * StampMod
<1> DEFINE a == stamp + 1 + StampMod
<1>1. m \in Nat /\ m > 0 /\ a \in Int /\ m = StampMod + StampMod
  BY StampAssumption DEF Stamps
<1>2. \A x \in Int, n \in Nat : n > 0 => x % n \in 0 .. (n - 1)
  OBVIOUS
<1>3. a % m \in 0 .. (m - 1)
  BY <1>1, <1>2
<1>4. NextStamp = (a % m) - StampMod
  BY DEF NextStamp
<1> HIDE DEF a
<1>5. QED
  BY <1>1, <1>3, <1>4, StampAssumption DEF Stamps

(* What fdc_hold() and fdc_init() start a slot's stamp at. *)
LEMMA ZeroStamp == 0 \in Stamps
  BY StampAssumption DEF Stamps

(* A table of the daemon has finitely many descriptors, at most one a slot. *)
LEMMA FilledFinite ==
  ASSUME NEW t
  PROVE  /\ IsFiniteSet(Filled(t))
         /\ Cardinality(Filled(t)) \in Nat
         /\ Cardinality(Filled(t)) <= FDC_NCHAN
         /\ Filled(t) = Chan => Cardinality(Filled(t)) = FDC_NCHAN
<1>1. IsFiniteSet(Chan) /\ Cardinality(Chan) = FDC_NCHAN
  BY FS_Interval, NchanAssumption DEF Chan
<1>2. Filled(t) \in SUBSET Chan
  BY DEF Filled
<1>3. QED
  BY <1>1, <1>2, FS_Subset, FS_CardinalityType

(* Closing the descriptor of a slot: fdc_evict, fdc_forget, fdc_hold. *)
LEMMA FilledClear ==
  ASSUME NEW t \in [Chan -> Slot], NEW i \in Chan
  PROVE  LET u == [t EXCEPT ![i] = NoFd]
         IN  /\ u \in [Chan -> Slot]
             /\ Cardinality(Filled(u)) =
                  IF i \in Filled(t) THEN Cardinality(Filled(t)) - 1
                                     ELSE Cardinality(Filled(t))
<1>1. [t EXCEPT ![i] = NoFd] \in [Chan -> Slot]
  BY DEF Slot
<1>2. Filled([t EXCEPT ![i] = NoFd]) = Filled(t) \ {i}
  BY DEF Filled
<1>3. QED
  BY <1>1, <1>2, FilledFinite, FS_RemoveElement

(* Opening a descriptor in an empty slot: the request FIFO of a new channel,
   the reply FIFO of an old one. *)
LEMMA FilledSet ==
  ASSUME NEW t \in [Chan -> Slot], NEW i \in Chan, NEW c \in Client,
         t[i] = NoFd
  PROVE  LET u == [t EXCEPT ![i] = c]
         IN  /\ u \in [Chan -> Slot]
             /\ Cardinality(Filled(u)) = Cardinality(Filled(t)) + 1
<1>1. [t EXCEPT ![i] = c] \in [Chan -> Slot]
  BY DEF Slot
<1>2. Filled([t EXCEPT ![i] = c]) = Filled(t) \cup {i}
  BY NoFdAssumption DEF Filled
<1>3. i \notin Filled(t)
  BY DEF Filled
<1>4. QED
  BY <1>1, <1>2, <1>3, FilledFinite, FS_AddElement

(* fdc_evict() closes exactly one descriptor and changes nothing else. *)
LEMMA EvictOne ==
  ASSUME NEW h \in [Chan -> Slot], NEW except, NEW u \in fdc_evict(h, except)
  PROVE  /\ u \in [Chan -> Slot]
         /\ \E v \in Filled(h) \ except : u = [h EXCEPT ![v] = NoFd]
         /\ \A i \in Chan : u[i] \in {NoFd, h[i]}
         /\ Cardinality(Filled(u)) = Cardinality(Filled(h)) - 1
<1>1. PICK v \in Filled(h) \ except : u = [h EXCEPT ![v] = NoFd]
  BY DEF fdc_evict, OldestExcept
<1>2. v \in Chan /\ v \in Filled(h)
  BY <1>1 DEF Filled
<1>3. \A i \in Chan : u[i] \in {NoFd, h[i]}
  BY <1>1, <1>2
<1>4. QED
  BY <1>1, <1>2, <1>3, FilledClear

(* fdc_spare(), when it succeeds: at most one descriptor given up, none
   gained, and one is free afterwards. *)
LEMMA SpareOne ==
  ASSUME NEW r \in [Chan -> Slot], NEW h \in [Chan -> Slot],
         Free(r, h) >= 0, NEW u \in fdc_spare(r, h)
  PROVE  /\ u \in [Chan -> Slot]
         /\ \A i \in Chan : u[i] \in {NoFd, h[i]}
         /\ Cardinality(Filled(u)) <= Cardinality(Filled(h))
         /\ Free(r, u) >= 1
<1>1. /\ Cardinality(Filled(r)) \in Nat
      /\ Cardinality(Filled(h)) \in Nat
      /\ Cardinality(Filled(u)) \in Nat
  BY FilledFinite
<1>2. CASE fdc_free(r, h) > 0
  <2>1. u = h
    BY <1>2 DEF fdc_spare
  <2>2. Free(r, h) >= 1
    BY <1>1, <1>2, NDescAssumption, NchanAssumption DEF fdc_free, Free
  <2>3. QED
    BY <1>1, <2>1, <2>2
<1>3. CASE ~(fdc_free(r, h) > 0)
  <2>1. u \in fdc_evict(h, {})
    BY <1>3 DEF fdc_spare
  <2>2. QED
    BY <1>1, <2>1, EvictOne, NDescAssumption DEF Free
<1>4. QED
  BY <1>2, <1>3

(* Taking a descriptor back for channel i leaves the other channels theirs
   and one descriptor free. *)
LEMMA EvictFor ==
  ASSUME IInv, NEW i \in Chan, NEW u \in fdc_evict(held, {i})
  PROVE  /\ u \in [Chan -> Slot]
         /\ \A j \in Chan : u[j] \in {NoFd, path[j]}
         /\ u[i] \in {NoFd, held[i]}
         /\ Free(reqfd, u) >= 1
<1> USE DEF IInv, TypeOK, HeldIsOwn
<1>1. /\ Cardinality(Filled(reqfd)) \in Nat
      /\ Cardinality(Filled(held)) \in Nat
  BY FilledFinite
<1>2. /\ u \in [Chan -> Slot]
      /\ \A j \in Chan : u[j] \in {NoFd, held[j]}
      /\ Cardinality(Filled(u)) = Cardinality(Filled(held)) - 1
  BY EvictOne
<1>3. Free(reqfd, u) >= 1
  BY <1>1, <1>2, NDescAssumption DEF Free, Fits
<1>4. QED
  BY <1>2, <1>3

(* The cache after fdc_fd(i) has failed still holds only its own channels'
   FIFOs and still fits. *)
LEMMA FailureFits ==
  ASSUME IInv, NEW i \in Chan, NEW h \in AfterFailure(i)
  PROVE  /\ h \in [Chan -> Slot]
         /\ \A j \in Chan : h[j] \in {NoFd, path[j]}
         /\ Free(reqfd, h) >= 0
<1> USE DEF IInv, TypeOK, HeldIsOwn
<1>1. h = held \/ h \in fdc_evict(held, {i})
  BY DEF AfterFailure
<1>2. CASE h = held
  BY <1>2 DEF Fits
<1>3. CASE h \in fdc_evict(held, {i})
  <2>1. Free(reqfd, h) \in Int
    BY FilledFinite, NDescAssumption DEF Free
  <2>2. QED
    BY <1>3, <2>1, EvictFor
<1>4. QED
  BY <1>1, <1>2, <1>3

(* The same after fdc_fd(i) has found a descriptor. *)
LEMMA SuccessFits ==
  ASSUME IInv, NEW i \in Chan, active[i], NEW h \in AfterSuccess(i)
  PROVE  /\ h \in [Chan -> Slot]
         /\ \A j \in Chan : h[j] \in {NoFd, path[j]}
         /\ Free(reqfd, h) >= 0
<1> USE DEF IInv, TypeOK, HeldIsOwn
<1>1. CASE held[i] # NoFd
  BY <1>1 DEF AfterSuccess, Fits
<1>2. CASE held[i] = NoFd
  <2>1. PICK u \in {held} \cup fdc_evict(held, {i}) :
           /\ h = [u EXCEPT ![i] = path[i]]
           /\ \/ u = held /\ Free(reqfd, held) > 0
              \/ u \in fdc_evict(held, {i})
    BY <1>2 DEF AfterSuccess
  <2>2. /\ Cardinality(Filled(reqfd)) \in Nat
        /\ Cardinality(Filled(u)) \in Nat
    BY FilledFinite
  <2>3. /\ u \in [Chan -> Slot]
        /\ u[i] = NoFd
        /\ \A j \in Chan : u[j] \in {NoFd, path[j]}
        /\ Free(reqfd, u) >= 1
    <3>1. CASE u = held /\ Free(reqfd, held) > 0
      BY <3>1, <1>2, <2>2, NDescAssumption DEF Free
    <3>2. CASE u \in fdc_evict(held, {i})
      BY <3>2, <1>2, EvictFor
    <3>3. QED
      BY <2>1, <3>1, <3>2
  <2>4. path[i] \in Client
    BY DEF Slot
  <2>5. /\ h \in [Chan -> Slot]
        /\ Cardinality(Filled(h)) = Cardinality(Filled(u)) + 1
    <3>1. h = [u EXCEPT ![i] = path[i]]
      BY <2>1
    <3> HIDE DEF IInv, TypeOK, HeldIsOwn
    <3>2. QED
      BY <2>3, <2>4, <3>1, FilledSet
  <2>6. Free(reqfd, h) >= 0
    BY <2>2, <2>3, <2>5, NDescAssumption DEF Free
  <2>7. \A j \in Chan : h[j] \in {NoFd, path[j]}
    BY <2>1, <2>3
  <2>8. QED
    BY <2>5, <2>6, <2>7
<1>3. QED
  BY <1>1, <1>2

(* What Answerable says in numbers: the request FIFOs alone leave one
   descriptor over. *)
LEMMA AnswerableMeans ==
  ASSUME NEW r, NEW h
  PROVE  /\ Free(r, h) + fdc_held(h) = NDesc - Cardinality(Filled(r))
         /\ Free(r, h) \in Int
         /\ fdc_held(h) \in Nat
BY FilledFinite, NDescAssumption DEF Free, fdc_held

(* fdc_fd(i) never fails while the channel's client is there: its FIFO has
   a name, and a descriptor is free or can be taken back from another. *)
LEMMA ReplyReaches ==
  ASSUME IInv, NEW i \in Chan, active[i], OpenFails(i)
  PROVE  client[path[i]] \in {"closed", "dead"}
<1> USE DEF IInv, TypeOK, HeldIsOwn
<1>1. path[i] \in Client /\ client[path[i]] \in {"open", "closed", "dead"}
  BY DEF Slot, Bookkeeping
<1>2. CASE path[i] \notin linked
  BY <1>1, <1>2 DEF Bookkeeping, Alive
<1>3. CASE Free(reqfd, held) = 0 /\ Filled(held) \ {i} = {}
  <2>1. held[i] = NoFd
    BY DEF OpenFails
  <2>2. Filled(held) = {}
    BY <1>3, <2>1 DEF Filled
  <2>3. Cardinality(Filled(held)) = 0
    BY <2>2, FS_EmptySet
  <2>4. Cardinality(Filled(reqfd)) \in Nat
    BY FilledFinite
  <2>5. QED
    BY <1>3, <2>3, <2>4, NDescAssumption DEF Answerable, Free, fdc_held
<1>4. QED
  BY <1>2, <1>3 DEF OpenFails

-----------------------------------------------------------------------------
(* Preservation, one lemma per action. *)

(* Answering a channel keeps the invariant. *)
LEMMA ReplyKeeps ==
  ASSUME IInv, NEW i \in Chan, Reply(i)
  PROVE  IInv'
<1> USE DEF IInv, TypeOK, HeldIsOwn, Reply, fdc_fd
<1>1. path[i] \in Client
  BY DEF Slot
<1>2. NextStamp \in Stamps
  BY NextStampType
<1>3. OpenFails(i) => held' \in AfterFailure(i)
  OBVIOUS
<1>4. ~OpenFails(i) => held' \in AfterSuccess(i)
  OBVIOUS
<1>6. /\ held' \in [Chan -> Slot]
      /\ \A j \in Chan : held'[j] \in {NoFd, path[j]}
      /\ Free(reqfd, held') >= 0
  <2>1. CASE OpenFails(i)
    BY <2>1, <1>3, FailureFits
  <2>2. CASE ~OpenFails(i)
    BY <2>2, <1>4, SuccessFits
  <2>3. QED
    BY <2>1, <2>2
<1>7. lost' \subseteq Client /\ \A c \in lost' : client[c] \in {"closed", "dead"}
  BY <1>1, ReplyReaches DEF Bookkeeping
<1>8. TypeOK'
  BY <1>2, <1>6, <1>7
<1>9. HeldIsOwn'
  BY <1>6
<1>10. Fits'
  BY <1>6 DEF Fits
<1>11. Answerable'
  BY AnswerableMeans DEF Answerable
<1>12. Bookkeeping'
  BY <1>7 DEF Bookkeeping, Alive
<1>13. QED
  BY <1>8, <1>9, <1>10, <1>11, <1>12

(* Clearing a channel whose client has gone keeps the invariant, whatever
   the cache h was left by the reply before it. *)
LEMMA ForgetKeeps ==
  ASSUME IInv, NEW i \in Chan, reqfd[i] # NoFd,
         client[reqfd[i]] \in {"closed", "dead", "orphan"},
         NEW h \in [Chan -> Slot],
         \A j \in Chan : h[j] \in {NoFd, path[j]},
         Free(reqfd, h) >= 0,
         fdc_forget(i, h),
         reqfd' = [reqfd EXCEPT ![i] = NoFd],
         use' \in [Chan -> Stamps], stamp' \in Stamps,
         lost' = lost \/ lost' = lost \cup {path[i]},
         UNCHANGED <<rv, client, blocked>>
  PROVE  IInv'
<1> USE DEF IInv, TypeOK, HeldIsOwn, fdc_forget
<1>1. path[i] = reqfd[i] /\ path[i] \in Client
  BY DEF Slot
<1>2. client[path[i]] \in {"closed", "dead"}
  BY <1>1 DEF Bookkeeping
<1>3. /\ reqfd' \in [Chan -> Slot]
      /\ Cardinality(Filled(reqfd')) = Cardinality(Filled(reqfd)) - 1
  <2>1. i \in Filled(reqfd)
    BY DEF Filled
  <2>2. QED
    BY <2>1, FilledClear
<1>4. /\ held' \in [Chan -> Slot]
      /\ Cardinality(Filled(held')) <= Cardinality(Filled(h))
  <2>1. Cardinality(Filled(h)) \in Nat
    BY FilledFinite
  <2>2. held' = [h EXCEPT ![i] = NoFd]
    OBVIOUS
  <2>3. /\ held' \in [Chan -> Slot]
        /\ Cardinality(Filled(held')) =
             IF i \in Filled(h) THEN Cardinality(Filled(h)) - 1
                                ELSE Cardinality(Filled(h))
    BY ONLY <2>2, FilledClear, h \in [Chan -> Slot], i \in Chan
  <2>4. QED
    BY <2>1, <2>3
<1>5. /\ Cardinality(Filled(reqfd)) \in Nat
      /\ Cardinality(Filled(h)) \in Nat
      /\ Cardinality(Filled(reqfd')) \in Nat
      /\ Cardinality(Filled(held')) \in Nat
  BY FilledFinite
<1>6. TypeOK'
  BY <1>1, <1>3, <1>4 DEF Slot
<1>7. HeldIsOwn'
  OBVIOUS
<1>8. Fits'
  BY <1>3, <1>4, <1>5, NDescAssumption DEF Fits, Free
<1>9. Answerable'
  BY <1>3, <1>5, AnswerableMeans, NDescAssumption DEF Answerable
<1>10. Bookkeeping'
  <2>1. \A c \in lost' : client'[c] \in {"closed", "dead"}
    BY <1>2 DEF Bookkeeping
  <2>2. \A c \in Client : Alive(c)' => c \in linked'
    BY <1>2 DEF Bookkeeping, Alive
  <2>3. QED
    BY <2>1, <2>2 DEF Bookkeeping
<1>11. QED
  BY <1>6, <1>7, <1>8, <1>9, <1>10

(* End of file, and NWR_CLOSE. *)
LEMMA EndKeeps ==
  ASSUME IInv, NEW i \in Chan, ChanEof(i) \/ ChanClose(i)
  PROVE  IInv'
<1> USE DEF IInv, TypeOK
<1>1. CASE ChanEof(i)
  <2>1. /\ held \in [Chan -> Slot]
        /\ \A j \in Chan : held[j] \in {NoFd, path[j]}
        /\ Free(reqfd, held) >= 0
    BY DEF HeldIsOwn, Fits
  <2>2. /\ reqfd[i] # NoFd
        /\ client[reqfd[i]] \in {"closed", "dead", "orphan"}
        /\ fdc_forget(i, held)
        /\ reqfd' = [reqfd EXCEPT ![i] = NoFd]
        /\ use' \in [Chan -> Stamps] /\ stamp' \in Stamps
        /\ lost' = lost
        /\ UNCHANGED <<rv, client, blocked>>
    BY <1>1 DEF ChanEof
  <2>3. QED
    BY <2>1, <2>2, ForgetKeeps
<1>2. CASE ChanClose(i)
  <2>1. active[i]
    BY <1>2 DEF ChanClose, HeldIsOwn
  <2>2. NextStamp \in Stamps
    BY NextStampType
  <2>3. PICK h : /\ OpenFails(i) => h \in AfterFailure(i)
                 /\ ~OpenFails(i) => h \in AfterSuccess(i)
                 /\ fdc_forget(i, h)
    BY <1>2 DEF ChanClose
  <2>4. /\ h \in [Chan -> Slot]
        /\ \A j \in Chan : h[j] \in {NoFd, path[j]}
        /\ Free(reqfd, h) >= 0
    BY <2>1, <2>3, FailureFits, SuccessFits
  <2>5. /\ reqfd[i] # NoFd
        /\ client[reqfd[i]] \in {"closed", "dead", "orphan"}
        /\ reqfd' = [reqfd EXCEPT ![i] = NoFd]
        /\ use' \in [Chan -> Stamps] /\ stamp' \in Stamps
        /\ lost' = lost \/ lost' = lost \cup {path[i]}
        /\ UNCHANGED <<rv, client, blocked>>
    BY <1>2, <2>2 DEF ChanClose
  <2>6. QED
    BY <2>3, <2>4, <2>5, ForgetKeeps
<1>3. QED
  BY <1>1, <1>2

(* Taking the first hello leaves hellos of other, unanswered clients. *)
LEMMA RestOfHellos ==
  ASSUME IInv, rv # <<>>
  PROVE  /\ Head(rv) \in Client
         /\ client[Head(rv)] \in {"waiting", "orphan"}
         /\ Tail(rv) \in Seq(Client)
         /\ \A k \in 1 .. Len(Tail(rv)) :
               /\ Tail(rv)[k] # Head(rv)
               /\ client[Tail(rv)[k]] \in {"waiting", "orphan"}
         /\ \A j, k \in 1 .. Len(Tail(rv)) : Tail(rv)[j] = Tail(rv)[k] => j = k
<1> USE DEF IInv, TypeOK
<1>1. /\ rv \in Seq(Client)
      /\ Len(rv) \in Nat /\ Len(rv) >= 1
      /\ Head(rv) = rv[1] /\ Head(rv) \in Client
      /\ Tail(rv) \in Seq(Client)
      /\ Len(Tail(rv)) = Len(rv) - 1
      /\ \A k \in 1 .. Len(Tail(rv)) : Tail(rv)[k] = rv[k + 1]
  OBVIOUS
<1>2. /\ \A k \in 1 .. Len(rv) : client[rv[k]] \in {"waiting", "orphan"}
      /\ \A j, k \in 1 .. Len(rv) : rv[j] = rv[k] => j = k
  BY DEF Bookkeeping
<1>3. \A k \in 1 .. Len(Tail(rv)) : k + 1 \in 1 .. Len(rv) /\ k + 1 # 1
  BY <1>1
<1>4. 1 \in 1 .. Len(rv)
  BY <1>1
<1>5. \A k \in 1 .. Len(Tail(rv)) : Tail(rv)[k] # Head(rv)
  BY <1>1, <1>2, <1>3, <1>4
<1>6. \A j, k \in 1 .. Len(Tail(rv)) : Tail(rv)[j] = Tail(rv)[k] => j = k
  <2>1. SUFFICES ASSUME NEW j \in 1 .. Len(Tail(rv)),
                        NEW k \in 1 .. Len(Tail(rv)),
                        rv[j + 1] = rv[k + 1]
                 PROVE  j = k
    BY <1>1
  <2>2. j + 1 = k + 1
    BY <1>2, <1>3, <2>1
  <2>3. QED
    BY <2>2, <1>1
<1>7. QED
  BY <1>1, <1>2, <1>3, <1>4, <1>5, <1>6

(* Refusing a client costs at most a cached descriptor. *)
LEMMA RefuseKeeps ==
  ASSUME IInv, rv # <<>>, rv' = Tail(rv), sr_refuse(Head(rv))
  PROVE  IInv'
<1> USE DEF IInv, TypeOK, HeldIsOwn, sr_refuse
<1>1. /\ Head(rv) \in Client
      /\ client[Head(rv)] \in {"waiting", "orphan"}
      /\ Tail(rv) \in Seq(Client)
      /\ \A k \in 1 .. Len(Tail(rv)) :
            /\ Tail(rv)[k] # Head(rv)
            /\ client[Tail(rv)[k]] \in {"waiting", "orphan"}
      /\ \A j, k \in 1 .. Len(Tail(rv)) : Tail(rv)[j] = Tail(rv)[k] => j = k
  BY RestOfHellos
<1>2. /\ held' \in [Chan -> Slot]
      /\ \A j \in Chan : held'[j] \in {NoFd, held[j]}
      /\ Free(reqfd, held') >= 0
  <2>1. CASE SpareFails(reqfd, held)
    BY <2>1 DEF Fits
  <2>2. CASE ~SpareFails(reqfd, held)
    <3>1. held' \in fdc_spare(reqfd, held)
      BY <2>2
    <3>2. Free(reqfd, held') \in Int
      BY AnswerableMeans
    <3>3. /\ held' \in [Chan -> Slot]
          /\ \A j \in Chan : held'[j] \in {NoFd, held[j]}
          /\ Free(reqfd, held') >= 1
      BY <3>1, SpareOne DEF Fits
    <3>4. QED
      BY <3>2, <3>3
  <2>3. QED
    BY <2>1, <2>2
<1>3. \/ client' = client
      \/ /\ client[Head(rv)] = "waiting"
         /\ client' = [client EXCEPT ![Head(rv)] = "refused"]
  BY <1>1 DEF Alive
<1>4. TypeOK'
  BY <1>1, <1>2, <1>3 DEF ClientState
<1>5. HeldIsOwn'
  BY <1>2
<1>6. Fits'
  BY <1>2 DEF Fits
<1>7. Answerable'
  BY AnswerableMeans DEF Answerable
<1>8. Bookkeeping'
  <2>1. \A i \in Chan : reqfd'[i] # NoFd =>
           client'[reqfd'[i]] \in {"open", "closed", "dead"}
    BY <1>3 DEF Bookkeeping, Slot
  <2>2. /\ \A k \in 1 .. Len(rv') : client'[rv'[k]] \in {"waiting", "orphan"}
        /\ \A j, k \in 1 .. Len(rv') : rv'[j] = rv'[k] => j = k
    BY <1>1, <1>3
  <2>3. \A c \in Client : Alive(c)' => c \in linked'
    BY <1>1, <1>3 DEF Bookkeeping, Alive
  <2>4. \A c \in lost' : client'[c] \in {"closed", "dead"}
    BY <1>1, <1>3 DEF Bookkeeping
  <2>5. QED
    BY <2>1, <2>2, <2>3, <2>4 DEF Bookkeeping
<1>9. QED
  BY <1>4, <1>5, <1>6, <1>7, <1>8

(* fdc_room() means what it says: with a second descriptor to be had, one is
   left over for replies once the request FIFO is open. *)
LEMMA RoomMeans ==
  ASSUME IInv, fdc_room(reqfd, held)
  PROVE  Cardinality(Filled(reqfd)) + 2 <= NDesc
<1>1. /\ Cardinality(Filled(reqfd)) \in Nat
      /\ Cardinality(Filled(held)) \in Nat
  BY FilledFinite
<1>2. fdc_free(reqfd, held) <= Free(reqfd, held)
  BY <1>1, NDescAssumption, NchanAssumption DEF fdc_free, Free
<1>3. fdc_free(reqfd, held) \in Int
  BY <1>1, NDescAssumption, NchanAssumption DEF fdc_free, Free
<1>4. QED
  BY <1>1, <1>2, <1>3, NDescAssumption DEF fdc_room, fdc_held, Free

(* Admitting a client there is room for. *)
LEMMA AdmitKeeps ==
  ASSUME IInv, rv # <<>>, rv' = Tail(rv), fdc_room(reqfd, held),
         Admit(Head(rv))
  PROVE  IInv'
<1> DEFINE c == Head(rv)
<1> USE DEF IInv, TypeOK, HeldIsOwn
<1>1. /\ c \in Client
      /\ client[c] \in {"waiting", "orphan"}
      /\ Tail(rv) \in Seq(Client)
      /\ \A k \in 1 .. Len(Tail(rv)) :
            /\ Tail(rv)[k] # c
            /\ client[Tail(rv)[k]] \in {"waiting", "orphan"}
      /\ \A j, k \in 1 .. Len(Tail(rv)) : Tail(rv)[j] = Tail(rv)[k] => j = k
  BY RestOfHellos
<1> HIDE DEF c
<1>2. Admit(c)
  BY DEF c
<1>3. CASE Alive(c)
  <2>1. PICK i \in FirstFree, h \in fdc_spare(reqfd, held) :
           /\ reqfd' = [reqfd EXCEPT ![i] = c]
           /\ fdc_hold(i, c, h)
    BY <1>2, <1>3 DEF Admit
  <2>2. i \in Chan /\ reqfd[i] = NoFd
    BY DEF FirstFree, FreeSlots
  <2>3. client' = [client EXCEPT ![c] = "open"]
        /\ UNCHANGED <<stamp, linked, lost, blocked>>
    BY <1>2, <1>3 DEF Admit
  <2>4. /\ h \in [Chan -> Slot]
        /\ \A j \in Chan : h[j] \in {NoFd, held[j]}
        /\ Free(reqfd, h) >= 1
    BY SpareOne DEF Fits
  <2>5. h[i] = NoFd
    BY <2>2, <2>4
  <2>6. held' = h
    BY <2>1, <2>2, <2>4, <2>5 DEF fdc_hold
  <2>7. /\ reqfd' \in [Chan -> Slot]
        /\ Cardinality(Filled(reqfd')) = Cardinality(Filled(reqfd)) + 1
    <3>1. /\ reqfd \in [Chan -> Slot]
          /\ reqfd' = [reqfd EXCEPT ![i] = c]
      BY <2>1
    <3> HIDE DEF IInv, TypeOK, HeldIsOwn
    <3>2. QED
      BY <1>1, <2>2, <3>1, FilledSet
  <2>8. /\ Cardinality(Filled(reqfd)) \in Nat
        /\ Cardinality(Filled(h)) \in Nat
        /\ Cardinality(Filled(reqfd')) \in Nat
    BY FilledFinite
  <2>9. TypeOK'
    BY <1>1, <2>1, <2>2, <2>3, <2>4, <2>6, <2>7, ZeroStamp
       DEF fdc_hold, ClientState, Slot
  <2>10. HeldIsOwn'
    <3>1. /\ reqfd' = [reqfd EXCEPT ![i] = c]
          /\ active' = [active EXCEPT ![i] = TRUE]
          /\ path' = [path EXCEPT ![i] = c]
          /\ c # NoFd
      BY <1>1, <2>1, NoFdAssumption DEF fdc_hold
    <3>2. SUFFICES ASSUME NEW j \in Chan
                   PROVE  /\ active'[j] <=> reqfd'[j] # NoFd
                          /\ path'[j] = reqfd'[j]
                          /\ held'[j] \in {NoFd, path'[j]}
      BY Zenon DEF HeldIsOwn
    <3>3. CASE j = i
      BY <3>1, <3>3, <2>5, <2>6
    <3>4. CASE j # i
      BY <3>1, <3>4, <2>4, <2>6
    <3>5. QED
      BY <3>3, <3>4
  <2>11. Fits'
    BY <2>4, <2>6, <2>7, <2>8, NDescAssumption DEF Fits, Free
  <2>12. Answerable'
    <3>1. Cardinality(Filled(reqfd)) + 2 <= NDesc
      BY <2>8, RoomMeans
    <3> HIDE DEF IInv, TypeOK, HeldIsOwn
    <3>2. QED
      BY <2>7, <2>8, <3>1, AnswerableMeans, NDescAssumption DEF Answerable
  <2>13. Bookkeeping'
    <3>1. \A j \in Chan : reqfd'[j] # NoFd =>
             client'[reqfd'[j]] \in {"open", "closed", "dead"}
      BY <1>1, <2>1, <2>2, <2>3 DEF Bookkeeping, Slot
    <3>2. /\ \A k \in 1 .. Len(rv') : client'[rv'[k]] \in {"waiting", "orphan"}
          /\ \A j, k \in 1 .. Len(rv') : rv'[j] = rv'[k] => j = k
      BY <1>1, <2>3
    <3>3. \A d \in Client : Alive(d)' => d \in linked'
      BY <1>1, <1>3, <2>3 DEF Bookkeeping, Alive
    <3>4. \A d \in lost' : client'[d] \in {"closed", "dead"}
      BY <1>1, <2>3 DEF Bookkeeping
    <3>5. QED
      BY <3>1, <3>2, <3>3, <3>4 DEF Bookkeeping
  <2>14. QED
    BY <2>9, <2>10, <2>11, <2>12, <2>13
<1>4. CASE ~Alive(c)
  <2>1. /\ held' \in fdc_spare(reqfd, held)
        /\ blocked' = TRUE
        /\ UNCHANGED <<reqfd, active, path, use, stamp, client, linked, lost>>
    BY <1>2, <1>4 DEF Admit
  <2>2. /\ held' \in [Chan -> Slot]
        /\ \A j \in Chan : held'[j] \in {NoFd, held[j]}
        /\ Free(reqfd, held') >= 1
    BY <2>1, SpareOne DEF Fits
  <2>3. TypeOK' /\ HeldIsOwn'
    BY <1>1, <2>1, <2>2
  <2>4. Fits' /\ Answerable'
    BY <2>1, <2>2, AnswerableMeans DEF Fits, Answerable
  <2>5. Bookkeeping'
    BY <1>1, <2>1 DEF Bookkeeping, Alive
  <2>6. QED
    BY <2>3, <2>4, <2>5
<1>5. QED
  BY <1>3, <1>4

(* The clients' own steps: they move no descriptor of the daemon's. *)
LEMMA ClientsKeep ==
  ASSUME IInv, Clients
  PROVE  IInv'
<1> USE DEF IInv, TypeOK, tables
<1>1. PICK c \in Client :
         \/ ichan_open(c) \/ ichan_giveup(c) \/ ichan_close(c)
         \/ Die(c) \/ Again(c)
  BY DEF Clients
<1>2. UNCHANGED tables
  BY <1>1 DEF ichan_open, ichan_giveup, ichan_close, Die, Again
<1>3. HeldIsOwn' /\ Fits' /\ Answerable'
  BY <1>2 DEF HeldIsOwn, Fits, Answerable, Free, fdc_held, Filled
<1>4. CASE ichan_open(c)
  <2>1. /\ client[c] = "new" /\ client' = [client EXCEPT ![c] = "waiting"]
        /\ linked' = linked \cup {c} /\ rv' = Append(rv, c)
        /\ UNCHANGED <<lost, blocked>>
    BY <1>4 DEF ichan_open
  <2>2. /\ rv' \in Seq(Client) /\ Len(rv) \in Nat /\ Len(rv') = Len(rv) + 1
        /\ \A k \in 1 .. Len(rv) : rv'[k] = rv[k]
        /\ rv'[Len(rv) + 1] = c
    BY <2>1
  <2>3. \A k \in 1 .. Len(rv) : rv[k] # c /\ rv[k] \in Client
    BY <2>1 DEF Bookkeeping
  <2>4. TypeOK'
    BY <1>2, <2>1, <2>2 DEF ClientState
  <2>5. \A k \in 1 .. Len(rv') : client'[rv'[k]] \in {"waiting", "orphan"}
    BY <2>1, <2>2, <2>3 DEF Bookkeeping
  <2>6. \A j, k \in 1 .. Len(rv') : rv'[j] = rv'[k] => j = k
    BY <2>2, <2>3 DEF Bookkeeping
  <2>7. Bookkeeping'
    BY <1>2, <2>1, <2>5, <2>6 DEF Bookkeeping, Alive, Slot
  <2>8. QED
    BY <1>3, <2>4, <2>7
<1>5. CASE ichan_giveup(c) \/ ichan_close(c) \/ Die(c)
  <2>1. /\ client[c] \in {"open", "refused", "waiting"}
        /\ \/ client' = [client EXCEPT ![c] = "closed"] /\ client[c] # "waiting"
           \/ client' = [client EXCEPT ![c] = "dead"] /\ client[c] = "open"
           \/ client' = [client EXCEPT ![c] = "orphan"] /\ client[c] # "open"
        /\ linked' \in {linked, linked \ {c}}
        /\ UNCHANGED <<rv, lost, blocked>>
    BY <1>5 DEF ichan_giveup, ichan_close, Die
  <2>2. TypeOK'
    BY <1>2, <2>1 DEF ClientState
  <2>3. Bookkeeping'
    <3>1. \A i \in Chan : reqfd'[i] # NoFd =>
             client'[reqfd'[i]] \in {"open", "closed", "dead"}
      BY <1>2, <2>1 DEF Bookkeeping, Slot
    <3>2. \A k \in 1 .. Len(rv) : rv[k] \in Client
      OBVIOUS
    <3>3. \A k \in 1 .. Len(rv') : client'[rv'[k]] \in {"waiting", "orphan"}
      BY <2>1, <3>2 DEF Bookkeeping
    <3>4. \A d \in Client : Alive(d)' => d \in linked'
      BY <2>1 DEF Bookkeeping, Alive
    <3>5. \A d \in lost' : client'[d] \in {"closed", "dead"}
      BY <2>1 DEF Bookkeeping
    <3>6. QED
      BY <2>1, <3>1, <3>3, <3>4, <3>5 DEF Bookkeeping
  <2>4. QED
    BY <1>3, <2>2, <2>3
<1>6. CASE Again(c)
  <2>1. /\ client[c] \in {"closed", "dead", "orphan"}
        /\ \A i \in Chan : reqfd[i] # c
        /\ \A k \in 1 .. Len(rv) : rv[k] # c
        /\ client' = [client EXCEPT ![c] = "new"]
        /\ linked' = linked \ {c}
        /\ lost' = lost \ {c}
        /\ UNCHANGED <<rv, blocked>>
    BY <1>6 DEF Again
  <2>2. TypeOK'
    BY <1>2, <2>1 DEF ClientState
  <2>3. Bookkeeping'
    BY <1>2, <2>1 DEF Bookkeeping, Alive, Slot
  <2>4. QED
    BY <1>3, <2>2, <2>3
<1>7. QED
  BY <1>1, <1>4, <1>5, <1>6

-----------------------------------------------------------------------------
(* The invariant holds at the start, fdc_init() and sr_init(). *)
LEMMA InitIInv == Init => IInv
<1> SUFFICES ASSUME Init PROVE IInv
  OBVIOUS
<1>1. TypeOK /\ HeldIsOwn /\ Bookkeeping
  <2>1. TypeOK
    <3>1. active \in [Chan -> BOOLEAN] /\ blocked \in BOOLEAN
      BY DEF Init
    <3>2. /\ reqfd \in [Chan -> Slot] /\ path \in [Chan -> Slot]
          /\ held \in [Chan -> Slot]
          /\ use \in [Chan -> Stamps] /\ stamp \in Stamps
      BY ZeroStamp DEF Init, Slot
    <3>3. /\ rv \in Seq(Client) /\ client \in [Client -> ClientState]
          /\ linked \subseteq Client /\ lost \subseteq Client
      BY DEF Init, ClientState
    <3>4. QED
      BY <3>1, <3>2, <3>3 DEF TypeOK
  <2>2. HeldIsOwn
    BY DEF Init, HeldIsOwn
  <2>3. Len(rv) = 0
    BY DEF Init
  <2>4. Bookkeeping
    BY <2>3 DEF Init, Bookkeeping, Alive
  <2>5. QED
    BY <2>1, <2>2, <2>4
<1>2. Filled(reqfd) = {} /\ Filled(held) = {}
  BY DEF Init, Filled
<1>3. Fits /\ Answerable
  BY <1>2, FS_EmptySet, NDescAssumption DEF Fits, Answerable, Free, fdc_held
<1>4. QED
  BY <1>1, <1>3 DEF IInv

(* ... and every step keeps it. *)
LEMMA NextIInv == IInv /\ [Next]_vars => IInv'
<1> SUFFICES ASSUME IInv, [Next]_vars PROVE IInv'
  OBVIOUS
<1>1. CASE sr_accept
  BY <1>1, RefuseKeeps, AdmitKeeps DEF sr_accept
<1>2. CASE \E i \in Chan : Reply(i)
  BY <1>2, ReplyKeeps
<1>3. CASE \E i \in Chan : ChanEof(i) \/ ChanClose(i)
  BY <1>3, EndKeeps
<1>4. CASE Clients
  BY <1>4, ClientsKeep
<1>5. CASE UNCHANGED vars
  BY <1>5 DEF vars, tables, world, IInv, TypeOK, HeldIsOwn, Fits, Answerable,
     Bookkeeping, Free, fdc_held, Filled, Alive
<1>6. QED
  BY <1>1, <1>2, <1>3, <1>4, <1>5 DEF Next, Daemon

(* The inductive invariant holds throughout. *)
THEOREM Invariance == Spec => []IInv
BY InitIInv, NextIInv, PTL DEF Spec

(* Type correctness of the two tables and of the clients around them. *)
THEOREM TypeCorrect == Spec => []TypeOK
<1>1. IInv => TypeOK
  BY DEF IInv
<1>2. QED
  BY <1>1, Invariance, PTL

(* The budget of coh_fdc.c: whatever the table size and however many
   descriptors the machine gives, the daemon never needs more than it has,
   and every admitted channel can be answered. *)
THEOREM BudgetHolds == Spec => [](Fits /\ Answerable)
<1>1. IInv => Fits /\ Answerable
  BY DEF IInv
<1>2. QED
  BY <1>1, Invariance, PTL

(* A cached descriptor always leads to the slot's present occupant. *)
THEOREM RepliesGoHome == Spec => []HeldIsOwn
<1>1. IInv => HeldIsOwn
  BY DEF IInv
<1>2. QED
  BY <1>1, Invariance, PTL

(* No reply is ever dropped for a client that is there to read it. *)
THEOREM RepliesArrive == Spec => []NoReplyLost
<1>1. IInv => NoReplyLost
  BY DEF IInv, Bookkeeping, NoReplyLost
<1>2. QED
  BY <1>1, Invariance, PTL

(* What the machine says about itself at boot stays true. *)
LEMMA CeilingNumber == IInv => CeilingStable
<1> SUFFICES ASSUME IInv PROVE CeilingStable
  OBVIOUS
<1>1. ActiveSlots = Filled(reqfd)
  BY DEF IInv, TypeOK, HeldIsOwn, Filled, ActiveSlots
<1>2. /\ Cardinality(Filled(reqfd)) \in Nat
      /\ Cardinality(Filled(held)) \in Nat
  BY FilledFinite
<1>3. Free(reqfd, held) >= 0
  BY DEF IInv, Fits
<1>4. QED
  BY <1>1, <1>2, <1>3, NDescAssumption, NchanAssumption
     DEF CeilingStable, fdc_ceiling, fdc_free, fdc_held, Free

(* fdc_ceiling() is the same number in every state. *)
THEOREM CeilingHolds == Spec => []CeilingStable
BY CeilingNumber, Invariance, PTL

(* A step that refuses a client is taken with every channel spent. *)
LEMMA RefusalMeans ==
  IInv /\ [Next]_vars =>
    [ \A c \in Client :
        client[c] # "refused" /\ client'[c] = "refused"
          => Cardinality(Filled(reqfd)) = fdc_ceiling ]_vars
<1> SUFFICES ASSUME IInv, Next,
                    NEW c \in Client,
                    client[c] # "refused", client'[c] = "refused"
             PROVE  Cardinality(Filled(reqfd)) = fdc_ceiling
  OBVIOUS
<1>1. sr_accept
  <2>1. client \in [Client -> ClientState]
    BY DEF IInv, TypeOK
  <2>2. ~(\E i \in Chan : Reply(i) \/ ChanEof(i) \/ ChanClose(i))
    BY DEF Reply, ChanEof, ChanClose
  <2>3. ~Clients
    BY <2>1 DEF Clients, ichan_open, ichan_giveup, ichan_close, Die, Again
  <2>4. QED
    BY <2>2, <2>3 DEF Next, Daemon
<1>2. \/ FreeSlots = {}
      \/ ~fdc_room(reqfd, held)
      \/ SpareFails(reqfd, held)
  <2>1. client \in [Client -> ClientState]
    BY DEF IInv, TypeOK
  <2>2. ~Admit(Head(rv))
    BY <2>1 DEF Admit
  <2>3. QED
    BY <1>1, <2>2 DEF sr_accept
<1>3. /\ Cardinality(Filled(reqfd)) \in Nat
      /\ Cardinality(Filled(held)) \in Nat
      /\ Cardinality(Filled(reqfd)) <= FDC_NCHAN
      /\ Filled(reqfd) = Chan => Cardinality(Filled(reqfd)) = FDC_NCHAN
  BY FilledFinite
<1>4. /\ Free(reqfd, held) >= 0
      /\ NDesc - Cardinality(Filled(reqfd)) >= 1
  BY AnswerableMeans DEF IInv, Fits, Answerable
<1>5. fdc_ceiling = IF NDesc - 1 > FDC_NCHAN THEN FDC_NCHAN ELSE NDesc - 1
  BY CeilingNumber DEF CeilingStable
<1>6. CASE FreeSlots = {}
  <2>1. Filled(reqfd) = Chan
    BY <1>6 DEF FreeSlots, Filled
  <2>2. QED
    BY <2>1, <1>3, <1>4, <1>5, NDescAssumption, NchanAssumption
<1>7. CASE ~fdc_room(reqfd, held)
  <2>1. NDesc - Cardinality(Filled(reqfd)) <= 1
    BY <1>3, <1>4, <1>7, NDescAssumption, NchanAssumption
       DEF fdc_room, fdc_free, fdc_held, Free
  <2>2. QED
    BY <2>1, <1>3, <1>4, <1>5, NDescAssumption, NchanAssumption
<1>8. CASE SpareFails(reqfd, held)
  <2>1. Cardinality(Filled(held)) = 0
    BY <1>8, FS_EmptySet DEF SpareFails
  <2>2. FALSE
    BY <1>3, <1>4, <1>8, <2>1, NDescAssumption, NchanAssumption
       DEF SpareFails, fdc_free, Free
  <2>3. QED
    BY <2>2
<1>9. QED
  BY <1>2, <1>6, <1>7, <1>8

(* Admission is exact: sr_refuse() is reached only at the announced ceiling. *)
THEOREM RefusalIsHonest == Spec => RefusedOnlyWhenFull
<1>1. IInv /\ [Next]_vars =>
        [ \A c \in Client :
            client[c] # "refused" /\ client'[c] = "refused"
              => Cardinality(Filled(reqfd)) = fdc_ceiling ]_vars
  BY RefusalMeans
<1>2. QED
  BY <1>1, Invariance, PTL DEF Spec, RefusedOnlyWhenFull
(* Each step of the daemon and of a client keeps the names in order: a channel
   is forgotten together with the name, and a name is made by a client that
   waits for its answer. *)
LEMMA NamesKept ==
  ASSUME IInv, NamesTidied, [Next]_vars
  PROVE  NamesTidied'
<1>1. /\ path \in [Chan -> Slot] /\ client \in [Client -> ClientState]
      /\ linked \subseteq Client /\ \A i \in Chan : path[i] = reqfd[i]
  BY DEF IInv, TypeOK, HeldIsOwn
<1>2. CASE UNCHANGED <<path, client, linked>>
  BY <1>2 DEF NamesTidied
<1>3. CASE sr_accept
  <2>1. Head(rv) \in Client /\ linked' = linked
    BY <1>3, RestOfHellos DEF sr_accept, sr_refuse, Admit
  <2>2. CASE path' = path /\ \/ client' = client
                             \/ client' = [client EXCEPT ![Head(rv)] = "refused"]
    BY <1>1, <2>1, <2>2 DEF NamesTidied
  <2>3. CASE /\ client' = [client EXCEPT ![Head(rv)] = "open"]
             /\ \E i \in Chan : /\ path[i] = NoFd
                                /\ path' = [path EXCEPT ![i] = Head(rv)]
    <3>1. PICK i \in Chan : path[i] = NoFd /\ path' = [path EXCEPT ![i] = Head(rv)]
      BY <2>3
    <3>2. path'[i] = Head(rv) /\ \A j \in Chan : path[j] # NoFd => path'[j] = path[j]
      BY <1>1, <3>1
    <3>3. SUFFICES ASSUME NEW c \in linked
                   PROVE  \/ client'[c] \in {"waiting", "refused", "orphan"}
                          \/ \E j \in Chan : path'[j] = c
      BY <2>1 DEF NamesTidied
    <3>4. CASE c = Head(rv)
      BY <3>2, <3>4
    <3>5. CASE c # Head(rv)
      <4>1. client'[c] = client[c] /\ c # NoFd
        BY <1>1, <2>3, <3>5, NoFdAssumption
      <4> QED
        BY <3>2, <4>1 DEF NamesTidied
    <3> QED
      BY <3>4, <3>5
  <2>4. CASE sr_refuse(Head(rv))
    BY <2>2, <2>4 DEF sr_refuse
  <2>5. CASE Admit(Head(rv))
    <3>1. CASE Alive(Head(rv))
      <4>1. PICK i \in FirstFree, h \in fdc_spare(reqfd, held) :
               path' = [path EXCEPT ![i] = Head(rv)]
        BY <2>5, <3>1 DEF Admit, fdc_hold
      <4>2. i \in Chan /\ path[i] = NoFd
        BY <1>1 DEF FirstFree, FreeSlots
      <4>3. client' = [client EXCEPT ![Head(rv)] = "open"]
        BY <2>5, <3>1 DEF Admit
      <4> QED
        BY <2>3, <4>1, <4>2, <4>3
    <3>2. CASE ~Alive(Head(rv))
      BY <2>2, <2>5, <3>2 DEF Admit
    <3> QED
      BY <3>1, <3>2
  <2> QED
    BY <1>3, <2>4, <2>5 DEF sr_accept
<1>4. CASE \E i \in Chan : ChanEof(i) \/ ChanClose(i)
  <2>1. PICK i \in Chan : /\ path' = [path EXCEPT ![i] = NoFd]
                          /\ linked' = linked \ {path[i]}
    BY <1>4 DEF ChanEof, ChanClose, fdc_forget
  <2>2. client' = client
    BY <1>4 DEF ChanEof, ChanClose
  <2>3. \A j \in Chan : j # i => path'[j] = path[j]
    BY <1>1, <2>1
  <2> QED
    BY <2>1, <2>2, <2>3 DEF NamesTidied
<1>5. CASE Clients
  <2>1. PICK c \in Client :
           \/ ichan_open(c) \/ ichan_giveup(c) \/ ichan_close(c)
           \/ Die(c) \/ Again(c)
    BY <1>5 DEF Clients
  <2>2. path' = path
    BY <2>1 DEF ichan_open, ichan_giveup, ichan_close, Die, Again, tables
  <2>3. \A d \in Client \ {c} : /\ client'[d] = client[d]
                                /\ d \in linked' => d \in linked
    BY <1>1, <2>1 DEF ichan_open, ichan_giveup, ichan_close, Die, Again
  <2>4. /\ linked' \subseteq Client
        /\ \/ c \notin linked'
           \/ client'[c] \in {"waiting", "orphan"}
           \/ c \in linked /\ client[c] = "open"
    BY <1>1, <2>1 DEF ichan_open, ichan_giveup, ichan_close, Die, Again
  <2> QED
    BY <2>2, <2>3, <2>4 DEF NamesTidied
<1> QED
  BY <1>2, <1>3, <1>4, <1>5 DEF Next, Daemon, Reply, vars, tables, world

(* NamesTidied: the daemon cleans up in /tmp after clients that cannot. *)
THEOREM NothingLeftInTmp == Spec => []NamesTidied
<1>1. Init => NamesTidied
  BY DEF Init, NamesTidied
<1>2. IInv /\ NamesTidied /\ [Next]_vars => NamesTidied'
  BY NamesKept
<1> QED
  BY <1>1, <1>2, Invariance, PTL DEF Spec
=============================================================================
