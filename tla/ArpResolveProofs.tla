-------------------------- MODULE ArpResolveProofs --------------------------
(***************************************************************************)
(* Proofs about ArpResolve, for every number of ports, hosts and cache     *)
(* entries.                                                                *)
(*                                                                         *)
(* The handlers call one another while the cache, the port and its queue   *)
(* are out of step, so the invariant is stated of a World, and the lemmas  *)
(* say what each function makes of a good one.                             *)
(***************************************************************************)
EXTENDS ArpResolve, NatLemmas

(* No address has two entries of a port. *)
OneEach(w) ==
  \A i, j \in Entries :
    /\ w.cache[i].state # "UNUSED" /\ w.cache[j].state # "UNUSED"
    /\ w.cache[i].port = w.cache[j].port /\ w.cache[i].ip = w.cache[j].ip
    => i = j

(* What is incomplete its port is asking for. *)
Asking(w) ==
  \A i \in Entries : w.cache[i].state = "INCOMPLETE" =>
    /\ w.cache[i].port \in Port
    /\ w.port[w.cache[i].port].clientreq
    /\ w.cache[i].ip = w.port[w.cache[i].port].req

(* A valid entry has the address of its host. *)
Told(w) ==
  \A i \in Entries : w.cache[i].state = "VALID" => w.cache[i].eth = w.cache[i].ip

(* A timer runs only for a request that has tries left, and only a port that
   has its own address asks. *)
Ticking(w) ==
  \A p \in Port :
    /\ w.port[p].timer # None => w.port[p].clientreq /\ w.port[p].count < MAX_ARP_RETRIES
    /\ w.port[p].clientreq => w.port[p].up /\ w.port[p].req \in Host

Aimed(w) ==
  \A p \in Port : \A f \in w.wire[p] : f.kind = "IP" => f.eth = f.ip

Good(w) ==
  /\ w \in Worlds
  /\ OneEach(w) /\ Asking(w) /\ Told(w) /\ Ticking(w) /\ Aimed(w)

(* The ports with packets waiting are asking, but for those of X. *)
Waits(w, X) ==
  \A p \in Port \ X : w.arpq[p] # <<>> => w.port[p].clientreq

(* The ticks the request of a port may still take. *)
Due(s) == s.timer + (MAX_ARP_RETRIES - 1 - s.count) * ARP_TIMEOUT

(* A port asks for an entry that is incomplete and outlives the request, with
   its timer running. *)
CoveredAt(w, q) ==
  /\ w.port[q].clientreq <=> w.port[q].timer # None
  /\ w.port[q].clientreq =>
       \E i \in Entries : /\ w.cache[i].state = "INCOMPLETE" /\ w.cache[i].port = q
                          /\ w.cache[i].ip = w.port[q].req
                          /\ w.cache[i].left >= Due(w.port[q])

Covered(w, X) == \A q \in Port \ X : CoveredAt(w, q)

-----------------------------------------------------------------------------
LEMMA Times ==
  /\ ARP_TIMEOUT \in Nat \ {0} /\ None \notin Host /\ None \notin 0 .. ARP_TIMEOUT
  /\ MAX_ARP_RETRIES \in Nat \ {0} /\ ARP_EXP_TIME \in Nat
  /\ ARP_NOTRCH_EXP_TIME \in 0 .. ARP_EXP_TIME
  /\ MaxIdle \in Nat /\ ARP_INUSE_OFFSET \in 0 .. MaxIdle
  /\ ARP_CACHE_NR \in Nat /\ MaxAge \in Nat
  /\ ARP_EXP_TIME >= MAX_ARP_RETRIES * ARP_TIMEOUT
<1>1. HZ \div 2 \in Nat
  BY TimesAssumption
<1>2. ARP_TIMEOUT \in Nat \ {0}
  BY <1>1 DEF ARP_TIMEOUT
<1> QED
  BY <1>2, ArpAssumption, TimesAssumption

LEMMA Bounds ==
  /\ 0 \in 0 .. MaxIdle /\ ARP_INUSE_OFFSET \in 0 .. MaxIdle
  /\ ARP_EXP_TIME \in -1 .. ARP_EXP_TIME /\ ARP_NOTRCH_EXP_TIME \in -1 .. ARP_EXP_TIME
  /\ 0 \in 0 .. MAX_ARP_RETRIES /\ 0 < MAX_ARP_RETRIES
  /\ ARP_TIMEOUT \in 0 .. ARP_TIMEOUT /\ ARP_TIMEOUT # None /\ None \notin Host
BY Times

LEMMA WorldParts ==
  ASSUME NEW w \in Worlds
  PROVE  /\ w.cache \in [Entries -> Entry] /\ w.port \in [Port -> PortState]
         /\ w.arpq \in [Port -> Seq(Packet)] /\ w.wire \in [Port -> SUBSET Frame]
BY DEF Worlds

(* The packets of a queue that are not for ip are a queue. *)
LEMMA Kept ==
  ASSUME NEW q \in Seq(Packet), NEW ip
  PROVE  Without(q, ip)[Len(q)] \in Seq(Packet)
<1> DEFINE S == Seq(Packet)
           L == Len(q)
           step(k, s) == IF q[k].dest = ip THEN s ELSE Append(s, q[k])
           h == [x \in Nat \X S |-> IF x[1] \in 1 .. L THEN step(x[1], x[2]) ELSE x[2]]
           F(f) == [k \in 0 .. L |-> IF k = 0 THEN <<>> ELSE step(k, f[k - 1])]
<1>1. L \in Nat /\ \A k \in 1 .. L : q[k] \in Packet
  BY LenProperties, ElementOfSeq
<1>2. ASSUME NEW k \in 1 .. L, NEW s \in S PROVE step(k, s) \in S
  BY <1>1
<1> DEFINE a == <<>>
<1>3. a \in S
  OBVIOUS
<1> HIDE DEF S, L, step, a
<1>4. h \in Steps(S) /\ \A k \in 1 .. L, s \in S : h[<<k, s>>] = step(k, s)
  BY <1>1, <1>2 DEF Steps
<1> HIDE DEF h, F
<1>5. PICK g \in [0 .. L -> S] : Recurs(g, a, h, L)
  <2>1. L \in Nat /\ h \in Steps(S)
    BY <1>1, <1>4
  <2> QED
    BY <1>3, <2>1, Recursion
<1>6. g = F(g)
  <2>1. ASSUME NEW k \in 1 .. L PROVE g[k] = step(k, g[k - 1])
    <3>1. k - 1 \in 0 .. L /\ g[k - 1] \in S
      BY <1>1
    <3> QED
      BY <1>4, <1>5, <3>1 DEF Recurs
  <2> QED
    BY <1>1, <1>5, <2>1 DEF F, a, Recurs
<1> DEFINE f == Without(q, ip)
<1>7. f = F(f)
  <2>1. f = CHOOSE u : u = F(u)
    BY Zenon DEF Without, F, step, L
  <2> HIDE DEF f
  <2> QED
    BY <1>6, <2>1
<1> HIDE DEF f
<1>8. /\ 0 <= L => f[0] = a
      /\ \A k \in 1 .. L : f[k] = step(k, f[k - 1])
  BY <1>1, <1>7 DEF F, a
<1> DEFINE T == {k \in Nat : k <= L => f[k] \in S}
<1>9. T = Nat
  <2>1. 0 \in T
    BY <1>3, <1>8
  <2>2. ASSUME NEW k \in T PROVE k + 1 \in T
    <3>1. CASE k + 1 <= L
      <4>1. k \in Nat /\ k + 1 \in 1 .. L /\ f[k] \in S /\ (k + 1) - 1 = k
        BY <1>1, <3>1
      <4> QED
        BY <1>2, <1>8, <4>1
    <3> QED
      BY <3>1
  <2>3. T \in SUBSET Nat
    OBVIOUS
  <2> HIDE DEF T
  <2> QED
    BY <2>1, <2>2, <2>3, NatInd
<1> QED
  BY <1>1, <1>9 DEF f, L, S

-----------------------------------------------------------------------------
(* What assigning to one component of a world leaves of the others. *)
Is(w, C, P, Q, W) ==
  w \in Worlds /\ w.cache = C /\ w.port = P /\ w.arpq = Q /\ w.wire = W

LEMMA PutCache ==
  ASSUME NEW w \in Worlds, NEW C \in [Entries -> Entry]
  PROVE  Is([w EXCEPT !.cache = C], C, w.port, w.arpq, w.wire)
<1> DEFINE r == [w EXCEPT !.cache = C]
<1>1. r.cache = C /\ r.port = w.port /\ r.arpq = w.arpq /\ r.wire = w.wire
  BY DEF Worlds
<1>2. r \in Worlds
  BY DEF Worlds
<1> QED
  BY <1>1, <1>2 DEF Is

LEMMA PutPorts ==
  ASSUME NEW w \in Worlds, NEW C \in [Port -> PortState]
  PROVE  Is([w EXCEPT !.port = C], w.cache, C, w.arpq, w.wire)
<1> DEFINE r == [w EXCEPT !.port = C]
<1>1. r.cache = w.cache /\ r.port = C /\ r.arpq = w.arpq /\ r.wire = w.wire
  BY DEF Worlds
<1>2. r \in Worlds
  BY DEF Worlds
<1> QED
  BY <1>1, <1>2 DEF Is

LEMMA PutQueues ==
  ASSUME NEW w \in Worlds, NEW C \in [Port -> Seq(Packet)]
  PROVE  Is([w EXCEPT !.arpq = C], w.cache, w.port, C, w.wire)
<1> DEFINE r == [w EXCEPT !.arpq = C]
<1>1. r.cache = w.cache /\ r.port = w.port /\ r.arpq = C /\ r.wire = w.wire
  BY DEF Worlds
<1>2. r \in Worlds
  BY DEF Worlds
<1> QED
  BY <1>1, <1>2 DEF Is

LEMMA PutWires ==
  ASSUME NEW w \in Worlds, NEW C \in [Port -> SUBSET Frame]
  PROVE  Is([w EXCEPT !.wire = C], w.cache, w.port, w.arpq, C)
<1> DEFINE r == [w EXCEPT !.wire = C]
<1>1. r.cache = w.cache /\ r.port = w.port /\ r.arpq = w.arpq /\ r.wire = C
  BY DEF Worlds
<1>2. r \in Worlds
  BY DEF Worlds
<1> QED
  BY <1>1, <1>2 DEF Is

LEMMA PutEntry ==
  ASSUME NEW w \in Worlds, NEW i \in Entries, NEW e \in Entry
  PROVE  Is([w EXCEPT !.cache[i] = e],
            [w.cache EXCEPT ![i] = e], w.port, w.arpq, w.wire)
<1> DEFINE C == [w.cache EXCEPT ![i] = e]
<1>1. C \in [Entries -> Entry]
  BY WorldParts
<1> HIDE DEF C
<1>2. Is([w EXCEPT !.cache = C], C, w.port, w.arpq, w.wire)
  BY <1>1, PutCache
<1> QED
  BY <1>2 DEF C

LEMMA PutPort ==
  ASSUME NEW w \in Worlds, NEW p \in Port, NEW e \in PortState
  PROVE  Is([w EXCEPT !.port[p] = e],
            w.cache, [w.port EXCEPT ![p] = e], w.arpq, w.wire)
<1> DEFINE C == [w.port EXCEPT ![p] = e]
<1>1. C \in [Port -> PortState]
  BY WorldParts
<1> HIDE DEF C
<1>2. Is([w EXCEPT !.port = C], w.cache, C, w.arpq, w.wire)
  BY <1>1, PutPorts
<1> QED
  BY <1>2 DEF C

LEMMA PutQueue ==
  ASSUME NEW w \in Worlds, NEW p \in Port, NEW e \in Seq(Packet)
  PROVE  Is([w EXCEPT !.arpq[p] = e],
            w.cache, w.port, [w.arpq EXCEPT ![p] = e], w.wire)
<1> DEFINE C == [w.arpq EXCEPT ![p] = e]
<1>1. C \in [Port -> Seq(Packet)]
  BY WorldParts
<1> HIDE DEF C
<1>2. Is([w EXCEPT !.arpq = C], w.cache, w.port, C, w.wire)
  BY <1>1, PutQueues
<1> QED
  BY <1>2 DEF C

(* What goes out is added to what has. *)
LEMMA PutWire ==
  ASSUME NEW w \in Worlds, NEW p \in Port, NEW e \in SUBSET Frame
  PROVE  Is([w EXCEPT !.wire[p] = @ \cup e],
            w.cache, w.port, w.arpq, [w.wire EXCEPT ![p] = w.wire[p] \cup e])
<1> DEFINE C == [w.wire EXCEPT ![p] = w.wire[p] \cup e]
<1>1. C \in [Port -> SUBSET Frame]
  BY WorldParts
<1> HIDE DEF C
<1>2. Is([w EXCEPT !.wire = C], w.cache, w.port, w.arpq, C)
  BY <1>1, PutWires
<1> QED
  BY <1>2 DEF C

-----------------------------------------------------------------------------
(* alloc_cache_ent() finds an entry: there are more entries than ports, and a
   port has one incomplete entry at most. *)
LEMMA NotAllAsked ==
  ASSUME NEW w, Good(w)
  PROVE  \E i \in Entries : w.cache[i].state # "INCOMPLETE"
<1> SUFFICES ASSUME \A i \in Entries : w.cache[i].state = "INCOMPLETE" PROVE FALSE
  OBVIOUS
<1> DEFINE f == [i \in Entries |-> w.cache[i].port]
<1>1. f \in [Entries -> Port]
  BY DEF Good, Asking
<1>2. \A i, j \in Entries : f[i] = f[j] => i = j
  <2> SUFFICES ASSUME NEW i \in Entries, NEW j \in Entries, f[i] = f[j] PROVE i = j
    OBVIOUS
  <2>1. w.cache[i].port = w.cache[j].port /\ w.cache[i].ip = w.cache[j].ip
    BY DEF Good, Asking
  <2> QED
    BY <2>1 DEF Good, OneEach
<1> HIDE DEF f
<1>3. f \in Injection(Entries, Port)
  BY <1>1, <1>2 DEF Injection, IsInjective
<1>4. IsFiniteSet(Entries) /\ Cardinality(Entries) = ARP_CACHE_NR
  <2>1. ARP_CACHE_NR \in Nat /\ 1 \in Int
    BY Times
  <2>2. /\ IsFiniteSet(1 .. ARP_CACHE_NR)
        /\ Cardinality(1 .. ARP_CACHE_NR)
             = IF 1 > ARP_CACHE_NR THEN 0 ELSE ARP_CACHE_NR - 1 + 1
    BY <2>1, FS_Interval
  <2> QED
    BY <2>1, <2>2 DEF Entries
<1>5. Cardinality(Entries) <= Cardinality(Port)
  BY <1>3, <1>4, ArpAssumption, FS_Injection
<1>6. Cardinality(Port) \in Nat
  BY ArpAssumption, FS_CardinalityType
<1> QED
  BY <1>4, <1>5, <1>6, ArpAssumption

LEMMA Allocated ==
  ASSUME NEW w, Good(w)
  PROVE  /\ alloc_cache_ent(w) \in Entries
         /\ w.cache[alloc_cache_ent(w)].state # "INCOMPLETE"
<1> DEFINE unused == {i \in Entries : w.cache[i].state = "UNUSED"}
           others == {i \in Entries : w.cache[i].state # "INCOMPLETE"}
           idle(i) == w.cache[i].idle
           best(i) == \A j \in others : idle(i) > idle(j) \/ (idle(i) = idle(j) /\ i <= j)
<1>1. Entries \in SUBSET Nat /\ w.cache \in [Entries -> Entry]
  BY Times, WorldParts DEF Entries, Good
<1>2. CASE unused # {}
  <2>1. unused \in SUBSET Nat
    BY <1>1
  <2> HIDE DEF unused
  <2>2. Min(unused) \in unused
    BY <1>2, <2>1, MinNat
  <2> QED
    BY <1>2, <2>2 DEF alloc_cache_ent, unused
<1>3. CASE unused = {}
  <2>1. others # {}
    BY NotAllAsked
  <2> DEFINE times == {idle(i) : i \in others}
             m == Max(times)
             top == {i \in others : idle(i) = m}
  <2>2. times \in SUBSET Nat /\ times # {} /\ \A x \in times : x <= MaxIdle
    <3>1. \A i \in others : idle(i) \in 0 .. MaxIdle
      BY <1>1 DEF Entry
    <3>2. \A x \in times : x \in 0 .. MaxIdle
      BY <3>1
    <3>3. times # {}
      BY <2>1
    <3> HIDE DEF times
    <3> QED
      BY <3>2, <3>3, Times
  <2>3. \A i \in others : idle(i) \in times
    OBVIOUS
  <2>4. \A x \in times : \E i \in others : x = idle(i)
    OBVIOUS
  <2> HIDE DEF times
  <2>5. m \in times /\ \A x \in times : m >= x
    BY <2>2, Times, MaxNat
  <2> HIDE DEF m
  <2>6. top \in SUBSET Nat /\ top # {}
    BY <1>1, <2>4, <2>5
  <2> DEFINE k == Min(top)
  <2>7. top \subseteq others /\ \A i \in top : idle(i) = m
    OBVIOUS
  <2>8. \A i \in others : i \in top \/ idle(i) # m
    OBVIOUS
  <2> HIDE DEF top
  <2>9. k \in top /\ \A i \in top : k <= i
    BY <2>6, MinNat
  <2> HIDE DEF k
  <2>10. k \in others /\ best(k)
    <3> SUFFICES ASSUME NEW j \in others
                 PROVE  idle(k) > idle(j) \/ (idle(k) = idle(j) /\ k <= j)
      BY <2>7, <2>9
    <3>1. idle(j) \in times /\ m \in Nat /\ idle(j) \in Nat /\ m >= idle(j) /\ idle(k) = m
      BY <2>2, <2>3, <2>5, <2>7, <2>9
    <3> QED
      BY <2>7, <2>8, <2>9, <3>1
  <2>11. alloc_cache_ent(w) = CHOOSE i \in others : best(i)
    BY <1>3 DEF alloc_cache_ent
  <2> HIDE DEF best
  <2>12. alloc_cache_ent(w) \in others
    BY <2>10, <2>11
  <2> QED
    BY <2>12
<1> QED
  BY <1>2, <1>3

-----------------------------------------------------------------------------
(* Changes that leave a world good.  Unused entries and idle times do not
   matter to anything. *)
SameEntry(d, e) ==
  d.state = e.state /\ d.ip = e.ip /\ d.port = e.port /\ d.eth = e.eth /\ d.left = e.left

Quiet(w, v) ==
  /\ v.port = w.port
  /\ \A i \in Entries : SameEntry(v.cache[i], w.cache[i])

LEMMA GoodQuiet ==
  ASSUME NEW w, Good(w), NEW v \in Worlds, Quiet(w, v), Aimed(v)
  PROVE  Good(v)
<1>1. OneEach(v)
  BY DEF Good, OneEach, Quiet, SameEntry
<1>2. Asking(v)
  BY DEF Good, Asking, Quiet, SameEntry
<1>3. Told(v)
  BY DEF Good, Told, Quiet, SameEntry
<1>4. Ticking(v)
  BY DEF Good, Ticking, Quiet
<1> QED
  BY <1>1, <1>2, <1>3, <1>4 DEF Good

(* An entry expired. *)
LEMMA UnusedEntry == Unused \in Entry /\ Unused.state = "UNUSED"
BY Times DEF Unused, Entry

LEMMA GoodForgot ==
  ASSUME NEW w, Good(w), NEW i \in Entries,
         NEW v, Is(v, [w.cache EXCEPT ![i] = Unused], w.port, w.arpq, w.wire)
  PROVE  Good(v) /\ v.cache[i].state = "UNUSED"
         /\ \A j \in Entries : j # i => v.cache[j] = w.cache[j]
<1>1. /\ v \in Worlds /\ v.port = w.port /\ v.wire = w.wire
      /\ v.cache[i].state = "UNUSED"
      /\ \A j \in Entries : j # i => v.cache[j] = w.cache[j]
  BY WorldParts, UnusedEntry DEF Is, Good
<1>2. OneEach(v)
  BY <1>1 DEF Good, OneEach
<1>3. Asking(v)
  BY <1>1 DEF Good, Asking
<1>4. Told(v)
  BY <1>1 DEF Good, Told
<1>5. Ticking(v) /\ Aimed(v)
  BY <1>1 DEF Good, Ticking, Aimed
<1> QED
  BY <1>1, <1>2, <1>3, <1>4, <1>5 DEF Good

(* find_cache_ent() *)
LEMMA MatchesOne ==
  ASSUME NEW w, Good(w), NEW p \in Port, NEW ip, NEW i \in Matches(w, p, ip)
  PROVE  /\ i \in Entries /\ Matches(w, p, ip) = {i} /\ Min(Matches(w, p, ip)) = i
         /\ i # 0
<1>1. i \in Entries /\ i # 0 /\ i \in Nat
  BY Times DEF Matches, Entries
<1>2. Matches(w, p, ip) = {i}
  BY <1>1 DEF Matches, Good, OneEach
<1>3. Min({i}) = i
  <2>1. {i} \in SUBSET Nat /\ {i} # {}
    BY <1>1
  <2>2. Min({i}) \in {i}
    BY <2>1, MinNat
  <2> QED
    BY <2>2
<1> QED
  BY <1>1, <1>2, <1>3

LEMMA Found ==
  ASSUME NEW w, Good(w), NEW p \in Port, NEW ip, NEW f, f = find_cache_ent(w, p, ip)
  PROVE  \/ f.w = w /\ f.i \in Matches(w, p, ip) /\ f.i # 0 /\ ~Expired(w.cache[f.i])
         \/ f.i = 0 /\ f.w = w /\ Matches(w, p, ip) = {}
         \/ f.i = 0 /\ \E i \in Matches(w, p, ip) :
              /\ Expired(w.cache[i])
              /\ Is(f.w, [w.cache EXCEPT ![i] = Unused], w.port, w.arpq, w.wire)
<1> DEFINE m == Matches(w, p, ip)
<1>1. CASE m = {}
  BY <1>1 DEF find_cache_ent
<1>2. CASE m # {}
  <2>1. PICK i \in m : TRUE
    BY <1>2
  <2>2. i \in Entries /\ Min(m) = i /\ i # 0
    BY <2>1, MatchesOne
  <2>3. CASE Expired(w.cache[i])
    <3>1. f = [w |-> [w EXCEPT !.cache[i] = Unused], i |-> 0]
      BY <1>2, <2>2, <2>3 DEF find_cache_ent
    <3>2. w \in Worlds
      BY DEF Good
    <3>3. Is([w EXCEPT !.cache[i] = Unused], [w.cache EXCEPT ![i] = Unused],
             w.port, w.arpq, w.wire)
      BY <2>2, <3>2, PutEntry, UnusedEntry
    <3>4. f.i = 0 /\ f.w = [w EXCEPT !.cache[i] = Unused]
      BY <3>1
    <3> QED
      BY <2>1, <2>3, <3>3, <3>4
  <2>4. CASE ~Expired(w.cache[i])
    <3>1. f = [w |-> w, i |-> i]
      BY <1>2, <2>2, <2>4 DEF find_cache_ent
    <3> QED
      BY <2>1, <2>2, <2>4, <3>1
  <2> QED
    BY <2>3, <2>4
<1> QED
  BY <1>1, <1>2

-----------------------------------------------------------------------------
(* What looking up an address for port p may do: the other ports are as they
   were, and so is what is incomplete and has not expired; nothing becomes
   valid; and the port is as it was, or has started a request. *)
Started(w, v, p) ==
  /\ ~w.port[p].clientreq /\ v.port[p].clientreq
  /\ v.port[p].up = w.port[p].up
  /\ v.port[p].timer = ARP_TIMEOUT /\ v.port[p].count = 0
  /\ \E i \in Entries : /\ v.cache[i].state = "INCOMPLETE" /\ v.cache[i].port = p
                        /\ v.cache[i].ip = v.port[p].req
                        /\ v.cache[i].left = ARP_EXP_TIME

Asks(w, v, p) ==
  /\ \A q \in Port : q # p => v.port[q] = w.port[q] /\ v.arpq[q] = w.arpq[q]
  /\ \A i \in Entries :
       /\ w.cache[i].state = "INCOMPLETE" /\ ~Expired(w.cache[i]) =>
            /\ v.cache[i].state = "INCOMPLETE" /\ v.cache[i].port = w.cache[i].port
            /\ v.cache[i].ip = w.cache[i].ip /\ v.cache[i].left = w.cache[i].left
       /\ v.cache[i].state = "VALID" =>
            w.cache[i].state = "VALID" /\ v.cache[i].ip = w.cache[i].ip
  /\ v.port[p] = w.port[p] \/ Started(w, v, p)

(* The frame and the entry of a new request. *)
LEMMA Starts ==
  ASSUME NEW w, Good(w), NEW p \in Port, NEW ip \in Host,
         w.port[p].up, ~w.port[p].clientreq, Matches(w, p, ip) = {}
  PROVE  LET v == StartRequest(w, p, ip)
         IN  /\ Good(v) /\ Asks(w, v, p) /\ v.arpq = w.arpq
             /\ v.port[p].clientreq
<1> DEFINE j == alloc_cache_ent(w)
           e == [w.cache[j] EXCEPT !.state = "INCOMPLETE", !.ip = ip, !.port = p,
                                   !.left = ARP_EXP_TIME, !.idle = 0]
           s == [w.port[p] EXCEPT !.clientreq = TRUE, !.req = ip, !.count = 0]
           w1 == Incomplete(w, p, ip)
           w2 == [w1 EXCEPT !.port[p].clientreq = TRUE, !.port[p].req = ip,
                            !.port[p].count = 0]
           f == [kind |-> "REQUEST", ip |-> w2.port[p].req, eth |-> None]
           w3 == Emit(w2, p, f)
           v == [w3 EXCEPT !.port[p].timer = ARP_TIMEOUT]
<1>1. w \in Worlds /\ j \in Entries /\ w.cache[j].state # "INCOMPLETE"
  BY Allocated DEF Good
<1> HIDE DEF j
<1>2. /\ e \in Entry /\ e.state = "INCOMPLETE" /\ e.ip = ip /\ e.port = p
      /\ e.left = ARP_EXP_TIME
  <2>1. w.cache[j] \in Entry
    BY <1>1, WorldParts
  <2>2. /\ e.state = "INCOMPLETE" /\ e.ip = ip /\ e.port = p
        /\ e.left = ARP_EXP_TIME
    BY <2>1 DEF Entry
  <2>3. e \in Entry
    BY <2>1, Bounds DEF Entry
  <2> QED
    BY <2>2, <2>3
<1>3. w1 = [w EXCEPT !.cache[j] = e]
  BY DEF Incomplete, j
<1> HIDE DEF e
<1>4. Is(w1, [w.cache EXCEPT ![j] = e], w.port, w.arpq, w.wire)
  BY <1>1, <1>2, <1>3, PutEntry
<1> HIDE DEF w1
<1>5. /\ s \in PortState /\ s.clientreq = TRUE /\ s.req = ip /\ s.count = 0
      /\ s.up = w.port[p].up
  <2>1. w.port[p] \in PortState
    BY <1>1, WorldParts
  <2>2. s.clientreq = TRUE /\ s.req = ip /\ s.count = 0 /\ s.up = w.port[p].up
    BY <2>1 DEF PortState
  <2>3. s \in PortState
    BY <2>1, Bounds DEF PortState
  <2> QED
    BY <2>2, <2>3
<1>6. w2 = [w1 EXCEPT !.port[p] = s]
  <2>1. w1 \in Worlds /\ w1.port = w.port
    BY <1>4 DEF Is
  <2> QED
    BY <2>1 DEF Worlds, PortState
<1> HIDE DEF s
<1>7. Is(w2, w1.cache, [w1.port EXCEPT ![p] = s], w1.arpq, w1.wire)
  <2>1. w1 \in Worlds
    BY <1>4 DEF Is
  <2> QED
    BY <1>5, <1>6, <2>1, PutPort
<1> HIDE DEF w2
<1>8. w2.port[p] = s /\ \A q \in Port : q # p => w2.port[q] = w.port[q]
  BY <1>1, <1>4, <1>7, WorldParts DEF Is
<1>9. f \in Frame /\ f.kind = "REQUEST"
  BY <1>5, <1>8 DEF Frame
<1> HIDE DEF f
<1>10. Is(w3, w2.cache, w2.port, w2.arpq, [w2.wire EXCEPT ![p] = w2.wire[p] \cup {f}])
  <2>1. w2 \in Worlds /\ {f} \in SUBSET Frame
    BY <1>7, <1>9 DEF Is
  <2> QED
    BY <2>1, PutWire DEF Emit
<1> HIDE DEF w3
<1> DEFINE u == [s EXCEPT !.timer = ARP_TIMEOUT]
<1>11. /\ u \in PortState /\ u.clientreq = TRUE /\ u.req = ip /\ u.count = 0
       /\ u.up = w.port[p].up /\ u.timer = ARP_TIMEOUT
  <2>1. u.clientreq = TRUE /\ u.req = ip /\ u.count = 0 /\ u.up = w.port[p].up
        /\ u.timer = ARP_TIMEOUT
    BY <1>5 DEF PortState
  <2>2. u \in PortState
    BY <1>5, Bounds DEF PortState
  <2> QED
    BY <2>1, <2>2
<1>12. v = [w3 EXCEPT !.port[p] = u]
  <2>1. w3 \in Worlds /\ w3.port[p] = s
    BY <1>8, <1>10 DEF Is
  <2> QED
    BY <2>1 DEF Worlds
<1> HIDE DEF u
<1>13. Is(v, w3.cache, [w3.port EXCEPT ![p] = u], w3.arpq, w3.wire)
  <2>1. w3 \in Worlds
    BY <1>10 DEF Is
  <2> QED
    BY <1>11, <1>12, <2>1, PutPort
<1> HIDE DEF v
<1>14. /\ v \in Worlds /\ v.cache = [w.cache EXCEPT ![j] = e] /\ v.arpq = w.arpq
       /\ v.wire = [w.wire EXCEPT ![p] = w.wire[p] \cup {f}]
  BY <1>4, <1>7, <1>10, <1>13 DEF Is
<1>15. v.port[p] = u /\ \A q \in Port : q # p => v.port[q] = w.port[q]
  <2>1. w3.port \in [Port -> PortState] /\ w3.port = w2.port
    BY <1>10, WorldParts DEF Is
  <2> QED
    BY <1>8, <1>13, <2>1 DEF Is
<1>16. v.cache[j] = e /\ \A i \in Entries : i # j => v.cache[i] = w.cache[i]
  BY <1>1, <1>14, WorldParts
<1>17. \A i \in Entries : w.cache[i].state # "UNUSED" /\ w.cache[i].port = p
                         => w.cache[i].ip # ip
  BY DEF Matches
<1>18. \A i \in Entries : w.cache[i].state = "INCOMPLETE" => w.cache[i].port # p
  BY DEF Good, Asking
<1>19. Good(v)
  <2>1. OneEach(v)
    BY <1>2, <1>16, <1>17 DEF Good, OneEach
  <2>2. Asking(v)
    BY <1>2, <1>11, <1>15, <1>16, <1>18 DEF Good, Asking
  <2>3. Told(v)
    BY <1>2, <1>16 DEF Good, Told
  <2>4. Ticking(v)
    <3>1. /\ v.port[p].clientreq /\ v.port[p].count < MAX_ARP_RETRIES /\ v.port[p].up
          /\ v.port[p].req \in Host
      BY <1>11, <1>15, Bounds
    <3> QED
      BY <1>15, <3>1 DEF Good, Ticking
  <2>5. Aimed(v)
    <3>1. \A q \in Port : \A g \in v.wire[q] : g \in w.wire[q] \/ g = f
      BY <1>1, <1>14, WorldParts
    <3> QED
      BY <1>9, <3>1 DEF Good, Aimed
  <2> QED
    BY <1>14, <2>1, <2>2, <2>3, <2>4, <2>5 DEF Good
<1>20. Started(w, v, p)
  BY <1>1, <1>2, <1>11, <1>15, <1>16 DEF Started
<1>21. Asks(w, v, p)
  BY <1>1, <1>2, <1>14, <1>15, <1>16, <1>20 DEF Asks
<1>22. v.port[p].clientreq
  BY <1>11, <1>15
<1>23. StartRequest(w, p, ip) = v
  BY DEF StartRequest, Ask, v, w3, f, w2, w1
<1> QED
  BY <1>14, <1>19, <1>21, <1>22, <1>23

LEMMA QuietAsks ==
  ASSUME NEW w, NEW v, NEW p \in Port, Quiet(w, v),
         \A q \in Port : q # p => v.arpq[q] = w.arpq[q]
  PROVE  Asks(w, v, p)
BY DEF Asks, Quiet, SameEntry

LEMMA AsksOn ==
  ASSUME NEW w, NEW u, NEW v, NEW p \in Port, Asks(w, u, p), u.port = w.port, Asks(u, v, p)
  PROVE  Asks(w, v, p)
<1>1. \A q \in Port : q # p => v.port[q] = w.port[q] /\ v.arpq[q] = w.arpq[q]
  BY DEF Asks
<1>2. ASSUME NEW i \in Entries
      PROVE  /\ w.cache[i].state = "INCOMPLETE" /\ ~Expired(w.cache[i]) =>
                  /\ v.cache[i].state = "INCOMPLETE" /\ v.cache[i].port = w.cache[i].port
                  /\ v.cache[i].ip = w.cache[i].ip /\ v.cache[i].left = w.cache[i].left
             /\ v.cache[i].state = "VALID" =>
                  w.cache[i].state = "VALID" /\ v.cache[i].ip = w.cache[i].ip
  BY DEF Asks, Expired
<1>3. v.port[p] = w.port[p] \/ Started(w, v, p)
  BY DEF Asks, Started
<1> QED
  BY <1>1, <1>2, <1>3 DEF Asks

(* Looking for an entry: none is found without being there, and what expires
   is forgotten. *)
LEMMA FoundGood ==
  ASSUME NEW w, Good(w), NEW p \in Port, NEW ip, NEW f, f = find_cache_ent(w, p, ip)
  PROVE  /\ Good(f.w) /\ Asks(w, f.w, p)
         /\ f.w.port = w.port /\ f.w.arpq = w.arpq /\ f.w.wire = w.wire
         /\ f.i = 0 => Matches(f.w, p, ip) = {}
         /\ f.i # 0 => f.w = w /\ f.i \in Matches(w, p, ip) /\ ~Expired(w.cache[f.i])
<1>1. \/ f.w = w /\ f.i \in Matches(w, p, ip) /\ f.i # 0 /\ ~Expired(w.cache[f.i])
      \/ f.i = 0 /\ f.w = w /\ Matches(w, p, ip) = {}
      \/ f.i = 0 /\ \E i \in Matches(w, p, ip) :
           /\ Expired(w.cache[i])
           /\ Is(f.w, [w.cache EXCEPT ![i] = Unused], w.port, w.arpq, w.wire)
  BY Found
<1>2. CASE f.w = w
  <2>1. Asks(w, w, p)
    BY QuietAsks DEF Quiet, SameEntry
  <2>2. f.i = 0 => Matches(w, p, ip) = {}
    <3>1. ASSUME NEW i \in Matches(w, p, ip), Expired(w.cache[i]),
                 Is(w, [w.cache EXCEPT ![i] = Unused], w.port, w.arpq, w.wire)
          PROVE  FALSE
      <4>1. i \in Entries /\ w.cache[i].state # "UNUSED"
        BY DEF Matches
      <4>2. w.cache[i].state = "UNUSED"
        BY <3>1, <4>1, GoodForgot
      <4> QED
        BY <4>1, <4>2
    <3> QED
      BY <1>1, <1>2, <3>1
  <2> QED
    BY <1>1, <1>2, <2>1, <2>2
<1>3. ASSUME f.i = 0, NEW i \in Matches(w, p, ip), Expired(w.cache[i]),
             Is(f.w, [w.cache EXCEPT ![i] = Unused], w.port, w.arpq, w.wire)
      PROVE  Good(f.w) /\ Asks(w, f.w, p) /\ f.w.port = w.port /\ f.w.arpq = w.arpq
             /\ f.w.wire = w.wire /\ Matches(f.w, p, ip) = {}
  <2>1. i \in Entries /\ Matches(w, p, ip) = {i}
    BY MatchesOne
  <2>2. /\ Good(f.w) /\ f.w.cache[i].state = "UNUSED"
        /\ \A j \in Entries : j # i => f.w.cache[j] = w.cache[j]
    BY <1>3, <2>1, GoodForgot
  <2>3. f.w.port = w.port /\ f.w.arpq = w.arpq /\ f.w.wire = w.wire
    BY <1>3 DEF Is
  <2>4. Asks(w, f.w, p)
    BY <1>3, <2>1, <2>2, <2>3 DEF Asks
  <2>5. Matches(f.w, p, ip) = {}
    BY <2>1, <2>2 DEF Matches
  <2> QED
    BY <2>2, <2>3, <2>4, <2>5
<1> QED
  BY <1>1, <1>2, <1>3

(* arp_ip_eth() *)
LEMMA Looked ==
  ASSUME NEW w, Good(w), NEW p \in Port, NEW ip \in Host, w.port[p].up,
         NEW a, a = arp_ip_eth(w, p, ip)
  PROVE  /\ Good(a.w) /\ Asks(w, a.w, p) /\ a.w.arpq = w.arpq
         /\ a.r = "SUSPEND" => a.w.port[p].clientreq
         /\ a.r = "OK" => a.eth = ip
         /\ a.r \in {"OK", "EDSTNOTRCH", "SUSPEND"}
         /\ a.r # "SUSPEND" => Ready(w, p, ip)
<1> DEFINE f == find_cache_ent(w, p, ip)
           e == f.w.cache[f.i]
<1>1. /\ f.i # 0 => a = [w |-> [f.w EXCEPT !.cache[f.i].idle = 0], eth |-> e.eth,
                         r |-> CASE e.state = "VALID" -> "OK"
                                 [] e.state = "UNREACHABLE" -> "EDSTNOTRCH"
                                 [] e.state = "INCOMPLETE" -> "SUSPEND"]
      /\ f.i = 0 => a = [w |-> IF f.w.port[p].clientreq THEN f.w ELSE StartRequest(f.w, p, ip),
                         r |-> "SUSPEND", eth |-> None]
  BY DEF arp_ip_eth
<1>2. /\ Good(f.w) /\ Asks(w, f.w, p) /\ f.w.port = w.port /\ f.w.arpq = w.arpq
      /\ f.i = 0 => Matches(f.w, p, ip) = {}
      /\ f.i # 0 => f.w = w /\ f.i \in Matches(w, p, ip) /\ ~Expired(w.cache[f.i])
  BY FoundGood
<1> HIDE DEF f
<1>3. ASSUME f.i = 0
      PROVE  /\ Good(a.w) /\ Asks(w, a.w, p) /\ a.w.arpq = w.arpq
             /\ a.w.port[p].clientreq
  <2>1. CASE f.w.port[p].clientreq
    BY <1>1, <1>2, <1>3, <2>1
  <2>2. CASE ~f.w.port[p].clientreq
    <3>1. a.w = StartRequest(f.w, p, ip)
      BY <1>1, <1>3, <2>2
    <3>2. f.w.port[p].up
      BY <1>2
    <3>3. Good(a.w) /\ Asks(f.w, a.w, p) /\ a.w.arpq = f.w.arpq /\ a.w.port[p].clientreq
      BY <1>2, <1>3, <2>2, <3>1, <3>2, Starts
    <3> QED
      BY <1>2, <3>3, AsksOn
  <2> QED
    BY <2>1, <2>2
<1>4. f.i = 0 => a.r = "SUSPEND"
  BY <1>1
<1>7. CASE f.i # 0
  <2> DEFINE i == f.i
             d == [w.cache[i] EXCEPT !.idle = 0]
  <2>1. /\ i \in Entries /\ w.cache[i].state # "UNUSED" /\ w.cache[i].port = p
        /\ w.cache[i].ip = ip /\ w \in Worlds
    BY <1>2, <1>7 DEF Matches, Good
  <2>2. w.cache[i] \in Entry
    BY <2>1, WorldParts
  <2>3. SameEntry(d, w.cache[i])
    BY <2>2 DEF Entry, SameEntry
  <2>4. d \in Entry
    BY <2>2, Bounds DEF Entry
  <2>5. a.w = [w EXCEPT !.cache[i] = d]
    BY <1>1, <1>2, <1>7
  <2>6. a.eth = w.cache[i].eth
        /\ a.r = CASE w.cache[i].state = "VALID" -> "OK"
                   [] w.cache[i].state = "UNREACHABLE" -> "EDSTNOTRCH"
                   [] w.cache[i].state = "INCOMPLETE" -> "SUSPEND"
    <3> DEFINE c == CASE e.state = "VALID" -> "OK"
                      [] e.state = "UNREACHABLE" -> "EDSTNOTRCH"
                      [] e.state = "INCOMPLETE" -> "SUSPEND"
    <3>1. a = [w |-> [f.w EXCEPT !.cache[f.i].idle = 0], eth |-> e.eth, r |-> c]
      BY <1>1, <1>7, Zenon
    <3>2. e = w.cache[i]
      BY <1>2, <1>7
    <3> HIDE DEF c, e
    <3>3. a.eth = e.eth /\ a.r = c
      BY <3>1
    <3> QED
      BY <3>2, <3>3, Zenon DEF c
  <2> HIDE DEF i, d
  <2>7. Is(a.w, [w.cache EXCEPT ![i] = d], w.port, w.arpq, w.wire)
    BY <2>1, <2>4, <2>5, PutEntry
  <2>8. Quiet(w, a.w)
    <3>1. a.w.cache[i] = d /\ \A j \in Entries : j # i => a.w.cache[j] = w.cache[j]
      BY <2>1, <2>7, WorldParts DEF Is
    <3> QED
      BY <2>3, <2>7, <3>1 DEF Quiet, SameEntry, Is
  <2>9. Good(a.w)
    <3>1. Aimed(a.w) /\ a.w \in Worlds
      BY <2>7 DEF Good, Aimed, Is
    <3> QED
      BY <2>8, <3>1, GoodQuiet
  <2>10. Asks(w, a.w, p) /\ a.w.arpq = w.arpq /\ a.w.port = w.port
    <3>1. a.w.arpq = w.arpq /\ a.w.port = w.port
      BY <2>7 DEF Is
    <3> QED
      BY <2>8, <3>1, QuietAsks
  <2>11. w.cache[i].state \in {"VALID", "UNREACHABLE", "INCOMPLETE"}
    BY <2>1, <2>2 DEF Entry
  <2>12. a.r = "OK" => a.eth = ip
    BY <2>1, <2>6, <2>11 DEF Good, Told
  <2>13. a.r = "SUSPEND" => a.w.port[p].clientreq
    <3>1. w.cache[i].state = "INCOMPLETE" => w.port[p].clientreq
      BY <2>1 DEF Good, Asking
    <3> QED
      BY <2>6, <2>10, <2>11, <3>1
  <2>14. a.r \in {"OK", "EDSTNOTRCH", "SUSPEND"}
    BY <2>6, <2>11
  <2>15. a.r # "SUSPEND" => Ready(w, p, ip)
    <3>1. w.cache[i].state = "INCOMPLETE" => a.r = "SUSPEND"
      BY <2>6, <2>11
    <3>2. i \in Matches(w, p, ip) /\ ~Expired(w.cache[i])
      BY <1>2, <1>7 DEF i
    <3> QED
      BY <3>1, <3>2 DEF Ready
  <2> QED
    BY <2>9, <2>10, <2>12, <2>13, <2>14, <2>15
<1> QED
  BY <1>3, <1>4, <1>7

-----------------------------------------------------------------------------
(* The times of a request: its first try, the next and a tick. *)
LEMMA DueNat ==
  ASSUME NEW s \in PortState, s.timer # None, s.count < MAX_ARP_RETRIES
  PROVE  Due(s) \in Nat /\ Due(s) >= s.timer
<1> DEFINE n == MAX_ARP_RETRIES - 1 - s.count
<1>1. n \in Nat /\ s.timer \in Nat /\ ARP_TIMEOUT \in Nat
  BY Times DEF PortState
<1>2. Due(s) = s.timer + n * ARP_TIMEOUT
  BY DEF Due
<1> HIDE DEF n
<1>3. n * ARP_TIMEOUT \in Nat
  BY <1>1
<1> QED
  BY <1>1, <1>2, <1>3

LEMMA DueFirst ==
  ASSUME NEW s, s.timer = ARP_TIMEOUT, s.count = 0
  PROVE  ARP_EXP_TIME >= Due(s)
<1>1. Due(s) = MAX_ARP_RETRIES * ARP_TIMEOUT
  BY Times DEF Due
<1> QED
  BY <1>1, TimesAssumption

LEMMA DueNext ==
  ASSUME NEW s \in PortState, NEW t, s.timer = 0, t.timer = ARP_TIMEOUT,
         t.count = s.count + 1
  PROVE  Due(t) = Due(s)
<1>1. MAX_ARP_RETRIES \in Nat /\ ARP_TIMEOUT \in Nat /\ s.count \in Nat
  BY Times DEF PortState
<1> QED
  BY <1>1 DEF Due

LEMMA CoveredAsks ==
  ASSUME NEW w, Good(w), NEW X, Covered(w, X), NEW p \in Port, NEW v, Asks(w, v, p)
  PROVE  Covered(v, X)
<1> SUFFICES ASSUME NEW q \in Port \ X PROVE CoveredAt(v, q)
  BY DEF Covered
<1>1. CoveredAt(w, q)
  BY DEF Covered
<1>2. CASE v.port[q] = w.port[q]
  <2>1. ASSUME v.port[q].clientreq
        PROVE  \E i \in Entries : /\ v.cache[i].state = "INCOMPLETE" /\ v.cache[i].port = q
                                  /\ v.cache[i].ip = v.port[q].req
                                  /\ v.cache[i].left >= Due(v.port[q])
    <3>1. PICK i \in Entries : /\ w.cache[i].state = "INCOMPLETE" /\ w.cache[i].port = q
                              /\ w.cache[i].ip = w.port[q].req
                              /\ w.cache[i].left >= Due(w.port[q])
      BY <1>1, <1>2, <2>1 DEF CoveredAt
    <3>2. Due(w.port[q]) \in Nat
      <4>1. w.port[q] \in PortState
        BY WorldParts DEF Good
      <4>2. w.port[q].timer # None /\ w.port[q].count < MAX_ARP_RETRIES
        BY <1>1, <1>2, <2>1 DEF CoveredAt, Good, Ticking
      <4> QED
        BY <4>1, <4>2, DueNat
    <3>3. w.cache[i].left \in Int
      <4>1. w.cache[i] \in Entry
        BY WorldParts DEF Good
      <4> QED
        BY <4>1, Times DEF Entry
    <3>4. ~Expired(w.cache[i])
      BY <3>1, <3>2, <3>3 DEF Expired
    <3> QED
      BY <1>2, <3>1, <3>4 DEF Asks
  <2> QED
    BY <1>1, <1>2, <2>1 DEF CoveredAt
<1>3. CASE v.port[q] # w.port[q]
  <2>1. q = p /\ Started(w, v, p)
    BY <1>3 DEF Asks
  <2>2. ARP_EXP_TIME >= Due(v.port[p])
    BY <2>1, DueFirst DEF Started
  <2>3. v.port[p].timer # None
    BY <2>1, Bounds DEF Started
  <2> QED
    BY <2>1, <2>2, <2>3 DEF Started, CoveredAt
<1> QED
  BY <1>2, <1>3

(* An entry written to: its address is no other's, and nothing becomes
   incomplete. *)
Fits(w, i, d) ==
  /\ d.state = "INCOMPLETE" => w.cache[i].state = "INCOMPLETE"
                               /\ d.ip = w.cache[i].ip /\ d.port = w.cache[i].port
  /\ d.state # "UNUSED" => \A j \in Matches(w, d.port, d.ip) : j = i
  /\ d.state = "VALID" => d.eth = d.ip

Rewritten(w, v, i, d) ==
  /\ v.port = w.port /\ v.arpq = w.arpq /\ v.wire = w.wire
  /\ v.cache[i] = d /\ \A j \in Entries : j # i => v.cache[j] = w.cache[j]

LEMMA GoodPut ==
  ASSUME NEW w, Good(w), NEW i \in Entries, NEW d \in Entry, Fits(w, i, d),
         NEW v, v = [w EXCEPT !.cache[i] = d]
  PROVE  Good(v) /\ Rewritten(w, v, i, d)
<1>0. Is(v, [w.cache EXCEPT ![i] = d], w.port, w.arpq, w.wire)
  <2>1. w \in Worlds
    BY DEF Good
  <2> QED
    BY <2>1, PutEntry
<1>1. /\ v \in Worlds /\ v.port = w.port /\ v.arpq = w.arpq /\ v.wire = w.wire
      /\ v.cache[i] = d
      /\ \A j \in Entries : j # i => v.cache[j] = w.cache[j]
  BY <1>0, WorldParts DEF Is, Good
<1>2. OneEach(v)
  <2>1. \A j \in Entries : j # i /\ d.state # "UNUSED" /\ w.cache[j].state # "UNUSED" =>
                            ~(w.cache[j].port = d.port /\ w.cache[j].ip = d.ip)
    BY DEF Matches, Fits
  <2> QED
    BY <1>1, <2>1 DEF Good, OneEach
<1>3. Asking(v)
  BY <1>1 DEF Good, Asking, Fits
<1>4. Told(v)
  BY <1>1 DEF Good, Told, Fits
<1>5. Ticking(v) /\ Aimed(v)
  BY <1>1 DEF Good, Ticking, Aimed
<1> QED
  BY <1>1, <1>2, <1>3, <1>4, <1>5 DEF Good, Rewritten

(* It covered no request, or that of a port of X, or still covers it. *)
StillAsked(e, d, X) ==
  e.state = "INCOMPLETE" =>
    \/ e.port \in X
    \/ /\ d.state = "INCOMPLETE" /\ d.port = e.port /\ d.ip = e.ip
       /\ d.left >= e.left

LEMMA CoveredPut ==
  ASSUME NEW w, Good(w), NEW i \in Entries, NEW d, NEW v, Good(v),
         Rewritten(w, v, i, d), NEW X, StillAsked(w.cache[i], d, X)
  PROVE  Covered(w, {}) => Covered(v, X)
<1> SUFFICES ASSUME Covered(w, {}), NEW q \in Port \ X PROVE CoveredAt(v, q)
  BY DEF Covered
<1>1. CoveredAt(w, q)
  BY DEF Covered
<1>2. ASSUME v.port[q].clientreq
      PROVE  \E k \in Entries : /\ v.cache[k].state = "INCOMPLETE" /\ v.cache[k].port = q
                                /\ v.cache[k].ip = v.port[q].req
                                /\ v.cache[k].left >= Due(v.port[q])
  <2>1. PICK k \in Entries : /\ w.cache[k].state = "INCOMPLETE" /\ w.cache[k].port = q
                            /\ w.cache[k].ip = w.port[q].req
                            /\ w.cache[k].left >= Due(w.port[q])
    BY <1>1, <1>2 DEF CoveredAt, Rewritten
  <2>2. Due(w.port[q]) \in Nat
    <3>1. w.port[q] \in PortState
      BY WorldParts DEF Good
    <3>2. w.port[q].timer # None /\ w.port[q].count < MAX_ARP_RETRIES
      BY <1>1, <1>2 DEF CoveredAt, Good, Ticking, Rewritten
    <3> QED
      BY <3>1, <3>2, DueNat
  <2>3. w.cache[k].left \in Int /\ v.cache[k].left \in Int
    <3>1. w.cache[k] \in Entry /\ v.cache[k] \in Entry
      BY WorldParts DEF Good
    <3> QED
      BY <3>1, Times DEF Entry
  <2>4. /\ v.cache[k].left >= w.cache[k].left /\ v.cache[k].state = "INCOMPLETE"
        /\ v.cache[k].port = q /\ v.cache[k].ip = w.port[q].req
    BY <2>1, <2>3 DEF Rewritten, StillAsked
  <2>5. v.port = w.port
    BY DEF Rewritten
  <2>6. v.cache[k].left >= Due(v.port[q])
    BY <2>1, <2>2, <2>3, <2>4, <2>5
  <2> QED
    BY <2>4, <2>5, <2>6
<1> QED
  BY <1>1, <1>2 DEF CoveredAt, Rewritten

-----------------------------------------------------------------------------
(* ip_eth.c *)
LEMMA FramesAimed ==
  ASSUME NEW pk, NEW eth
  PROVE  /\ \A f \in Frames(pk, eth) : f.kind = "IP" /\ f.ip = pk.dest /\ f.eth = eth
         /\ pk.dest \in Host /\ eth \in Host \cup {None} => Frames(pk, eth) \subseteq Frame
<1> DEFINE g == [kind |-> "IP", ip |-> pk.dest, eth |-> eth]
<1>1. Frames(pk, eth) \subseteq {g}
  BY DEF Frames
<1>2. g.kind = "IP" /\ g.ip = pk.dest /\ g.eth = eth
  OBVIOUS
<1>3. pk.dest \in Host /\ eth \in Host \cup {None} => g \in Frame
  BY DEF Frame
<1> HIDE DEF g
<1> QED
  BY <1>1, <1>2, <1>3

LEMMA Wired ==
  ASSUME NEW w \in Worlds, Aimed(w), NEW p \in Port, NEW F \in SUBSET Frame,
         \A f \in F : f.kind = "IP" => f.eth = f.ip,
         NEW v, Is(v, w.cache, w.port, w.arpq, [w.wire EXCEPT ![p] = w.wire[p] \cup F])
  PROVE  Aimed(v)
<1>1. \A q \in Port : \A g \in v.wire[q] : g \in w.wire[q] \/ g \in F
  BY WorldParts DEF Is
<1> QED
  BY <1>1 DEF Aimed

LEMMA Delivered ==
  ASSUME NEW w, Good(w), NEW p \in Port, NEW ip \in Host, NEW eth \in {ip, None},
         NEW v, v = Deliver(w, p, ip, eth)
  PROVE  /\ Good(v) /\ v.cache = w.cache /\ v.port = w.port
         /\ v.arpq = [w.arpq EXCEPT ![p] = Rest(w, p, ip)]
         /\ Rest(w, p, ip) \in Seq(Packet)
<1> DEFINE q == w.arpq[p]
           mine == {k \in 1 .. Len(q) : q[k].dest = ip}
           F == IF eth = None THEN {} ELSE UNION {Frames(q[k], eth) : k \in mine}
           w1 == [w EXCEPT !.arpq[p] = Rest(w, p, ip)]
<1>1. w \in Worlds /\ q \in Seq(Packet)
  BY WorldParts DEF Good
<1>2. Rest(w, p, ip) \in Seq(Packet)
  BY <1>1, Kept DEF Rest
<1>3. v = [w1 EXCEPT !.wire[p] = @ \cup F]
  BY DEF Deliver
<1>4. F \in SUBSET Frame /\ \A f \in F : f.eth = f.ip
  <2>1. ASSUME NEW k \in mine, eth # None
        PROVE  Frames(q[k], eth) \subseteq Frame /\ \A f \in Frames(q[k], eth) : f.eth = f.ip
    <3>1. q[k].dest = ip /\ eth = ip
      BY <2>1
    <3> QED
      BY <3>1, FramesAimed
  <2> QED
    BY <2>1
<1> HIDE DEF F
<1>5. Is(w1, w.cache, w.port, [w.arpq EXCEPT ![p] = Rest(w, p, ip)], w.wire)
  BY <1>1, <1>2, PutQueue
<1> HIDE DEF w1
<1>6. Is(v, w1.cache, w1.port, w1.arpq, [w1.wire EXCEPT ![p] = w1.wire[p] \cup F])
  <2>1. w1 \in Worlds
    BY <1>5 DEF Is
  <2> QED
    BY <1>3, <1>4, <2>1, PutWire
<1>7. Aimed(v)
  <2>1. w1 \in Worlds /\ Aimed(w1)
    BY <1>5 DEF Is, Good, Aimed
  <2> QED
    BY <1>4, <1>6, <2>1, Wired
<1>8. /\ v \in Worlds /\ v.cache = w.cache /\ v.port = w.port
      /\ v.arpq = [w.arpq EXCEPT ![p] = Rest(w, p, ip)]
  BY <1>5, <1>6 DEF Is
<1>9. Good(v)
  <2>1. Quiet(w, v)
    BY <1>8 DEF Quiet, SameEntry
  <2> QED
    BY <1>7, <1>8, <2>1, GoodQuiet
<1> QED
  BY <1>2, <1>8, <1>9

(* How far ipeth_arp_reply() gets down a queue of L without waiting, R being
   the places where it need not. *)
Beginnings(L, R) == {k \in 0 .. L : \A j \in 1 .. k : j \in R}

LEMMA Reach ==
  ASSUME NEW L \in Nat, NEW R, NEW n, n = Max(Beginnings(L, R))
  PROVE  /\ n \in 0 .. L /\ \A j \in 1 .. n : j \in R
         /\ n # L => n + 1 \in 1 .. L /\ n + 1 \notin R
<1> DEFINE K == Beginnings(L, R)
<1>1. K \in SUBSET Nat /\ 0 \in K /\ \A k \in K : k <= L
  BY DEF Beginnings
<1> HIDE DEF K
<1>2. n \in K /\ \A k \in K : n >= k
  <2>1. n = Max(K)
    BY DEF K
  <2>2. K # {}
    BY <1>1
  <2> QED
    BY <1>1, <2>1, <2>2, MaxNat
<1>3. n \in 0 .. L /\ \A j \in 1 .. n : j \in R
  BY <1>2 DEF K, Beginnings
<1>4. ASSUME n # L, n + 1 \in R PROVE FALSE
  <2>1. n + 1 \in K
    BY <1>3, <1>4 DEF K, Beginnings
  <2> QED
    BY <1>2, <1>3, <2>1
<1> QED
  BY <1>3, <1>4

LEMMA Replies ==
  ASSUME NEW w, Good(w), NEW p \in Port, Waits(w, {p}), w.port[p].up,
         NEW ip \in Host, NEW eth \in {ip, None},
         NEW v, v = ipeth_arp_reply(w, p, ip, eth)
  PROVE  Good(v) /\ Waits(v, {}) /\ Asks(w, v, p)
<1> DEFINE out == Deliver(w, p, ip, eth)
           rest == Rest(w, p, ip)
           L == Len(rest)
           n == Max({k \in 0 .. L : \A j \in 1 .. k : Ready(out, p, rest[j].dest)})
           used == UNION {Matches(out, p, rest[j].dest) : j \in 1 .. n}
           valid == {x \in used \X (1 .. n) :
                       /\ out.cache[x[1]].ip = rest[x[2]].dest
                       /\ out.cache[x[1]].state = "VALID"}
           C == [i \in Entries |-> IF i \in used THEN [out.cache[i] EXCEPT !.idle = 0]
                                  ELSE out.cache[i]]
           F == UNION {Frames(rest[x[2]], out.cache[x[1]].eth) : x \in valid}
           left == SubSeq(rest, n + 1, L)
           w1 == [out EXCEPT !.cache = C]
           w2 == [w1 EXCEPT !.wire[p] = @ \cup F]
           gone == [w2 EXCEPT !.arpq[p] = left]
           all == [out EXCEPT !.cache = C, !.wire[p] = @ \cup F, !.arpq[p] = left]
<1>0. v = IF n = L THEN all ELSE arp_ip_eth(all, p, rest[n + 1].dest).w
  BY Zenon DEF ipeth_arp_reply
<1>2. /\ Good(out) /\ out.cache = w.cache /\ out.port = w.port
      /\ out.arpq = [w.arpq EXCEPT ![p] = rest] /\ rest \in Seq(Packet)
  BY Delivered
<1> HIDE DEF out, rest
<1>3. L \in Nat /\ \A k \in 1 .. L : rest[k] \in Packet /\ rest[k].dest \in Host
  <2>1. L \in Nat /\ \A k \in 1 .. L : rest[k] \in Packet
    BY <1>2, LenProperties, ElementOfSeq
  <2> QED
    BY <2>1 DEF Packet
<1>4. /\ n \in 0 .. L
      /\ n # L => n + 1 \in 1 .. L /\ ~Ready(out, p, rest[n + 1].dest)
  <2> DEFINE R == {j \in 1 .. L : Ready(out, p, rest[j].dest)}
  <2>1. {k \in 0 .. L : \A j \in 1 .. k : Ready(out, p, rest[j].dest)} = Beginnings(L, R)
    BY <1>3 DEF Beginnings
  <2>2. n = Max(Beginnings(L, R))
    BY <2>1
  <2>3. \A j \in 1 .. L : j \notin R => ~Ready(out, p, rest[j].dest)
    OBVIOUS
  <2> HIDE DEF n, R, L
  <2>4. n \in 0 .. L /\ (n # L => n + 1 \in 1 .. L /\ n + 1 \notin R)
    BY <1>3, <2>2, Reach
  <2> QED
    BY <2>3, <2>4
<1> HIDE DEF n, L
<1>5. left \in Seq(Packet) /\ (n = L => left = <<>>)
  <2>1. n + 1 >= 1 /\ n + 1 \in Int /\ L \in Int /\ L <= Len(rest)
    BY <1>3, <1>4 DEF L
  <2> QED
    BY <1>2, <1>3, <1>4, <2>1, SubSeqProperties DEF L
<1>6. out \in Worlds /\ out.cache \in [Entries -> Entry]
  BY <1>2, WorldParts DEF Good
<1>7. C \in [Entries -> Entry] /\ \A i \in Entries : SameEntry(C[i], out.cache[i])
  <2>1. ASSUME NEW d \in Entry
        PROVE  [d EXCEPT !.idle = 0] \in Entry /\ SameEntry([d EXCEPT !.idle = 0], d)
    <3>1. [d EXCEPT !.idle = 0] \in Entry
      BY Bounds DEF Entry
    <3> QED
      BY <3>1 DEF Entry, SameEntry
  <2>2. \A d \in Entry : SameEntry(d, d)
    BY DEF SameEntry
  <2> HIDE DEF used
  <2> QED
    BY <1>6, <2>1, <2>2
<1>8. F \in SUBSET Frame /\ \A f \in F : f.eth = f.ip
  <2>1. ASSUME NEW x \in valid
        PROVE  LET G == Frames(rest[x[2]], out.cache[x[1]].eth)
               IN  G \subseteq Frame /\ \A f \in G : f.eth = f.ip
    <3>1. x[1] \in Entries /\ x[2] \in 1 .. n
      BY DEF Matches
    <3>2. out.cache[x[1]].ip = rest[x[2]].dest /\ out.cache[x[1]].state = "VALID"
      OBVIOUS
    <3>3. out.cache[x[1]].eth = rest[x[2]].dest
      BY <1>2, <3>1, <3>2 DEF Good, Told
    <3>4. rest[x[2]].dest \in Host
      BY <1>3, <1>4, <3>1
    <3> QED
      BY <3>3, <3>4, FramesAimed
  <2> HIDE DEF valid
  <2> QED
    BY <2>1
<1> HIDE DEF C, F, left, used, valid
<1>1. v = IF n = L THEN gone ELSE arp_ip_eth(gone, p, rest[n + 1].dest).w
  <2>1. all = gone
    BY <1>6 DEF Worlds
  <2> QED
    BY <1>0, <2>1
<1>9. Is(w1, C, out.port, out.arpq, out.wire)
  BY <1>6, <1>7, PutCache
<1> HIDE DEF w1
<1>10. Is(w2, w1.cache, w1.port, w1.arpq, [w1.wire EXCEPT ![p] = w1.wire[p] \cup F])
  <2>1. w1 \in Worlds
    BY <1>9 DEF Is
  <2> QED
    BY <1>8, <2>1, PutWire
<1> HIDE DEF w2
<1>11. Is(gone, w2.cache, w2.port, [w2.arpq EXCEPT ![p] = left], w2.wire)
  <2>1. w2 \in Worlds
    BY <1>10 DEF Is
  <2> QED
    BY <1>5, <2>1, PutQueue
<1> HIDE DEF gone
<1>12. Aimed(gone)
  <2>1. w1 \in Worlds /\ Aimed(w1)
    BY <1>2, <1>9 DEF Is, Good, Aimed
  <2>2. Aimed(w2)
    BY <1>8, <1>10, <2>1, Wired
  <2> QED
    BY <1>11, <2>2 DEF Is, Aimed
<1>13. /\ gone \in Worlds /\ gone.cache = C /\ gone.port = w.port
       /\ gone.arpq = [out.arpq EXCEPT ![p] = left]
  BY <1>2, <1>9, <1>10, <1>11 DEF Is
<1>14. Quiet(out, gone)
  BY <1>2, <1>7, <1>13 DEF Quiet
<1>15. Good(gone)
  BY <1>2, <1>12, <1>13, <1>14, GoodQuiet
<1>16. gone.arpq[p] = left /\ \A q \in Port : q # p => gone.arpq[q] = w.arpq[q]
  <2>1. w.arpq \in [Port -> Seq(Packet)] /\ out.arpq \in [Port -> Seq(Packet)]
    BY <1>6, WorldParts DEF Good
  <2> QED
    BY <1>2, <1>13, <2>1
<1>17. Asks(w, gone, p)
  <2>1. Quiet(w, gone)
    BY <1>2, <1>13, <1>14 DEF Quiet
  <2> QED
    BY <1>16, <2>1, QuietAsks
<1>18. CASE n = L
  <2>1. v = gone
    BY <1>1, <1>18
  <2>2. Waits(gone, {})
    BY <1>5, <1>13, <1>16, <1>18 DEF Waits
  <2> QED
    BY <1>15, <1>17, <2>1, <2>2
<1>19. CASE n # L
  <2> DEFINE dest == rest[n + 1].dest
             a == arp_ip_eth(gone, p, dest)
  <2>1. v = a.w
    BY <1>1, <1>19
  <2>2. dest \in Host /\ ~Ready(out, p, dest)
    BY <1>3, <1>4, <1>19
  <2> HIDE DEF dest
  <2>3. ~Ready(gone, p, dest)
    BY <1>14, <2>2 DEF Ready, Matches, Quiet, SameEntry, Expired
  <2>4. gone.port[p].up
    BY <1>13
  <2>5. /\ Good(a.w) /\ Asks(gone, a.w, p) /\ a.w.arpq = gone.arpq
        /\ a.r = "SUSPEND" => a.w.port[p].clientreq
        /\ a.r # "SUSPEND" => Ready(gone, p, dest)
    BY <1>15, <2>2, <2>4, Looked
  <2> HIDE DEF a
  <2>6. a.w.port[p].clientreq
    BY <2>3, <2>5
  <2>7. Asks(w, a.w, p)
    BY <1>13, <1>17, <2>5, AsksOn
  <2>8. Waits(a.w, {})
    <3>1. \A q \in Port : q # p => a.w.port[q] = w.port[q] /\ a.w.arpq[q] = w.arpq[q]
      BY <2>7 DEF Asks
    <3> QED
      BY <2>6, <3>1 DEF Waits
  <2> QED
    BY <2>1, <2>5, <2>7, <2>8
<1> QED
  BY <1>18, <1>19

(* client_reply() of the answer the port is waiting for, none of whose entries
   is incomplete any more. *)
NoneAsked(w, p) ==
  \A i \in Entries : w.cache[i].state = "INCOMPLETE" => w.cache[i].port # p

NoneValidated(w, v) ==
  \A i \in Entries : v.cache[i].state = "VALID" =>
    w.cache[i].state = "VALID" /\ v.cache[i].ip = w.cache[i].ip

LEMMA Answered ==
  ASSUME NEW w, Good(w), NEW p \in Port, Waits(w, {p}), w.port[p].up,
         NEW ip \in Host, NEW eth \in {ip, None},
         w.port[p].clientreq, ip = w.port[p].req,
         NoneAsked(w, p), NEW v, v = client_reply(w, p, ip, eth)
  PROVE  /\ Good(v) /\ Waits(v, {}) /\ (Covered(w, {p}) => Covered(v, {}))
         /\ NoneValidated(w, v)
<1> DEFINE u == [w EXCEPT !.port[p].clientreq = FALSE, !.port[p].timer = None]
           s == [w.port[p] EXCEPT !.clientreq = FALSE, !.timer = None]
<1>1. v = ipeth_arp_reply(u, p, ip, eth)
  BY DEF client_reply
<1>2. w \in Worlds /\ w.port[p] \in PortState
  BY WorldParts DEF Good
<1>3. s.clientreq = FALSE /\ s.timer = None /\ s.up = TRUE
  BY <1>2 DEF PortState
<1>4. s \in PortState
  BY <1>2 DEF PortState
<1>5. u = [w EXCEPT !.port[p] = s]
  BY <1>2 DEF Worlds, PortState
<1> HIDE DEF u, s
<1>6. Is(u, w.cache, [w.port EXCEPT ![p] = s], w.arpq, w.wire)
  BY <1>2, <1>4, <1>5, PutPort
<1>7. u.port[p] = s /\ \A q \in Port : q # p => u.port[q] = w.port[q]
  BY <1>2, <1>6, WorldParts DEF Is
<1>8. u \in Worlds /\ u.cache = w.cache /\ u.arpq = w.arpq /\ u.wire = w.wire
  BY <1>6 DEF Is
<1>9. Good(u)
  <2>1. OneEach(u) /\ Told(u) /\ Aimed(u)
    BY <1>8 DEF Good, OneEach, Told, Aimed
  <2>2. Asking(u)
    BY <1>7, <1>8 DEF Good, Asking, NoneAsked
  <2>3. Ticking(u)
    BY <1>3, <1>7 DEF Good, Ticking
  <2> QED
    BY <1>8, <2>1, <2>2, <2>3 DEF Good
<1>10. Waits(u, {p})
  BY <1>7, <1>8 DEF Waits
<1>11. u.port[p].up /\ ~u.port[p].clientreq /\ u.port[p].timer = None
  BY <1>3, <1>7
<1>12. Good(v) /\ Waits(v, {}) /\ Asks(u, v, p)
  BY <1>1, <1>9, <1>10, <1>11, Replies
<1>13. NoneValidated(w, v)
  <2>1. \A i \in Entries : v.cache[i].state = "VALID" =>
          u.cache[i].state = "VALID" /\ v.cache[i].ip = u.cache[i].ip
    BY <1>12, Zenon DEF Asks
  <2> QED
    BY <1>8, <2>1 DEF NoneValidated
<1>14. ASSUME Covered(w, {p}) PROVE Covered(v, {})
  <2>1. Covered(u, {})
    <3>1. CoveredAt(u, p)
      BY <1>11 DEF CoveredAt
    <3>2. ASSUME NEW q \in Port \ {p} PROVE CoveredAt(u, q)
      <4>1. CoveredAt(w, q)
        BY <1>14 DEF Covered
      <4> QED
        BY <1>7, <1>8, <4>1 DEF CoveredAt
    <3> QED
      BY <3>1, <3>2 DEF Covered
  <2> QED
    BY <1>9, <1>12, <2>1, CoveredAsks
<1> QED
  BY <1>12, <1>13, <1>14

-----------------------------------------------------------------------------
(* process_arp_req() *)

(* The entry learned for spa. *)
LEMMA Learned ==
  ASSUME NEW w, Good(w), NEW p \in Port, NEW spa \in Host, Matches(w, p, spa) = {},
         NEW k, k = Learn(w, p, spa)
  PROVE  /\ k.i \in Entries /\ Good(k.w) /\ k.w.arpq = w.arpq /\ k.w.port = w.port
         /\ k.i \in Matches(k.w, p, spa) /\ k.w.cache[k.i].state = "VALID"
         /\ Covered(w, {}) => Covered(k.w, {})
<1> DEFINE j == alloc_cache_ent(w)
           d == [state |-> "VALID", ip |-> spa, port |-> p, eth |-> spa,
                 left |-> ARP_EXP_TIME, idle |-> ARP_INUSE_OFFSET]
           v == [w EXCEPT !.cache[j] = d]
<1>1. k.w = v /\ k.i = j
  BY DEF Learn
<1>2. j \in Entries /\ w.cache[j].state # "INCOMPLETE" /\ w \in Worlds
  BY Allocated DEF Good
<1>3. d.state = "VALID" /\ d.ip = spa /\ d.port = p /\ d.eth = spa
  OBVIOUS
<1>4. d \in Entry
  BY Bounds DEF Entry
<1> HIDE DEF j, d
<1> HIDE DEF v
<1>5. Good(v) /\ Rewritten(w, v, j, d)
  <2>1. Fits(w, j, d)
    BY <1>3 DEF Fits
  <2> QED
    BY <1>2, <1>4, <2>1, GoodPut DEF v
<1>6. Covered(w, {}) => Covered(v, {})
  <2>1. StillAsked(w.cache[j], d, {})
    BY <1>2 DEF StillAsked
  <2> QED
    BY <1>2, <1>5, <2>1, CoveredPut
<1>7. j \in Matches(v, p, spa)
  BY <1>2, <1>3, <1>5 DEF Matches, Rewritten
<1> QED
  BY <1>1, <1>2, <1>3, <1>5, <1>6, <1>7 DEF Rewritten

(* A frame that is not a packet. *)
LEMMA Emitted ==
  ASSUME NEW w, Good(w), NEW p \in Port, NEW f \in Frame, f.kind # "IP",
         NEW v, v = Emit(w, p, f)
  PROVE  Good(v) /\ v.cache = w.cache /\ v.port = w.port /\ v.arpq = w.arpq
<1>1. w \in Worlds /\ Aimed(w) /\ {f} \in SUBSET Frame
  BY DEF Good
<1>2. Is(v, w.cache, w.port, w.arpq, [w.wire EXCEPT ![p] = w.wire[p] \cup {f}])
  BY <1>1, PutWire DEF Emit
<1>3. Aimed(v)
  BY <1>1, <1>2, Wired
<1>4. Quiet(w, v) /\ v \in Worlds
  BY <1>2 DEF Is, Quiet, SameEntry
<1> QED
  BY <1>2, <1>3, <1>4, GoodQuiet DEF Is

(* The answers of a port are where its questions were. *)
LEMMA CoveredSame ==
  ASSUME NEW w, NEW v, NEW X, v.cache = w.cache, v.port = w.port, Covered(w, X)
  PROVE  Covered(v, X)
BY DEF Covered, CoveredAt

(* An entry of spa gets its address, and is passed on. *)
Validated(w, i, spa) ==
  [w EXCEPT !.cache[i].state = "VALID", !.cache[i].eth = spa]

PassedOn(w, p, i, spa) ==
  IF w.cache[i].state = "INCOMPLETE"
  THEN client_reply(Validated(w, i, spa), p, spa, spa) ELSE Validated(w, i, spa)

LEMMA Updated ==
  ASSUME NEW w, Good(w), NEW p \in Port, Waits(w, {}), NEW spa \in Host,
         NEW i \in Matches(w, p, spa), NEW told, told = PassedOn(w, p, i, spa)
  PROVE  /\ Good(told) /\ Waits(told, {}) /\ (Covered(w, {}) => Covered(told, {}))
         /\ told.cache[i].state = "VALID" => told.cache[i].ip = spa
<1>0. i \in Entries /\ Matches(w, p, spa) = {i}
  BY MatchesOne
<1>1. /\ w.cache[i].state # "UNUSED" /\ w.cache[i].port = p
      /\ w.cache[i].ip = spa /\ w \in Worlds
  BY DEF Matches, Good
<1> DEFINE e == w.cache[i]
           d == [e EXCEPT !.state = "VALID", !.eth = spa]
           valid == Validated(w, i, spa)
<1>2. e \in Entry
  BY <1>0, <1>1, WorldParts
<1>3. d.state = "VALID" /\ d.eth = spa /\ d.ip = spa /\ d.port = p
  BY <1>1, <1>2 DEF Entry
<1>4. d \in Entry
  BY <1>2 DEF Entry
<1>5. valid = [w EXCEPT !.cache[i] = d]
  BY <1>0, <1>1, <1>2 DEF Validated, Worlds, Entry
<1> HIDE DEF d, valid
<1>6. Fits(w, i, d)
  BY <1>0, <1>3 DEF Fits
<1>7. Good(valid) /\ Rewritten(w, valid, i, d)
  BY <1>0, <1>4, <1>5, <1>6, GoodPut
<1>8. Waits(valid, {})
  BY <1>7 DEF Waits, Rewritten
<1>9. CASE e.state = "INCOMPLETE"
  <2>1. told = client_reply(valid, p, spa, spa)
    BY <1>9 DEF PassedOn, valid
  <2>2. valid.port[p].clientreq /\ spa = valid.port[p].req /\ valid.port[p].up
    <3>1. w.port[p].clientreq /\ w.port[p].req = spa
      BY <1>0, <1>1, <1>9 DEF Good, Asking
    <3> QED
      BY <1>7, <3>1 DEF Good, Ticking, Rewritten
  <2>3. NoneAsked(valid, p)
    <3> SUFFICES ASSUME NEW j \in Entries, valid.cache[j].state = "INCOMPLETE",
                        valid.cache[j].port = p
                 PROVE  FALSE
      BY DEF NoneAsked
    <3>1. j # i /\ w.cache[j].state = "INCOMPLETE" /\ w.cache[j].port = p
      BY <1>3, <1>7 DEF Rewritten
    <3>2. w.cache[j].ip = spa
      BY <1>7, <2>2, <3>1 DEF Good, Asking, Rewritten
    <3>3. j \in Matches(w, p, spa)
      BY <3>1, <3>2 DEF Matches
    <3> QED
      BY <1>0, <3>1, <3>3
  <2>4. Waits(valid, {p}) /\ spa \in {spa, None}
    BY <1>8 DEF Waits
  <2>5. /\ Good(told) /\ Waits(told, {}) /\ (Covered(valid, {p}) => Covered(told, {}))
        /\ NoneValidated(valid, told)
    BY <1>7, <2>1, <2>2, <2>3, <2>4, Answered
  <2>6. Covered(w, {}) => Covered(valid, {p})
    <3>1. StillAsked(w.cache[i], d, {p})
      BY <1>1 DEF StillAsked
    <3> QED
      BY <1>0, <1>7, <3>1, CoveredPut
  <2> QED
    BY <1>0, <1>3, <1>7, <2>5, <2>6 DEF Rewritten, NoneValidated
<1>10. CASE e.state # "INCOMPLETE"
  <2>1. told = valid
    BY <1>10 DEF PassedOn, valid
  <2>2. Covered(w, {}) => Covered(valid, {})
    <3>1. StillAsked(w.cache[i], d, {})
      BY <1>10 DEF StillAsked
    <3> QED
      BY <1>0, <1>7, <3>1, CoveredPut
  <2> QED
    BY <1>3, <1>7, <1>8, <2>1, <2>2 DEF Rewritten
<1> QED
  BY <1>9, <1>10

(* The entry is written to once more, whosever it is by then. *)
WrittenLate(w, i, spa) ==
  [w EXCEPT !.cache[i].eth = spa, !.cache[i].left = ARP_EXP_TIME]

LEMMA LateGood ==
  ASSUME NEW w, Good(w), NEW i \in Entries, NEW spa \in Host,
         w.cache[i].state = "VALID" => w.cache[i].ip = spa,
         NEW v, v = WrittenLate(w, i, spa)
  PROVE  /\ Good(v) /\ v.port = w.port /\ v.arpq = w.arpq
         /\ v.cache[i].ip \in Host \cup {None}
         /\ Covered(w, {}) => Covered(v, {})
<1> DEFINE e == w.cache[i]
           d == [e EXCEPT !.eth = spa, !.left = ARP_EXP_TIME]
<1>1. w \in Worlds /\ e \in Entry
  BY WorldParts DEF Good
<1>2. /\ d.state = e.state /\ d.ip = e.ip /\ d.port = e.port /\ d.eth = spa
      /\ d.left = ARP_EXP_TIME
  BY <1>1 DEF Entry
<1>3. d \in Entry
  BY <1>1, Bounds DEF Entry
<1>4. v = [w EXCEPT !.cache[i] = d]
  BY <1>1 DEF WrittenLate, Worlds, Entry
<1>5. d.ip \in Host \cup {None}
  BY <1>3 DEF Entry
<1>6. ARP_EXP_TIME >= e.left
  BY <1>1, Times DEF Entry
<1> HIDE DEF d
<1>7. Fits(w, i, d)
  <2>1. e.state # "UNUSED" => \A j \in Matches(w, e.port, e.ip) : j = i
    BY DEF Matches, Good, OneEach
  <2> QED
    BY <1>2, <2>1 DEF Fits
<1>8. Good(v) /\ Rewritten(w, v, i, d)
  BY <1>3, <1>4, <1>7, GoodPut
<1>9. Covered(w, {}) => Covered(v, {})
  <2>1. StillAsked(w.cache[i], d, {})
    BY <1>2, <1>6 DEF StillAsked
  <2> QED
    BY <1>8, <2>1, CoveredPut
<1> QED
  BY <1>5, <1>8, <1>9 DEF Rewritten

LEMMA Processed ==
  ASSUME NEW w, Good(w), NEW p \in Port, Waits(w, {}), NEW spa \in Host, NEW op,
         NEW forus, NEW v, v = process_arp_req(w, p, spa, op, forus)
  PROVE  Good(v) /\ Waits(v, {}) /\ (Covered(w, {}) => Covered(v, {}))
<1> DEFINE f == find_cache_ent(w, p, spa)
           k == IF f.i = 0 THEN Learn(f.w, p, spa) ELSE f
           told == PassedOn(k.w, p, k.i, spa)
           kept == WrittenLate(told, k.i, spa)
           g == [kind |-> "REPLY", ip |-> kept.cache[k.i].ip, eth |-> spa]
<1>1. v = IF f.i = 0 /\ ~forus THEN f.w
          ELSE IF op = "REQUEST" /\ forus THEN Emit(kept, p, g) ELSE kept
  BY Zenon DEF process_arp_req, PassedOn, Validated, WrittenLate
<1>2. /\ Good(f.w) /\ Asks(w, f.w, p) /\ f.w.port = w.port /\ f.w.arpq = w.arpq
      /\ f.i = 0 => Matches(f.w, p, spa) = {}
      /\ f.i # 0 => f.w = w /\ f.i \in Matches(w, p, spa) /\ ~Expired(w.cache[f.i])
  BY FoundGood
<1> HIDE DEF f
<1>3. Covered(w, {}) => Covered(f.w, {})
  BY <1>2, CoveredAsks
<1>4. Waits(f.w, {})
  BY <1>2 DEF Waits
<1>5. /\ Good(k.w) /\ Waits(k.w, {}) /\ (Covered(w, {}) => Covered(k.w, {}))
      /\ k.i \in Entries /\ k.i \in Matches(k.w, p, spa)
  <2>1. CASE f.i = 0
    <3>1. k = Learn(f.w, p, spa)
      BY <2>1
    <3> HIDE DEF k
    <3>2. /\ k.i \in Entries /\ Good(k.w) /\ k.w.arpq = f.w.arpq /\ k.w.port = f.w.port
          /\ k.i \in Matches(k.w, p, spa)
          /\ Covered(f.w, {}) => Covered(k.w, {})
      BY <1>2, <2>1, <3>1, Learned
    <3> QED
      BY <1>3, <1>4, <3>2 DEF Waits
  <2>2. CASE f.i # 0
    <3>1. k = f /\ f.w = w /\ f.i \in Matches(w, p, spa)
      BY <1>2, <2>2
    <3> QED
      BY <1>2, <1>3, <1>4, <3>1 DEF Matches
  <2> QED
    BY <2>1, <2>2
<1> HIDE DEF k
<1>6. /\ Good(told) /\ Waits(told, {}) /\ (Covered(k.w, {}) => Covered(told, {}))
      /\ told.cache[k.i].state = "VALID" => told.cache[k.i].ip = spa
  BY <1>5, Updated
<1> HIDE DEF told
<1>7. /\ Good(kept) /\ kept.port = told.port /\ kept.arpq = told.arpq
      /\ kept.cache[k.i].ip \in Host \cup {None}
      /\ Covered(told, {}) => Covered(kept, {})
  BY <1>5, <1>6, LateGood
<1> HIDE DEF kept
<1>8. Waits(kept, {}) /\ (Covered(w, {}) => Covered(kept, {}))
  BY <1>5, <1>6, <1>7 DEF Waits
<1>9. g \in Frame /\ g.kind # "IP"
  BY <1>7 DEF Frame
<1> HIDE DEF g
<1>10. /\ Good(Emit(kept, p, g)) /\ Waits(Emit(kept, p, g), {})
       /\ Covered(kept, {}) => Covered(Emit(kept, p, g), {})
  <2> DEFINE x == Emit(kept, p, g)
  <2>1. Good(x) /\ x.cache = kept.cache /\ x.port = kept.port /\ x.arpq = kept.arpq
    BY <1>7, <1>9, Emitted
  <2> HIDE DEF x
  <2>2. Waits(x, {}) /\ (Covered(kept, {}) => Covered(x, {}))
    BY <1>8, <2>1, CoveredSame DEF Waits
  <2> QED
    BY <2>1, <2>2 DEF x
<1> QED
  BY <1>1, <1>2, <1>3, <1>4, <1>7, <1>8, <1>10

-----------------------------------------------------------------------------
(* arp_timeout(): the next try, or an end of it. *)
Tried(w, p) == [w EXCEPT !.port[p].timer = None, !.port[p].count = @ + 1]

LEMMA AskedAgain ==
  ASSUME NEW w, Good(w), NEW p \in Port, w.port[p].timer = 0,
         w.port[p].count + 1 < MAX_ARP_RETRIES,
         NEW v, v = Ask(Tried(w, p), p)
  PROVE  /\ Good(v) /\ v.cache = w.cache /\ v.arpq = w.arpq
         /\ \A q \in Port : v.port[q].clientreq = w.port[q].clientreq
         /\ Covered(w, {}) => Covered(v, {})
<1> DEFINE s == w.port[p]
           off == Tried(w, p)
           t == [s EXCEPT !.timer = None, !.count = s.count + 1]
           f == [kind |-> "REQUEST", ip |-> off.port[p].req, eth |-> None]
           w3 == Emit(off, p, f)
           u == [t EXCEPT !.timer = ARP_TIMEOUT]
<1>1. w \in Worlds /\ s \in PortState
  BY WorldParts DEF Good
<1>2. /\ t.clientreq = s.clientreq /\ t.req = s.req /\ t.up = s.up
      /\ t.count = s.count + 1 /\ t \in PortState
  <2>1. /\ t.clientreq = s.clientreq /\ t.req = s.req /\ t.up = s.up
        /\ t.count = s.count + 1
    BY <1>1 DEF PortState
  <2>2. s.count + 1 \in 0 .. MAX_ARP_RETRIES
    BY <1>1, Times DEF PortState
  <2>3. t \in PortState
    BY <1>1, <2>2 DEF PortState
  <2> QED
    BY <2>1, <2>3
<1>3. off = [w EXCEPT !.port[p] = t]
  BY <1>1 DEF Tried, Worlds, PortState
<1>4. v = [w3 EXCEPT !.port[p].timer = ARP_TIMEOUT]
  BY DEF Ask
<1> HIDE DEF off, t
<1>5. Is(off, w.cache, [w.port EXCEPT ![p] = t], w.arpq, w.wire)
  BY <1>1, <1>2, <1>3, PutPort
<1>6. off.port[p] = t
  BY <1>1, <1>5, WorldParts DEF Is
<1>7. f \in Frame /\ f.kind # "IP"
  BY <1>2, <1>6 DEF Frame, PortState
<1> HIDE DEF f
<1>8. Is(w3, w.cache, [w.port EXCEPT ![p] = t], w.arpq,
         [w.wire EXCEPT ![p] = w.wire[p] \cup {f}])
  <2>1. off \in Worlds /\ {f} \in SUBSET Frame
    BY <1>5, <1>7 DEF Is
  <2>2. Is(w3, off.cache, off.port, off.arpq, [off.wire EXCEPT ![p] = off.wire[p] \cup {f}])
    BY <2>1, PutWire DEF Emit
  <2> QED
    BY <1>5, <2>2 DEF Is
<1> HIDE DEF w3
<1>9. w3 \in Worlds /\ w3.port[p] = t
  BY <1>1, <1>8, WorldParts DEF Is
<1>10. /\ u.clientreq = s.clientreq /\ u.req = s.req /\ u.up = s.up
       /\ u.count = s.count + 1 /\ u.timer = ARP_TIMEOUT /\ u \in PortState
  <2>1. /\ u.clientreq = s.clientreq /\ u.req = s.req /\ u.up = s.up
        /\ u.count = s.count + 1 /\ u.timer = ARP_TIMEOUT
    BY <1>2 DEF PortState
  <2>2. u \in PortState
    BY <1>2, Bounds DEF PortState
  <2> QED
    BY <2>1, <2>2
<1>11. v = [w3 EXCEPT !.port[p] = u]
  BY <1>4, <1>9 DEF Worlds
<1> HIDE DEF u
<1>12. Is(v, w3.cache, [w3.port EXCEPT ![p] = u], w3.arpq, w3.wire)
  BY <1>9, <1>10, <1>11, PutPort
<1>13. /\ v \in Worlds /\ v.cache = w.cache /\ v.arpq = w.arpq /\ v.port[p] = u
       /\ \A q \in Port : q # p => v.port[q] = w.port[q]
  BY <1>1, <1>8, <1>9, <1>12, WorldParts DEF Is
<1>14. Aimed(v)
  <2>1. v.wire = [w.wire EXCEPT ![p] = w.wire[p] \cup {f}]
    BY <1>8, <1>12 DEF Is
  <2>2. \A q \in Port : \A g \in v.wire[q] : g \in w.wire[q] \/ g = f
    BY <1>1, <2>1, WorldParts
  <2> QED
    BY <1>7, <2>2 DEF Good, Aimed
<1>15. s.clientreq /\ s.up /\ s.req \in Host
  <2>1. s.timer # None
    BY Times
  <2> QED
    BY <2>1 DEF Good, Ticking
<1>16. OneEach(v) /\ Told(v)
  BY <1>13 DEF Good, OneEach, Told
<1>17. Asking(v)
  BY <1>10, <1>13 DEF Good, Asking
<1>18. Ticking(v)
  BY <1>10, <1>13, <1>15 DEF Good, Ticking
<1>19. Covered(w, {}) => Covered(v, {})
  <2> SUFFICES ASSUME Covered(w, {}), NEW q \in Port PROVE CoveredAt(v, q)
    BY DEF Covered
  <2>1. CoveredAt(w, q)
    BY DEF Covered
  <2>2. CASE q # p
    BY <1>13, <2>1, <2>2 DEF CoveredAt
  <2>3. CASE q = p
    <3>1. Due(u) = Due(s)
      BY <1>1, <1>10, DueNext
    <3>2. u.timer # None /\ u.clientreq /\ v.port[q] = u
      BY <1>10, <1>13, <1>15, <2>3, Bounds
    <3>3. PICK i \in Entries : /\ w.cache[i].state = "INCOMPLETE" /\ w.cache[i].port = p
                              /\ w.cache[i].ip = s.req /\ w.cache[i].left >= Due(s)
      BY <1>15, <2>1, <2>3 DEF CoveredAt
    <3>4. /\ v.cache[i].state = "INCOMPLETE" /\ v.cache[i].port = q
          /\ v.cache[i].ip = u.req /\ v.cache[i].left >= Due(u)
      BY <1>10, <1>13, <2>3, <3>1, <3>3
    <3> QED
      BY <3>2, <3>4 DEF CoveredAt
  <2> QED
    BY <2>2, <2>3
<1> QED
  BY <1>10, <1>13, <1>14, <1>16, <1>17, <1>18, <1>19 DEF Good

LEMMA TimedOut ==
  ASSUME NEW w, Good(w), NEW p \in Port, Waits(w, {}), w.port[p].timer = 0,
         NEW v, v = arp_timeout(w, p)
  PROVE  Good(v) /\ Waits(v, {}) /\ (Covered(w, {}) => Covered(v, {}))
<1> DEFINE s == w.port[p]
           off == Tried(w, p)
           m == Matches(w, p, s.req)
           i == Min(m)
           dead == [off EXCEPT !.cache[i].state = "UNREACHABLE",
                               !.cache[i].left = ARP_NOTRCH_EXP_TIME,
                               !.cache[i].idle = 0]
           t == [s EXCEPT !.timer = None, !.count = s.count + 1]
<1>1. v = IF off.port[p].count < MAX_ARP_RETRIES THEN Ask(off, p)
          ELSE IF m = {} THEN off ELSE client_reply(dead, p, s.req, None)
  BY Zenon DEF arp_timeout, Tried
<1>2. w \in Worlds /\ s \in PortState
  BY WorldParts DEF Good
<1>3. s.clientreq /\ s.up /\ s.req \in Host /\ s.count < MAX_ARP_RETRIES
  <2>1. s.timer # None
    BY Times
  <2> QED
    BY <2>1 DEF Good, Ticking
<1>4. /\ t.clientreq = s.clientreq /\ t.req = s.req /\ t.up = s.up
      /\ t.timer = None /\ t.count = s.count + 1 /\ t \in PortState
  <2>1. /\ t.clientreq = s.clientreq /\ t.req = s.req /\ t.up = s.up
        /\ t.timer = None /\ t.count = s.count + 1
    BY <1>2 DEF PortState
  <2>2. s.count + 1 \in 0 .. MAX_ARP_RETRIES
    BY <1>2, <1>3, Times DEF PortState
  <2>3. t \in PortState
    BY <1>2, <2>2 DEF PortState
  <2> QED
    BY <2>1, <2>3
<1>5. off = [w EXCEPT !.port[p] = t]
  BY <1>2 DEF Tried, Worlds, PortState
<1>6. CASE s.count + 1 < MAX_ARP_RETRIES
  <2>1. off.port[p].count = s.count + 1
    <3> HIDE DEF off, t
    <3>1. off.port[p] = t
      BY <1>2, <1>5 DEF Worlds
    <3> QED
      BY <1>4, <3>1
  <2>2. v = Ask(Tried(w, p), p)
    <3>1. v = Ask(off, p)
      <4> HIDE DEF off
      <4> QED
        BY <1>1, <1>6, <2>1
    <3> QED
      BY <3>1
  <2>3. /\ Good(v) /\ v.arpq = w.arpq
        /\ \A q \in Port : v.port[q].clientreq = w.port[q].clientreq
        /\ Covered(w, {}) => Covered(v, {})
    BY <1>6, <2>2, AskedAgain
  <2> QED
    BY <2>3 DEF Waits
<1>7. CASE ~(s.count + 1 < MAX_ARP_RETRIES)
  <2> HIDE DEF off, t
  <2>1. Is(off, w.cache, [w.port EXCEPT ![p] = t], w.arpq, w.wire)
    BY <1>2, <1>4, <1>5, PutPort
  <2>2. /\ off \in Worlds /\ off.cache = w.cache /\ off.arpq = w.arpq
        /\ off.wire = w.wire /\ off.port[p] = t
        /\ \A q \in Port : q # p => off.port[q] = w.port[q]
    BY <1>2, <2>1, WorldParts DEF Is
  <2>3. Good(off)
    <3>1. OneEach(off) /\ Told(off) /\ Aimed(off)
      BY <2>2 DEF Good, OneEach, Told, Aimed
    <3>2. Asking(off)
      BY <1>4, <2>2 DEF Good, Asking
    <3>3. Ticking(off)
      BY <1>3, <1>4, <2>2 DEF Good, Ticking
    <3> QED
      BY <2>2, <3>1, <3>2, <3>3 DEF Good
  <2>4. Waits(off, {})
    BY <1>3, <1>4, <2>2 DEF Waits
  <2>5. CASE m = {}
    <3>1. v = off
      BY <1>1, <1>4, <1>7, <2>2, <2>5
    <3>2. ~Covered(w, {})
      <4> SUFFICES ASSUME CoveredAt(w, p) PROVE FALSE
        BY DEF Covered
      <4>1. PICK j \in Entries : /\ w.cache[j].state = "INCOMPLETE" /\ w.cache[j].port = p
                                /\ w.cache[j].ip = s.req
        BY <1>3 DEF CoveredAt
      <4> QED
        BY <2>5, <4>1 DEF Matches
    <3> QED
      BY <2>3, <2>4, <3>1, <3>2
  <2>6. CASE m # {}
    <3>1. v = client_reply(dead, p, s.req, None)
      BY <1>1, <1>4, <1>7, <2>2, <2>6
    <3>2. PICK j \in m : TRUE
      BY <2>6
    <3>3. j \in Entries /\ m = {j} /\ i = j
      BY MatchesOne
    <3> DEFINE e == off.cache[i]
               d == [e EXCEPT !.state = "UNREACHABLE", !.left = ARP_NOTRCH_EXP_TIME,
                              !.idle = 0]
    <3>4. e \in Entry /\ e.port = p /\ e.ip = s.req
      <4>1. w.cache[i] \in Entry /\ w.cache[i].port = p /\ w.cache[i].ip = s.req
        BY <1>2, <3>3, WorldParts DEF Matches
      <4> QED
        BY <2>2, <4>1
    <3>5. d.state = "UNREACHABLE" /\ d.ip = s.req /\ d.port = p
      BY <3>4 DEF Entry
    <3>6. d \in Entry
      BY <3>4, Bounds DEF Entry
    <3>7. dead = [off EXCEPT !.cache[i] = d]
      BY <2>2, <3>3 DEF Worlds, Entry
    <3> HIDE DEF d, dead
    <3>8. Matches(off, p, s.req) = {i}
      BY <2>2, <3>3 DEF Matches
    <3> HIDE DEF m, i
    <3>9. Fits(off, i, d)
      BY <3>5, <3>8 DEF Fits
    <3>10. Good(dead) /\ Rewritten(off, dead, i, d)
      BY <2>3, <3>3, <3>6, <3>7, <3>9, GoodPut
    <3>11. /\ dead.port[p].up /\ dead.port[p].clientreq /\ s.req = dead.port[p].req
           /\ None \in {s.req, None} /\ Waits(dead, {p})
      BY <1>3, <1>4, <2>2, <2>4, <3>10 DEF Rewritten, Waits
    <3>12. NoneAsked(dead, p)
      <4> SUFFICES ASSUME NEW k \in Entries, dead.cache[k].state = "INCOMPLETE",
                          dead.cache[k].port = p
                   PROVE  FALSE
        BY DEF NoneAsked
      <4>1. k # i /\ off.cache[k].state = "INCOMPLETE" /\ off.cache[k].port = p
        BY <3>5, <3>10 DEF Rewritten
      <4>2. off.cache[k].ip = s.req
        BY <1>4, <2>2, <2>3, <4>1 DEF Good, Asking
      <4>3. k \in Matches(off, p, s.req)
        BY <4>1, <4>2 DEF Matches
      <4> QED
        BY <3>8, <4>1, <4>3
    <3>13. Good(v) /\ Waits(v, {}) /\ (Covered(dead, {p}) => Covered(v, {}))
      BY <1>3, <3>1, <3>10, <3>11, <3>12, Answered
    <3>14. Covered(w, {}) => Covered(dead, {p})
      <4> SUFFICES ASSUME Covered(w, {}), NEW q \in Port \ {p} PROVE CoveredAt(dead, q)
        BY DEF Covered
      <4>1. CoveredAt(w, q)
        BY DEF Covered
      <4>2. dead.port[q] = w.port[q]
        BY <2>2, <3>10 DEF Rewritten
      <4>3. \A k \in Entries : w.cache[k].port = q => dead.cache[k] = w.cache[k]
        BY <2>2, <3>4, <3>10 DEF Rewritten
      <4> QED
        BY <4>1, <4>2, <4>3 DEF CoveredAt
    <3> QED
      BY <3>13, <3>14
  <2> QED
    BY <2>5, <2>6
<1> QED
  BY <1>6, <1>7

-----------------------------------------------------------------------------
(* The state as a world, with the frames of the last step. *)
State(C, P, Q, W) == [cache |-> C, port |-> P, arpq |-> Q, wire |-> W]

IInv ==
  /\ Good(State(cache, port, arpq, wire)) /\ Waits(State(cache, port, arpq, wire), {})
  /\ packets \in 0 .. MaxPackets

(* What is asked for stays asked for. *)
StillCovered ==
  Covered(State(cache, port, arpq, wire), {})
    => Covered(State(cache', port', arpq', wire'), {})

LEMMA StateParts ==
  ASSUME NEW C, NEW P, NEW Q, NEW W, NEW w, w = State(C, P, Q, W)
  PROVE  /\ w.cache = C /\ w.port = P /\ w.arpq = Q /\ w.wire = W
         /\ w \in Worlds <=> /\ C \in [Entries -> Entry] /\ P \in [Port -> PortState]
                             /\ Q \in [Port -> Seq(Packet)] /\ W \in [Port -> SUBSET Frame]
BY DEF State, Worlds

(* A handler starts with nothing on the wire. *)
LEMMA Before ==
  ASSUME IInv
  PROVE  /\ Good(World) /\ Waits(World, {})
         /\ World.cache = cache /\ World.port = port /\ World.arpq = arpq
         /\ Covered(State(cache, port, arpq, wire), {}) => Covered(World, {})
<1> DEFINE w == State(cache, port, arpq, wire)
           none == [p \in Port |-> {}]
           x == State(cache, port, arpq, none)
<1>1. World = x
  BY DEF World, State
<1>2. /\ w.cache = cache /\ w.port = port /\ w.arpq = arpq /\ Good(w) /\ Waits(w, {})
  BY StateParts DEF IInv
<1>3. none \in [Port -> SUBSET Frame] /\ \A p \in Port : none[p] = {}
  OBVIOUS
<1> HIDE DEF none
<1>4. x.cache = cache /\ x.port = port /\ x.arpq = arpq /\ x.wire = none /\ x \in Worlds
  <2>1. w \in Worlds
    BY <1>2 DEF Good
  <2>2. /\ cache \in [Entries -> Entry] /\ port \in [Port -> PortState]
        /\ arpq \in [Port -> Seq(Packet)]
    BY <2>1, StateParts
  <2> QED
    BY <1>3, <2>2, StateParts
<1> HIDE DEF w, x
<1>5. Aimed(x)
  BY <1>3, <1>4 DEF Aimed
<1>6. Quiet(w, x)
  BY <1>2, <1>4 DEF Quiet, SameEntry
<1>7. Good(x)
  BY <1>2, <1>4, <1>5, <1>6, GoodQuiet
<1>8. Waits(x, {}) /\ (Covered(w, {}) => Covered(x, {}))
  BY <1>2, <1>4, CoveredSame DEF Waits
<1> QED
  BY <1>1, <1>4, <1>7, <1>8 DEF w

(* And ends with the world it made. *)
LEMMA After ==
  ASSUME NEW w, Becomes(w), Good(w)
  PROVE  State(cache', port', arpq', wire') = w
<1>1. cache' = w.cache /\ port' = w.port /\ arpq' = w.arpq /\ wire' = w.wire
  BY DEF Becomes
<1>2. w \in Worlds
  BY DEF Good
<1>3. w = State(w.cache, w.port, w.arpq, w.wire)
  BY <1>2 DEF Worlds, State
<1> QED
  BY <1>1, <1>3

LEMMA Handled ==
  ASSUME IInv, NEW w, Becomes(w), Good(w), Waits(w, {}), packets' \in 0 .. MaxPackets,
         Covered(World, {}) => Covered(w, {})
  PROVE  IInv' /\ StillCovered
<1>1. State(cache', port', arpq', wire') = w
  BY After
<1>2. Covered(State(cache, port, arpq, wire), {}) => Covered(World, {})
  BY Before
<1>3. IInv'
  BY <1>1 DEF IInv
<1>4. StillCovered
  BY <1>1, <1>2 DEF StillCovered
<1> QED
  BY <1>3, <1>4

-----------------------------------------------------------------------------
(* The steps. *)

(* The whole cache is cleared: a port that is asking keeps its timer and loses
   its entry. *)
Calm == \A p \in Port : arp_set_ipaddr(p) => \A q \in Port : ~port[q].clientreq

LEMMA SetAddress ==
  ASSUME IInv, NEW p \in Port, arp_set_ipaddr(p)
  PROVE  IInv' /\ (Calm => StillCovered)
<1> DEFINE w == World
           s == [port[p] EXCEPT !.up = TRUE]
           C == [i \in Entries |-> Unused]
           w1 == [w EXCEPT !.port[p] = s]
           v == [w1 EXCEPT !.cache = C]
           x == [World EXCEPT !.port[p].up = TRUE, !.cache = [i \in Entries |-> Unused]]
<1>1. /\ Good(w) /\ Waits(w, {}) /\ w \in Worlds /\ w.port = port /\ w.arpq = arpq
      /\ Covered(State(cache, port, arpq, wire), {}) => Covered(w, {})
  BY Before DEF Good
<1>2. Becomes(x) /\ packets' = packets
  BY Zenon DEF arp_set_ipaddr
<1> HIDE DEF w
<1>3. port[p] \in PortState
  BY <1>1, WorldParts
<1>4. s.up = TRUE /\ s.clientreq = port[p].clientreq /\ s.req = port[p].req
      /\ s.timer = port[p].timer /\ s.count = port[p].count
  BY <1>3 DEF PortState
<1>5. s \in PortState
  BY <1>3 DEF PortState
<1>6. C \in [Entries -> Entry] /\ \A i \in Entries : C[i].state = "UNUSED"
  BY UnusedEntry
<1>7. x = v
  BY <1>1, <1>3 DEF w, Worlds, PortState
<1> HIDE DEF s, C
<1>8. Is(w1, w.cache, [port EXCEPT ![p] = s], arpq, w.wire)
  BY <1>1, <1>5, PutPort
<1> HIDE DEF w1
<1>9. Is(v, C, [port EXCEPT ![p] = s], arpq, w.wire)
  <2>1. w1 \in Worlds /\ w1.port = [port EXCEPT ![p] = s] /\ w1.arpq = arpq
        /\ w1.wire = w.wire
    BY <1>8 DEF Is
  <2>2. Is(v, C, w1.port, w1.arpq, w1.wire)
    BY <1>6, <2>1, PutCache
  <2> QED
    BY <2>1, <2>2
<1> HIDE DEF v, x
<1>10. /\ v \in Worlds /\ v.cache = C /\ v.arpq = arpq /\ v.wire = w.wire
       /\ v.port[p] = s /\ \A q \in Port : q # p => v.port[q] = port[q]
  BY <1>1, <1>9, WorldParts DEF Is
<1>11. Good(v)
  <2>1. OneEach(v) /\ Asking(v) /\ Told(v)
    BY <1>6, <1>10 DEF OneEach, Asking, Told
  <2>2. Ticking(v)
    BY <1>1, <1>4, <1>10 DEF Good, Ticking
  <2>3. Aimed(v)
    BY <1>1, <1>10 DEF Good, Aimed
  <2> QED
    BY <1>10, <2>1, <2>2, <2>3 DEF Good
<1>12. Waits(v, {})
  BY <1>1, <1>4, <1>10 DEF Waits
<1>13. State(cache', port', arpq', wire') = v
  BY <1>2, <1>7, <1>11, After
<1>14. IInv'
  BY <1>2, <1>11, <1>12, <1>13 DEF IInv
<1>15. ASSUME Calm, Covered(State(cache, port, arpq, wire), {}) PROVE Covered(v, {})
  <2> SUFFICES ASSUME NEW q \in Port PROVE CoveredAt(v, q)
    BY DEF Covered
  <2>1. ~port[q].clientreq
    BY <1>15 DEF Calm
  <2>2. CoveredAt(w, q)
    BY <1>1, <1>15 DEF Covered
  <2>3. port[q].timer = None
    BY <1>1, <2>1, <2>2 DEF CoveredAt
  <2>4. ~v.port[q].clientreq /\ v.port[q].timer = None
    BY <1>4, <1>10, <2>1, <2>3
  <2> QED
    BY <2>4 DEF CoveredAt
<1> QED
  BY <1>13, <1>14, <1>15 DEF StillCovered

LEMMA Sent ==
  ASSUME NEW w, Good(w), NEW p \in Port, NEW pk \in Packet, NEW v, v = Transmit(w, p, pk, pk.dest)
  PROVE  Good(v) /\ v.cache = w.cache /\ v.port = w.port /\ v.arpq = w.arpq
<1> DEFINE F == Frames(pk, pk.dest)
<1>1. w \in Worlds /\ Aimed(w)
  BY DEF Good
<1>2. F \in SUBSET Frame /\ \A f \in F : f.kind = "IP" => f.eth = f.ip
  <2>1. pk.dest \in Host
    BY DEF Packet
  <2> QED
    BY <2>1, FramesAimed
<1> HIDE DEF F
<1>3. Is(v, w.cache, w.port, w.arpq, [w.wire EXCEPT ![p] = w.wire[p] \cup F])
  BY <1>1, <1>2, PutWire DEF Transmit, F
<1>4. Aimed(v)
  BY <1>1, <1>2, <1>3, Wired
<1>5. Quiet(w, v) /\ v \in Worlds
  BY <1>3 DEF Is, Quiet, SameEntry
<1> QED
  BY <1>3, <1>4, <1>5, GoodQuiet DEF Is

LEMMA Queued ==
  ASSUME NEW w, Good(w), Waits(w, {}), NEW p \in Port, w.port[p].clientreq, NEW pk \in Packet,
         NEW v, v = [w EXCEPT !.arpq[p] = Append(w.arpq[p], pk)]
  PROVE  Good(v) /\ Waits(v, {}) /\ v.cache = w.cache /\ v.port = w.port
<1> DEFINE q == Append(w.arpq[p], pk)
<1>1. w \in Worlds /\ q \in Seq(Packet)
  BY WorldParts DEF Good
<1> HIDE DEF q
<1>2. Is(v, w.cache, w.port, [w.arpq EXCEPT ![p] = q], w.wire)
  BY <1>1, PutQueue DEF q
<1>3. /\ v \in Worlds /\ v.cache = w.cache /\ v.port = w.port /\ v.wire = w.wire
      /\ \A r \in Port : r # p => v.arpq[r] = w.arpq[r]
  BY <1>1, <1>2, WorldParts DEF Is
<1>4. Good(v)
  <2>1. Quiet(w, v) /\ Aimed(v)
    BY <1>3 DEF Good, Aimed, Quiet, SameEntry
  <2> QED
    BY <1>3, <2>1, GoodQuiet
<1>5. Waits(v, {})
  BY <1>3 DEF Waits
<1> QED
  BY <1>3, <1>4, <1>5

LEMMA Send ==
  ASSUME IInv, NEW p \in Port, NEW dest \in Host, NEW ttl \in TTLs, ipeth_send(p, dest, ttl)
  PROVE  IInv' /\ StillCovered
<1> DEFINE a == arp_ip_eth(World, p, dest)
           pk == [id |-> packets + 1, dest |-> dest, ttl |-> ttl, age |-> 0]
           v == CASE a.r = "OK" -> Transmit(a.w, p, pk, a.eth)
                  [] a.r = "EDSTNOTRCH" -> a.w
                  [] a.r = "SUSPEND" -> [a.w EXCEPT !.arpq[p] = Append(@, pk)]
<1>1. port[p].up /\ packets < MaxPackets /\ packets' = packets + 1 /\ Becomes(v)
  BY Zenon DEF ipeth_send
<1>2. packets' \in 0 .. MaxPackets /\ packets + 1 \in 1 .. MaxPackets
  BY <1>1, ArpAssumption DEF IInv
<1>3. pk \in Packet /\ pk.dest = dest
  BY <1>2, Times DEF Packet
<1>4. Good(World) /\ Waits(World, {}) /\ World.port[p].up
  BY <1>1, Before
<1>5. /\ Good(a.w) /\ Asks(World, a.w, p) /\ a.w.arpq = World.arpq
      /\ a.r = "SUSPEND" => a.w.port[p].clientreq
      /\ a.r = "OK" => a.eth = dest
      /\ a.r \in {"OK", "EDSTNOTRCH", "SUSPEND"}
  BY <1>4, Looked
<1> HIDE DEF a, pk
<1>6. Covered(World, {}) => Covered(a.w, {})
  BY <1>4, <1>5, CoveredAsks
<1>7. ASSUME a.w.port[p].clientreq \/ a.w.port[p] = World.port[p]
      PROVE  Waits(a.w, {})
  BY <1>4, <1>5, <1>7 DEF Asks, Waits
<1>8. Waits(a.w, {})
  BY <1>5, <1>7 DEF Asks, Started
<1>9. Good(v) /\ Waits(v, {}) /\ (Covered(World, {}) => Covered(v, {}))
  <2>1. CASE a.r = "OK"
    <3>1. v = Transmit(a.w, p, pk, pk.dest)
      BY <1>3, <1>5, <2>1
    <3> HIDE DEF v
    <3>2. Good(v) /\ v.cache = a.w.cache /\ v.port = a.w.port /\ v.arpq = a.w.arpq
      BY <1>3, <1>5, <3>1, Sent
    <3> QED
      BY <1>6, <1>8, <3>2, CoveredSame DEF Waits
  <2>2. CASE a.r = "EDSTNOTRCH"
    <3>1. v = a.w
      BY <2>2
    <3> QED
      BY <1>5, <1>6, <1>8, <3>1
  <2>3. CASE a.r = "SUSPEND"
    <3>1. v = [a.w EXCEPT !.arpq[p] = Append(a.w.arpq[p], pk)]
      BY <2>3
    <3> HIDE DEF v
    <3>2. Good(v) /\ Waits(v, {}) /\ v.cache = a.w.cache /\ v.port = a.w.port
      BY <1>3, <1>5, <1>8, <2>3, <3>1, Queued
    <3> QED
      BY <1>6, <3>2, CoveredSame
  <2> QED
    BY <1>5, <2>1, <2>2, <2>3
<1> HIDE DEF v
<1> QED
  BY <1>1, <1>2, <1>9, Handled

LEMMA Arrival ==
  ASSUME IInv, NEW p \in Port, NEW spa \in Host, NEW op, NEW forus, Arrive(p, spa, op, forus)
  PROVE  IInv' /\ StillCovered
<1> DEFINE v == process_arp_req(World, p, spa, op, forus)
<1>1. Becomes(v) /\ packets' = packets
  BY DEF Arrive
<1>2. Good(World) /\ Waits(World, {})
  BY Before
<1> HIDE DEF v
<1>3. Good(v) /\ Waits(v, {}) /\ (Covered(World, {}) => Covered(v, {}))
  BY <1>2, Processed DEF v
<1>4. packets' \in 0 .. MaxPackets
  BY <1>1 DEF IInv
<1> QED
  BY <1>1, <1>3, <1>4, Handled

LEMMA TimerRuns ==
  ASSUME IInv, NEW p \in Port, Timeout(p)
  PROVE  IInv' /\ StillCovered
<1> DEFINE v == arp_timeout(World, p)
<1>1. port[p].timer = 0 /\ Becomes(v) /\ packets' = packets
  BY DEF Timeout
<1>2. Good(World) /\ Waits(World, {}) /\ World.port[p].timer = 0
  BY <1>1, Before
<1> HIDE DEF v
<1>3. Good(v) /\ Waits(v, {}) /\ (Covered(World, {}) => Covered(v, {}))
  BY <1>2, TimedOut DEF v
<1>4. packets' \in 0 .. MaxPackets
  BY <1>1 DEF IInv
<1> QED
  BY <1>1, <1>3, <1>4, Handled

(* A tick makes entries, requests and packets older, and nothing else of them. *)
LEMMA OlderEntry ==
  ASSUME NEW e \in Entry
  PROVE  /\ Aged(e) \in Entry /\ Aged(e).state = e.state /\ Aged(e).ip = e.ip
         /\ Aged(e).port = e.port /\ Aged(e).eth = e.eth
         /\ e.state # "UNUSED" /\ e.left >= 0 => Aged(e).left = e.left - 1
<1> DEFINE n == IF e.left < 0 THEN e.left ELSE e.left - 1
           m == IF e.idle < MaxIdle THEN e.idle + 1 ELSE e.idle
           d == [e EXCEPT !.left = n, !.idle = m]
<1>1. n \in -1 .. ARP_EXP_TIME /\ m \in 0 .. MaxIdle
  BY Times DEF Entry
<1>2. e.left >= 0 => n = e.left - 1
  BY Times DEF Entry
<1>3. Aged(e) = IF e.state = "UNUSED" THEN e ELSE d
  BY DEF Aged
<1> HIDE DEF n, m
<1>4. d.state = e.state /\ d.ip = e.ip /\ d.port = e.port /\ d.eth = e.eth /\ d.left = n
  BY DEF Entry
<1>5. d \in Entry
  BY <1>1 DEF Entry
<1> QED
  BY <1>2, <1>3, <1>4, <1>5

LEMMA OlderPort ==
  ASSUME NEW s \in PortState, s.timer # 0,
         NEW t, t = IF s.timer = None THEN s ELSE [s EXCEPT !.timer = s.timer - 1]
  PROVE  /\ t \in PortState /\ t.up = s.up /\ t.clientreq = s.clientreq
         /\ t.req = s.req /\ t.count = s.count
         /\ t.timer = None <=> s.timer = None
         /\ s.timer # None => t.timer = s.timer - 1 /\ s.timer \in Nat \ {0}
<1>1. CASE s.timer = None
  BY <1>1
<1>2. CASE s.timer # None
  <2> DEFINE n == s.timer - 1
  <2>1. n \in 0 .. ARP_TIMEOUT /\ n # None /\ s.timer \in Nat \ {0}
    BY <1>2, Times DEF PortState
  <2>2. t = [s EXCEPT !.timer = n]
    BY <1>2
  <2> HIDE DEF n
  <2>3. t.up = s.up /\ t.clientreq = s.clientreq /\ t.req = s.req /\ t.count = s.count
        /\ t.timer = n
    BY <2>2 DEF PortState
  <2>4. t \in PortState
    BY <2>1, <2>2 DEF PortState
  <2> QED
    BY <1>2, <2>1, <2>3, <2>4 DEF n
<1> QED
  BY <1>1, <1>2

LEMMA OlderQueue ==
  ASSUME NEW q \in Seq(Packet),
         NEW r, r = [k \in 1 .. Len(q) |->
                       [q[k] EXCEPT !.age = IF q[k].age < MaxAge THEN q[k].age + 1 ELSE q[k].age]]
  PROVE  r \in Seq(Packet) /\ (r # <<>> => q # <<>>)
<1>1. Len(q) \in Nat /\ \A k \in 1 .. Len(q) : q[k] \in Packet
  BY LenProperties, ElementOfSeq
<1>2. ASSUME NEW x \in Packet
      PROVE  [x EXCEPT !.age = IF x.age < MaxAge THEN x.age + 1 ELSE x.age] \in Packet
  <2> DEFINE n == IF x.age < MaxAge THEN x.age + 1 ELSE x.age
             y == [x EXCEPT !.age = n]
  <2>1. n \in 0 .. MaxAge
    BY Times DEF Packet
  <2> HIDE DEF n
  <2>2. y \in Packet
    BY <2>1 DEF Packet
  <2> QED
    BY <2>2 DEF n
<1>3. r \in [1 .. Len(q) -> Packet]
  BY <1>1, <1>2
<1>4. r \in Seq(Packet)
  BY <1>1, <1>3, SeqDef
<1>5. q = <<>> => r = <<>>
  <2>1. ASSUME q = <<>> PROVE r = <<>>
    <3>1. Len(q) = 0
      BY <2>1
    <3>2. Len(r) = 0
      BY <1>3, <1>4, <3>1, LenProperties
    <3> QED
      BY <1>4, <3>2, EmptySeq
  <2> QED
    BY <2>1
<1> QED
  BY <1>4, <1>5

LEMMA TimePasses ==
  ASSUME IInv, Tick
  PROVE  IInv' /\ StillCovered
<1> DEFINE w == State(cache, port, arpq, wire)
           v == State(cache', port', arpq', wire')
<1>1. /\ w.cache = cache /\ w.port = port /\ w.arpq = arpq
      /\ Good(w) /\ Waits(w, {}) /\ w \in Worlds
  BY StateParts DEF IInv, Good
<1>2. /\ v.cache = cache' /\ v.port = port' /\ v.arpq = arpq' /\ v.wire = wire'
      /\ v \in Worlds <=> /\ cache' \in [Entries -> Entry] /\ port' \in [Port -> PortState]
                          /\ arpq' \in [Port -> Seq(Packet)]
                          /\ wire' \in [Port -> SUBSET Frame]
  BY StateParts
<1>3. /\ \A p \in Port : port[p].timer # 0
      /\ cache' = [i \in Entries |-> Aged(cache[i])]
      /\ port' = [p \in Port |-> IF port[p].timer = None THEN port[p]
                                 ELSE [port[p] EXCEPT !.timer = port[p].timer - 1]]
      /\ arpq' = [p \in Port |-> [k \in 1 .. Len(arpq[p]) |->
                    [arpq[p][k] EXCEPT !.age =
                       IF arpq[p][k].age < MaxAge THEN arpq[p][k].age + 1
                                                  ELSE arpq[p][k].age]]]
      /\ wire' = [p \in Port |-> {}] /\ packets' = packets
  BY DEF Tick
<1>4. /\ cache \in [Entries -> Entry] /\ port \in [Port -> PortState]
      /\ arpq \in [Port -> Seq(Packet)]
  BY <1>1, WorldParts
<1> HIDE DEF w, v
<1>5. ASSUME NEW i \in Entries
      PROVE  /\ cache'[i] \in Entry /\ cache'[i].state = cache[i].state
             /\ cache'[i].ip = cache[i].ip /\ cache'[i].port = cache[i].port
             /\ cache'[i].eth = cache[i].eth
             /\ cache[i].state # "UNUSED" /\ cache[i].left >= 0
                  => cache'[i].left = cache[i].left - 1
  <2>1. cache'[i] = Aged(cache[i]) /\ cache[i] \in Entry
    BY <1>3, <1>4
  <2> QED
    BY <2>1, OlderEntry
<1>6. ASSUME NEW p \in Port
      PROVE  /\ port'[p] \in PortState /\ port'[p].up = port[p].up
             /\ port'[p].clientreq = port[p].clientreq /\ port'[p].req = port[p].req
             /\ port'[p].count = port[p].count
             /\ port'[p].timer = None <=> port[p].timer = None
             /\ port[p].timer # None => port'[p].timer = port[p].timer - 1
                                        /\ port[p].timer \in Nat \ {0}
  <2>1. /\ port[p] \in PortState /\ port[p].timer # 0
        /\ port'[p] = IF port[p].timer = None THEN port[p]
                       ELSE [port[p] EXCEPT !.timer = port[p].timer - 1]
    BY <1>3, <1>4
  <2> QED
    BY <2>1, OlderPort
<1>7. ASSUME NEW p \in Port
      PROVE  arpq'[p] \in Seq(Packet) /\ (arpq'[p] # <<>> => arpq[p] # <<>>)
  <2>1. /\ arpq[p] \in Seq(Packet)
        /\ arpq'[p] = [k \in 1 .. Len(arpq[p]) |->
                         [arpq[p][k] EXCEPT !.age =
                            IF arpq[p][k].age < MaxAge THEN arpq[p][k].age + 1
                                                       ELSE arpq[p][k].age]]
    BY <1>3, <1>4
  <2> QED
    BY <2>1, OlderQueue
<1>8. v \in Worlds
  <2>1. cache' \in [Entries -> Entry]
    BY <1>3, <1>5
  <2>2. port' \in [Port -> PortState]
    BY <1>3, <1>6
  <2>3. arpq' \in [Port -> Seq(Packet)]
    BY <1>3, <1>7
  <2>4. wire' \in [Port -> SUBSET Frame]
    BY <1>3
  <2> QED
    BY <1>2, <2>1, <2>2, <2>3, <2>4
<1>9. Good(v)
  <2>1. OneEach(v)
    BY <1>1, <1>2, <1>5 DEF Good, OneEach
  <2>2. Asking(v)
    BY <1>1, <1>2, <1>5, <1>6 DEF Good, Asking
  <2>3. Told(v)
    BY <1>1, <1>2, <1>5 DEF Good, Told
  <2>4. Ticking(v)
    BY <1>1, <1>2, <1>6 DEF Good, Ticking
  <2>5. Aimed(v)
    BY <1>2, <1>3 DEF Aimed
  <2> QED
    BY <1>8, <2>1, <2>2, <2>3, <2>4, <2>5 DEF Good
<1>10. Waits(v, {})
  BY <1>1, <1>2, <1>6, <1>7 DEF Waits
<1>11. ASSUME Covered(w, {}), NEW q \in Port PROVE CoveredAt(v, q)
  <2>1. CoveredAt(w, q)
    BY <1>11 DEF Covered
  <2>2. v.port[q].clientreq <=> v.port[q].timer # None
    BY <1>1, <1>2, <1>6, <2>1 DEF CoveredAt
  <2>3. ASSUME v.port[q].clientreq
        PROVE  \E i \in Entries : /\ v.cache[i].state = "INCOMPLETE" /\ v.cache[i].port = q
                                  /\ v.cache[i].ip = v.port[q].req
                                  /\ v.cache[i].left >= Due(v.port[q])
    <3>1. port[q].clientreq /\ port[q].timer # None
      BY <1>1, <1>2, <1>6, <2>1, <2>3 DEF CoveredAt
    <3>2. PICK i \in Entries : /\ cache[i].state = "INCOMPLETE" /\ cache[i].port = q
                              /\ cache[i].ip = port[q].req
                              /\ cache[i].left >= Due(port[q])
      BY <1>1, <2>1, <3>1 DEF CoveredAt
    <3>3. Due(port[q]) \in Nat
      <4>1. port[q].count < MAX_ARP_RETRIES /\ port[q] \in PortState
        BY <1>1, <1>4, <3>1 DEF Good, Ticking
      <4> QED
        BY <3>1, <4>1, DueNat
    <3>4. Due(port'[q]) = Due(port[q]) - 1
      <4> DEFINE c == (MAX_ARP_RETRIES - 1 - port[q].count) * ARP_TIMEOUT
      <4>1. /\ Due(port[q]) = port[q].timer + c
            /\ Due(port'[q]) = (port[q].timer - 1) + c /\ port[q].timer \in Int
        BY <1>6, <3>1 DEF Due
      <4>2. c \in Int
        <5>1. port[q].count \in Int /\ MAX_ARP_RETRIES \in Int /\ ARP_TIMEOUT \in Int
          BY <1>4, Times DEF PortState
        <5> QED
          BY <5>1
      <4> HIDE DEF c
      <4> QED
        BY <4>1, <4>2
    <3>5. cache[i].left \in Int
      <4>1. cache[i] \in Entry
        BY <1>4
      <4> QED
        BY <4>1, Times DEF Entry
    <3>6. cache'[i].left = cache[i].left - 1
      BY <1>5, <3>2, <3>3, <3>5
    <3>7. cache'[i].left >= Due(port'[q])
      BY <3>2, <3>3, <3>4, <3>5, <3>6
    <3> QED
      BY <1>2, <1>5, <1>6, <3>2, <3>7
  <2> QED
    BY <2>2, <2>3 DEF CoveredAt
<1>12. IInv'
  BY <1>3, <1>9, <1>10 DEF IInv, v
<1>13. StillCovered
  BY <1>11 DEF StillCovered, Covered, v, w
<1> QED
  BY <1>12, <1>13

LEMMA NextIInv == IInv /\ [Next]_vars => IInv' /\ (Calm => StillCovered)
<1> SUFFICES ASSUME IInv, [Next]_vars PROVE IInv' /\ (Calm => StillCovered)
  OBVIOUS
<1>1. CASE Tick
  BY <1>1, TimePasses
<1>2. ASSUME NEW p \in Port, arp_set_ipaddr(p) PROVE IInv' /\ (Calm => StillCovered)
  BY <1>2, SetAddress
<1>3. ASSUME NEW p \in Port, NEW dest \in Host, NEW ttl \in TTLs, ipeth_send(p, dest, ttl)
      PROVE  IInv' /\ StillCovered
  BY <1>3, Send
<1>4. ASSUME NEW p \in Port, NEW spa \in Host, NEW op, NEW forus, Arrive(p, spa, op, forus)
      PROVE  IInv' /\ StillCovered
  BY <1>4, Arrival
<1>5. ASSUME NEW p \in Port, Timeout(p) PROVE IInv' /\ StillCovered
  BY <1>5, TimerRuns
<1>6. CASE UNCHANGED vars
  BY <1>6 DEF vars, IInv, StillCovered
<1> QED
  BY <1>1, <1>2, <1>3, <1>4, <1>5, <1>6 DEF Next

LEMMA InitIInv == Init => IInv /\ Covered(State(cache, port, arpq, wire), {})
<1> SUFFICES ASSUME Init PROVE IInv /\ Covered(State(cache, port, arpq, wire), {})
  OBVIOUS
<1> DEFINE w == State(cache, port, arpq, wire)
           s == [up |-> FALSE, clientreq |-> FALSE, req |-> None, count |-> 0, timer |-> None]
<1>1. /\ \A i \in Entries : cache[i] = Unused
      /\ wire \in [Port -> SUBSET Frame] /\ \A p \in Port : wire[p] = {}
      /\ arpq \in [Port -> Seq(Packet)] /\ \A p \in Port : arpq[p] = <<>>
      /\ packets \in 0 .. MaxPackets
  BY UnusedEntry, ArpAssumption DEF Init
<1>2. cache \in [Entries -> Entry]
  BY UnusedEntry DEF Init
<1>3. s \in PortState /\ ~s.clientreq /\ s.timer = None
  BY Bounds DEF PortState
<1>4. port \in [Port -> PortState] /\ \A p \in Port : port[p] = s
  BY <1>3 DEF Init
<1> HIDE DEF s
<1>5. /\ w.cache = cache /\ w.port = port /\ w.arpq = arpq /\ w.wire = wire
      /\ w \in Worlds
  BY <1>1, <1>2, <1>4, StateParts
<1> HIDE DEF w
<1>6. Good(w)
  <2>1. OneEach(w) /\ Asking(w) /\ Told(w)
    BY <1>1, <1>5, UnusedEntry DEF OneEach, Asking, Told
  <2>2. Ticking(w) /\ Aimed(w)
    BY <1>1, <1>3, <1>4, <1>5 DEF Ticking, Aimed
  <2> QED
    BY <1>5, <2>1, <2>2 DEF Good
<1>7. Waits(w, {})
  BY <1>1, <1>5 DEF Waits
<1>8. Covered(w, {})
  BY <1>3, <1>4, <1>5 DEF Covered, CoveredAt
<1> QED
  BY <1>1, <1>6, <1>7, <1>8 DEF IInv, w

(* What every behaviour keeps. *)
THEOREM Invariance == Spec => []IInv
<1> QED
  BY InitIInv, NextIInv, PTL DEF Spec

-----------------------------------------------------------------------------
LEMMA StateGood ==
  ASSUME IInv
  PROVE  \E w : /\ Good(w) /\ Waits(w, {}) /\ w.cache = cache /\ w.port = port
               /\ w.arpq = arpq /\ w.wire = wire
BY StateParts DEF IInv

(* The types of arp.c and ip_eth.c: no handler leaves a port, an entry, a queue
   or a counter out of its range. *)
THEOREM TypeCorrect == Spec => []TypeOK
<1>1. IInv => TypeOK
  BY StateGood, WorldParts DEF IInv, TypeOK, Good
<1> QED
  BY <1>1, Invariance, PTL

(* find_cache_ent() is never ambiguous. *)
THEOREM CacheIsMap == Spec => []OneEntryEach
<1>1. IInv => OneEntryEach
  BY StateGood DEF OneEntryEach, Good, OneEach
<1> QED
  BY <1>1, Invariance, PTL

(* No packet waits behind a port that is not asking. *)
THEOREM QueueLookedAt == Spec => []QueueCovered
<1>1. IInv => QueueCovered
  BY StateGood DEF QueueCovered, Waits
<1> QED
  BY <1>1, Invariance, PTL

(* No packet goes to another host's Ethernet address. *)
THEOREM FrameRight == Spec => []FrameFindsHost
<1>1. IInv => FrameFindsHost
  BY StateGood DEF FrameFindsHost, Good, Aimed
<1> QED
  BY <1>1, Invariance, PTL

(* A port waits for exactly the entry that is incomplete, with its timer
   running, if no port gets its address while another is asking. *)
LEMMA CoversRequest ==
  ASSUME IInv, Covered(State(cache, port, arpq, wire), {})
  PROVE  RequestCovered
<1> DEFINE w == State(cache, port, arpq, wire)
<1>1. Good(w) /\ Covered(w, {}) /\ w.cache = cache /\ w.port = port
  BY StateParts DEF IInv
<1> HIDE DEF w
<1> SUFFICES ASSUME NEW p \in Port
             PROVE  /\ port[p].clientreq <=> port[p].timer # None
                    /\ {i \in Entries : cache[i].state = "INCOMPLETE" /\ cache[i].port = p}
                         = IF port[p].clientreq THEN Matches(World, p, port[p].req) ELSE {}
                    /\ port[p].clientreq => Matches(World, p, port[p].req) # {}
  BY DEF RequestCovered
<1> DEFINE I == {i \in Entries : cache[i].state = "INCOMPLETE" /\ cache[i].port = p}
           M == Matches(w, p, port[p].req)
<1>2. Matches(World, p, port[p].req) = M
  BY <1>1 DEF Matches, World
<1>3. CoveredAt(w, p)
  BY <1>1 DEF Covered
<1>4. \A i \in I : port[p].clientreq /\ i \in M
  BY <1>1 DEF Good, Asking, Matches
<1>5. CASE port[p].clientreq
  <2>1. PICK i \in I : TRUE
    BY <1>1, <1>3, <1>5 DEF CoveredAt
  <2>2. i \in M
    BY <1>4, <2>1
  <2>3. M = {i}
    BY <1>1, <2>2, MatchesOne
  <2>4. I = M
    BY <1>4, <2>1, <2>3
  <2> QED
    BY <1>1, <1>2, <1>3, <1>5, <2>2, <2>4 DEF CoveredAt
<1>6. CASE ~port[p].clientreq
  <2>1. I = {}
    BY <1>4, <1>6
  <2> QED
    BY <1>1, <1>3, <1>6, <2>1 DEF CoveredAt
<1> QED
  BY <1>5, <1>6

(* If no port is given its address while another is asking (setting one clears
   the whole cache), a port waits for exactly the entry that is incomplete, with
   its timer running: arp_timeout()'s assertion holds (arp.c). *)
THEOREM RequestsSettled == Spec /\ [][Calm]_vars => []RequestCovered
<1> DEFINE CInv == IInv /\ Covered(State(cache, port, arpq, wire), {})
<1>1. Init => CInv
  BY InitIInv
<1>2. CInv /\ [Next]_vars /\ [Calm]_vars => CInv'
  <2> SUFFICES ASSUME CInv, [Next]_vars, [Calm]_vars PROVE CInv'
    OBVIOUS
  <2>1. CASE Calm
    BY <2>1, NextIInv DEF StillCovered
  <2>2. CASE UNCHANGED vars
    BY <2>2 DEF vars, IInv
  <2> QED
    BY <2>1, <2>2
<1>3. CInv => RequestCovered
  BY CoversRequest
<1> HIDE DEF CInv
<1> QED
  BY <1>1, <1>2, <1>3, PTL DEF Spec

(* A single port has nobody to disturb it. *)
THEOREM OnePortSettled ==
  ASSUME NEW p0, Port = {p0}
  PROVE  Spec => []RequestCovered
<1>1. IInv /\ [Next]_vars => [Calm]_vars
  <2> SUFFICES ASSUME IInv PROVE Calm
    OBVIOUS
  <2> SUFFICES ASSUME arp_set_ipaddr(p0) PROVE ~port[p0].clientreq
    BY DEF Calm
  <2>1. ~port[p0].up
    BY Zenon DEF arp_set_ipaddr
  <2>2. port[p0].clientreq => port[p0].up
    BY StateGood DEF Good, Ticking
  <2> QED
    BY <2>1, <2>2
<1> QED
  BY <1>1, Invariance, RequestsSettled, PTL DEF Spec
=============================================================================
