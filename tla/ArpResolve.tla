----------------------------- MODULE ArpResolve -----------------------------
(***************************************************************************)
(* Ethernet address resolution: net/inet/generic/arp.c, and the packets of *)
(* net/inet/generic/ip_eth.c that wait for it.                             *)
(*                                                                         *)
(* Every port asks for one address at a time; packets for other addresses  *)
(* wait behind it.  An answer calls ipeth_arp_reply(), which calls back    *)
(* into arp_ip_eth() for the next packet while the first answer is still   *)
(* being processed.  A write to another host is synchronous                *)
(* (coh_eth.c:eth_write_port), so setup_write() and ipeth_restart_send()   *)
(* run to the end within the handler that calls them, and APF_MORE2WRITE,  *)
(* APF_CLIENTWRITE and ACF_GOTREQ are down again when it returns.          *)
(*                                                                         *)
(* A remote host is its IP address and its Ethernet address at once, so a  *)
(* frame that goes astray shows.  Times are kept relative to now.          *)
(***************************************************************************)
EXTENDS Integers, FiniteSets, SequencesExt

CONSTANTS
  Port,            \* the Ethernet ports
  Host,            \* the remote hosts
  ARP_CACHE_NR,
  MAX_ARP_RETRIES,
  HZ,              \* ticks per second
  ARP_EXP_TIME, ARP_NOTRCH_EXP_TIME, ARP_INUSE_OFFSET,
  MaxIdle,         \* bound: longer unused is not told apart
  TTLs,            \* times to live a packet may start with
  MaxAge,          \* bound: ticks a packet waits, more are not told apart
  MaxPackets,      \* bound: packets sent in all
  None

ARP_TIMEOUT == HZ \div 2 + 1

ASSUME ArpAssumption ==
  /\ IsFiniteSet(Port) /\ ARP_CACHE_NR \in Nat /\ ARP_CACHE_NR > Cardinality(Port)
  /\ TTLs \subseteq Nat \ {0} /\ MaxPackets \in Nat
  /\ MaxAge \in Nat /\ \A ttl \in TTLs : MaxAge > ttl * HZ
  /\ None \notin Host /\ None \notin 0 .. ARP_TIMEOUT

(* An entry outlives the request that made it, and an unreachable one is kept
   no longer than any other: arp.c has 20 minutes against 5 tries of half a
   second, and 5 seconds. *)
ASSUME TimesAssumption ==
  /\ MAX_ARP_RETRIES \in Nat \ {0} /\ HZ \in Nat \ {0}
  /\ {ARP_EXP_TIME, ARP_NOTRCH_EXP_TIME, ARP_INUSE_OFFSET} \subseteq Nat
  /\ MaxIdle \in Nat /\ MaxIdle >= ARP_INUSE_OFFSET
  /\ ARP_EXP_TIME >= MAX_ARP_RETRIES * ARP_TIMEOUT
  /\ ARP_EXP_TIME >= ARP_NOTRCH_EXP_TIME

VARIABLES
  cache,   \* arp_cache: [1..ARP_CACHE_NR -> entry]
  port,    \* arp_port_table
  arpq,    \* de_arp_head .. de_arp_tail of the port's IP side
  wire,    \* the frames the last step put on each port's wire
  packets  \* packets sent so far

vars == <<cache, port, arpq, wire, packets>>

(* What the handlers change, as one record. *)
World == [cache |-> cache, port |-> port, arpq |-> arpq,
          wire |-> [p \in Port |-> {}]]

Becomes(w) ==
  \E v \in {w} : /\ cache' = v.cache /\ port' = v.port
                 /\ arpq' = v.arpq /\ wire' = v.wire

(* An unused entry; what it held before is never read again. *)
Unused == [state |-> "UNUSED", ip |-> None, port |-> None, eth |-> None,
           left |-> 0, idle |-> MaxIdle]

Emit(w, p, f) == [w EXCEPT !.wire[p] = @ \cup {f}]

-----------------------------------------------------------------------------
(* The cache. *)

Entries == 1 .. ARP_CACHE_NR

Matches(w, p, ip) ==
  {i \in Entries : /\ w.cache[i].state # "UNUSED"
                   /\ w.cache[i].port = p /\ w.cache[i].ip = ip}

(* ac_expire < curr_time. *)
Expired(e) == e.left < 0

(* find_cache_ent(), and the expiry both its callers do first: the cache
   afterwards, and the entry found or 0. *)
find_cache_ent(w, p, ip) ==
  LET m == Matches(w, p, ip)
      i == IF m = {} THEN 0 ELSE Min(m)
      gone == i # 0 /\ Expired(w.cache[i])
  IN [w |-> IF gone THEN [w EXCEPT !.cache[i] = Unused] ELSE w,
      i |-> IF gone THEN 0 ELSE i]

(* Mutant: an entry still being asked for may be taken. *)
AllocAny(w) ==
  CHOOSE i \in Entries :
    \A j \in Entries : w.cache[i].idle > w.cache[j].idle
                         \/ (w.cache[i].idle = w.cache[j].idle /\ i <= j)

(* alloc_cache_ent(): the first unused entry, or the one longest without use
   that is not being asked for. *)
alloc_cache_ent(w) ==
  LET unused == {i \in Entries : w.cache[i].state = "UNUSED"}
      others == {i \in Entries : w.cache[i].state # "INCOMPLETE"}
  IN IF unused # {} THEN Min(unused)
     ELSE CHOOSE i \in others :
            \A j \in others :
              \/ w.cache[i].idle > w.cache[j].idle
              \/ w.cache[i].idle = w.cache[j].idle /\ i <= j

-----------------------------------------------------------------------------
(* setup_write() with APF_CLIENTWRITE: the request goes out, the timer runs.
   eth_write() could suspend it only behind a frame of the port to itself
   (eth.c:447-453), which waits for eth_loop_ev(); there is none here. *)
Ask(w, p) ==
  [Emit(w, p, [kind |-> "REQUEST", ip |-> w.port[p].req, eth |-> None])
     EXCEPT !.port[p].timer = ARP_TIMEOUT]

Incomplete(w, p, ip) ==
  [w EXCEPT !.cache[alloc_cache_ent(w)] =
     [@ EXCEPT !.state = "INCOMPLETE", !.ip = ip, !.port = p,
               !.left = ARP_EXP_TIME, !.idle = 0]]

(* Mutant: the tries of the last request are counted in. *)
StartCounting(w, p, ip) ==
  Ask([Incomplete(w, p, ip) EXCEPT !.port[p].clientreq = TRUE,
                                   !.port[p].req = ip], p)

(* The end of arp_ip_eth(): a new entry, and the first request for it. *)
StartRequest(w, p, ip) ==
  Ask([Incomplete(w, p, ip) EXCEPT !.port[p].clientreq = TRUE,
                                   !.port[p].req = ip, !.port[p].count = 0], p)

(* Mutant: whatever address an entry has is good enough. *)
AnswerStale(w, p, ip) ==
  LET f == find_cache_ent(w, p, ip)
      e == f.w.cache[f.i]
  IN IF f.i # 0
     THEN [w |-> f.w, eth |-> e.eth,
           r |-> IF e.eth # None THEN "OK" ELSE "SUSPEND"]
     ELSE [w |-> IF f.w.port[p].clientreq THEN f.w ELSE StartRequest(f.w, p, ip),
           r |-> "SUSPEND", eth |-> None]

(* arp_ip_eth(): an answer from the cache, or "SUSPEND"; asks unless the port
   is asking for another address. *)
arp_ip_eth(w, p, ip) ==
  LET f == find_cache_ent(w, p, ip)
      e == f.w.cache[f.i]
  IN IF f.i # 0
     THEN [w |-> [f.w EXCEPT !.cache[f.i].idle = 0], eth |-> e.eth,
           r |-> CASE e.state = "VALID" -> "OK"
                   [] e.state = "UNREACHABLE" -> "EDSTNOTRCH"
                   [] e.state = "INCOMPLETE" -> "SUSPEND"]
     ELSE [w |-> IF f.w.port[p].clientreq THEN f.w ELSE StartRequest(f.w, p, ip),
           r |-> "SUSPEND", eth |-> None]

-----------------------------------------------------------------------------
(* ip_eth.c *)

(* ipeth_restart_send() and ipeth_update_ttl(): what a packet becomes on the
   wire.  One that waited more than a second pays for it with its time to
   live, and is dropped if it cannot. *)
Frames(pk, eth) ==
  LET diff == IF pk.age > HZ THEN pk.age \div HZ ELSE 0
  IN IF diff > 0 /\ pk.ttl <= diff THEN {}
     ELSE {[kind |-> "IP", ip |-> pk.dest, eth |-> eth]}

Transmit(w, p, pk, eth) == [w EXCEPT !.wire[p] = @ \cup Frames(pk, eth)]

(* The first k packets of the queue q without those for ip. *)
Without(q, ip) ==
  LET kept[k \in 0 .. Len(q)] ==
        IF k = 0 THEN <<>>
        ELSE IF q[k].dest = ip THEN kept[k - 1] ELSE Append(kept[k - 1], q[k])
  IN kept

(* The queue of packets without those for ip. *)
Rest(w, p, ip) == Without(w.arpq[p], ip)[Len(w.arpq[p])]

(* The packets for ip leave, or are dropped when nobody answered. *)
Deliver(w, p, ip, eth) ==
  LET mine == {k \in 1 .. Len(w.arpq[p]) : w.arpq[p][k].dest = ip}
  IN [w EXCEPT !.arpq[p] = Rest(w, p, ip),
               !.wire[p] = @ \cup IF eth = None THEN {}
                                  ELSE UNION {Frames(w.arpq[p][k], eth) : k \in mine}]

(* The first packet of the queue gets an answer from arp_ip_eth() without
   waiting. *)
Ready(w, p, ip) ==
  \E i \in Matches(w, p, ip) :
    w.cache[i].state # "INCOMPLETE" /\ ~Expired(w.cache[i])

(* Mutant: only the packets for the answered address are looked at. *)
ReplyOnly(w, p, ip, eth) == Deliver(w, p, ip, eth)

(* ipeth_arp_reply(): the packets for ip, then the others from the head of the
   queue until one has to wait; that one starts the next request. *)
ipeth_arp_reply(w, p, ip, eth) ==
  LET out == Deliver(w, p, ip, eth)
      rest == Rest(w, p, ip)
      n == Max({k \in 0 .. Len(rest) :
                  \A j \in 1 .. k : Ready(out, p, rest[j].dest)})
      used == UNION {Matches(out, p, rest[j].dest) : j \in 1 .. n}
      valid == {x \in used \X (1 .. n) :
                  /\ out.cache[x[1]].ip = rest[x[2]].dest
                  /\ out.cache[x[1]].state = "VALID"}
      gone == [out EXCEPT
                 !.cache = [i \in Entries |-> IF i \in used
                              THEN [out.cache[i] EXCEPT !.idle = 0]
                              ELSE out.cache[i]],
                 !.wire[p] = @ \cup UNION {Frames(rest[x[2]], out.cache[x[1]].eth)
                                           : x \in valid},
                 !.arpq[p] = SubSeq(rest, n + 1, Len(rest))]
  IN IF n = Len(rest) THEN gone ELSE arp_ip_eth(gone, p, rest[n + 1].dest).w

(* client_reply() *)
client_reply(w, p, ip, eth) ==
  LET mine == w.port[p].clientreq /\ ip = w.port[p].req
      free == [w EXCEPT !.port[p].clientreq = FALSE, !.port[p].timer = None]
  IN ipeth_arp_reply(IF mine THEN free ELSE w, p, ip, eth)

-----------------------------------------------------------------------------
(* process_arp_req() *)

(* The entry of the sender: found, or made if the packet was for us. *)
Learn(w, p, spa) ==
  LET j == alloc_cache_ent(w)
  IN [w |-> [w EXCEPT !.cache[j] =
               [state |-> "VALID", ip |-> spa, port |-> p, eth |-> spa,
                left |-> ARP_EXP_TIME, idle |-> ARP_INUSE_OFFSET]],
      i |-> j]

(* Mutant: the address is learned without a look at who has the entry. *)
LearnAgain(w, p, spa, op, forus) ==
  LET k == Learn(w, p, spa)
  IN IF ~forus THEN w
     ELSE IF op # "REQUEST" THEN k.w
     ELSE Emit(k.w, p, [kind |-> "REPLY", ip |-> spa, eth |-> spa])

(* An ARP packet from spa.  The entry is still written to after the answer
   has been passed on, and whose it is by then decides the reply's address. *)
process_arp_req(w, p, spa, op, forus) ==
  LET f == find_cache_ent(w, p, spa)
      k == IF f.i = 0 THEN Learn(f.w, p, spa) ELSE f
      e == k.w.cache[k.i]
      valid == [k.w EXCEPT !.cache[k.i].state = "VALID", !.cache[k.i].eth = spa]
      told == IF e.state = "INCOMPLETE"
              THEN client_reply(valid, p, spa, spa) ELSE valid
      kept == [told EXCEPT !.cache[k.i].eth = spa,
                           !.cache[k.i].left = ARP_EXP_TIME]
  IN IF f.i = 0 /\ ~forus THEN f.w
     ELSE IF op = "REQUEST" /\ forus
     THEN Emit(kept, p, [kind |-> "REPLY", ip |-> kept.cache[k.i].ip, eth |-> spa])
     ELSE kept

(* Mutant: the last try starts them all again. *)
TryAgain(w, p) ==
  Ask([w EXCEPT !.port[p].count = 0,
                !.cache = [i \in Entries |->
                   IF i \in Matches(w, p, w.port[p].req)
                   THEN [w.cache[i] EXCEPT !.left = ARP_EXP_TIME]
                   ELSE w.cache[i]]], p)

(* arp_timeout() *)
arp_timeout(w, p) ==
  LET off == [w EXCEPT !.port[p].timer = None, !.port[p].count = @ + 1]
      m == Matches(w, p, w.port[p].req)
      i == Min(m)
      dead == [off EXCEPT !.cache[i].state = "UNREACHABLE",
                          !.cache[i].left = ARP_NOTRCH_EXP_TIME,
                          !.cache[i].idle = 0]
  IN IF off.port[p].count < MAX_ARP_RETRIES THEN Ask(off, p)
     ELSE IF m = {} THEN off
     ELSE client_reply(dead, p, w.port[p].req, None)

-----------------------------------------------------------------------------
(* The actions. *)

(* arp_set_ipaddr() on a port that waits for its address: arp_main() clears
   the cache, the entries of the other ports with it. *)
arp_set_ipaddr(p) ==
  /\ ~port[p].up
  /\ Becomes([World EXCEPT !.port[p].up = TRUE,
                           !.cache = [i \in Entries |-> Unused]])
  /\ UNCHANGED packets

(* ipeth_send() of a packet that is not a broadcast. *)
ipeth_send(p, dest, ttl) ==
  /\ port[p].up /\ packets < MaxPackets
  /\ packets' = packets + 1
  /\ LET a == arp_ip_eth(World, p, dest)
         pk == [id |-> packets + 1, dest |-> dest, ttl |-> ttl, age |-> 0]
     IN Becomes(CASE a.r = "OK" -> Transmit(a.w, p, pk, a.eth)
                  [] a.r = "EDSTNOTRCH" -> a.w
                  [] a.r = "SUSPEND" ->
                       [a.w EXCEPT !.arpq[p] = Append(@, pk)])

(* A request or an answer of some host, for us or for another. *)
Arrive(p, spa, op, forus) ==
  /\ port[p].up
  /\ Becomes(process_arp_req(World, p, spa, op, forus))
  /\ UNCHANGED packets

Timeout(p) ==
  /\ port[p].timer = 0
  /\ Becomes(arp_timeout(World, p))
  /\ UNCHANGED packets

(* A tick of the clock.  Timers that are due run before the next. *)
Aged(e) ==
  IF e.state = "UNUSED" THEN e
  ELSE [e EXCEPT !.left = IF @ < 0 THEN @ ELSE @ - 1,
                 !.idle = IF @ < MaxIdle THEN @ + 1 ELSE @]

Tick ==
  /\ \A p \in Port : port[p].timer # 0
  /\ cache' = [i \in Entries |-> Aged(cache[i])]
  /\ port' = [p \in Port |-> IF port[p].timer = None THEN port[p]
                             ELSE [port[p] EXCEPT !.timer = @ - 1]]
  /\ arpq' = [p \in Port |-> [k \in 1 .. Len(arpq[p]) |->
                               [arpq[p][k] EXCEPT !.age =
                                  IF @ < MaxAge THEN @ + 1 ELSE @]]]
  /\ wire' = [p \in Port |-> {}]
  /\ UNCHANGED packets

(* arp_set_cb(): a port before it has its address. *)
Init ==
  /\ cache = [i \in Entries |-> Unused]
  /\ port = [p \in Port |-> [up |-> FALSE, clientreq |-> FALSE, req |-> None,
                             count |-> 0, timer |-> None]]
  /\ arpq = [p \in Port |-> <<>>]
  /\ wire = [p \in Port |-> {}]
  /\ packets = 0

Next ==
  \/ Tick
  \/ \E p \in Port :
       \/ arp_set_ipaddr(p)
       \/ \E dest \in Host, ttl \in TTLs : ipeth_send(p, dest, ttl)
       \/ \E spa \in Host, op \in {"REQUEST", "REPLY"}, forus \in BOOLEAN :
            Arrive(p, spa, op, forus)
       \/ Timeout(p)

(* Time passes and timers run; nothing is assumed of the hosts.  The second is
   weak fairness of Timeout, its guard written out: running a timer always
   changes it. *)
Fairness ==
  /\ WF_vars(Tick)
  /\ \A p \in Port : []<>(port[p].timer # 0) \/ []<><<Timeout(p)>>_vars

Spec == Init /\ [][Next]_vars /\ Fairness

-----------------------------------------------------------------------------
(* Properties. *)

(* arp_cache_t, arp_port_t, a waiting packet, a frame. *)
Entry == [state : {"UNUSED", "INCOMPLETE", "VALID", "UNREACHABLE"},
          ip : Host \cup {None}, port : Port \cup {None}, eth : Host \cup {None},
          left : -1 .. ARP_EXP_TIME, idle : 0 .. MaxIdle]

PortState == [up : BOOLEAN, clientreq : BOOLEAN, req : Host \cup {None},
              count : 0 .. MAX_ARP_RETRIES, timer : 0 .. ARP_TIMEOUT \cup {None}]

Packet == [id : 1 .. MaxPackets, dest : Host, ttl : TTLs, age : 0 .. MaxAge]

Frame == [kind : {"REQUEST", "REPLY", "IP"},
          ip : Host \cup {None}, eth : Host \cup {None}]

Worlds == [cache : [Entries -> Entry], port : [Port -> PortState],
           arpq : [Port -> Seq(Packet)], wire : [Port -> SUBSET Frame]]

(* Types. *)
TypeOK ==
  /\ cache \in [Entries -> Entry]
  /\ port \in [Port -> PortState]
  /\ arpq \in [Port -> Seq(Packet)]
  /\ wire \in [Port -> SUBSET Frame]
  /\ packets \in 0 .. MaxPackets

(* find_cache_ent() is never ambiguous: an address has one entry, although
   entries expire, are recycled under pressure and are written to after a
   call-back has used the cache. *)
OneEntryEach ==
  \A i, j \in Entries :
    /\ cache[i].state # "UNUSED" /\ cache[j].state # "UNUSED"
    /\ cache[i].port = cache[j].port /\ cache[i].ip = cache[j].ip
    => i = j

(* A port waits for exactly the entry that is incomplete, with its timer
   running: the assertion of arp_timeout() holds, an answer finds the request
   it belongs to, and a late one finds no timer. *)
RequestCovered ==
  \A p \in Port :
    /\ port[p].clientreq <=> port[p].timer # None
    /\ {i \in Entries : cache[i].state = "INCOMPLETE" /\ cache[i].port = p}
         = IF port[p].clientreq THEN Matches(World, p, port[p].req) ELSE {}
    /\ port[p].clientreq => Matches(World, p, port[p].req) # {}

(* A packet waits only while its port is asking, so that somebody will look
   at the queue again. *)
QueueCovered == \A p \in Port : arpq[p] # <<>> => port[p].clientreq

(* A frame goes to the host whose address the packet has. *)
FrameFindsHost ==
  \A p \in Port : \A f \in wire[p] : f.kind = "IP" => f.eth = f.ip

(* Every packet leaves or is dropped in the end, whether or not anyone
   answers. *)
EveryPacketLeaves ==
  \A n \in 1 .. MaxPackets :
    LET Waits == \E p \in Port : \E k \in 1 .. Len(arpq[p]) : arpq[p][k].id = n
    IN Waits ~> ~Waits
=============================================================================
