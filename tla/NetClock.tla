------------------------------- MODULE NetClock -------------------------------
(***************************************************************************)
(* The inet daemon's time: the tick clock and the timer chain of           *)
(* net/inet/coh_clock.c, the event queue of generic/event.c, and the main  *)
(* loop of net/inet/coh_inet.c that drives both from select().             *)
(*                                                                         *)
(* The daemon is one thread.  Around it time passes, input arrives and     *)
(* somebody sets the machine's clock, at any moment.  Everything the loop  *)
(* calls (a request, a frame, a timer's function, an event's function) is  *)
(* code of the stack, which may arm and release timers and queue events as *)
(* often as it likes before it returns; it sees one cached time.           *)
(*                                                                         *)
(* All times are in ticks; the machine's clock is its seconds and its      *)
(* milliseconds rounded down to a tick, which is all get_time() uses.      *)
(***************************************************************************)
EXTENDS Integers, Sequences, SequencesExt, FiniteSetsExt

CONSTANTS
  Timer,          \* the timer_t's: one per connection, one per ARP port
  Event,          \* the event_t's: loopback, TCP send
  HZ,             \* ticks in a second
  CLCK_SEED,      \* CLCK_SEED_MASK + 1
  CLCK_MAX_STEP,  \* seconds; a longer step is the clock being set
  MAX_WAIT,       \* ticks; the longest the loop asks select() to wait
  PollMax,        \* ticks; the longest wait poll(2)'s int can carry
  Delays,         \* how far ahead the stack arms a timer
  Jumps,          \* seconds by which the machine's clock is set
  Sets,           \* bound: how often it is set
  Start,          \* the machine's clock when the daemon starts
  MaxWall,        \* bound: where the machine's clock stops
  Horizon,        \* bound: no timer is armed for later than this
  MaxInputs       \* bound: arrivals of input, of events and of signals

ASSUME UnitsAssumption ==
  /\ HZ \in Nat \ {0} /\ CLCK_SEED \in Nat \ {0}
  /\ CLCK_MAX_STEP \in Nat /\ MAX_WAIT \in Nat \ {0} /\ PollMax \in Nat
ASSUME WaitAssumption == MAX_WAIT <= PollMax
ASSUME DelaysAssumption == Delays \subseteq Nat \ {0}
ASSUME WorldAssumption ==
  /\ Jumps \subseteq Int /\ Sets \in Nat /\ Start \in Nat
  /\ MaxWall \in Nat /\ Horizon \in Nat /\ MaxInputs \in Nat

VARIABLES
  wall,              \* the machine's clock
  sets,              \* how often it has been set
  curr_time,         \* the time the stack is living in, or 0: not asked yet
  clck_ticks,        \* whole seconds of network time, in ticks
  clck_lastsec,      \* the machine's second clck_ticks was advanced from
  clck_prev,         \* the last time handed out
  clck_running,
  timer_chain,       \* the armed timers
  tim_time, tim_active,
  clck_call_expire,
  evq,               \* ev_head ... ev_tail
  pc,                \* where the daemon is
  now,               \* the local of clck_expire_timers()
  left,              \* ticks select() has still to wait, or Forever
  input,             \* is some descriptor readable?
  inputs             \* arrivals so far

clock == <<curr_time, clck_ticks, clck_lastsec, clck_prev, clck_running>>
timers == <<timer_chain, tim_time, tim_active, clck_call_expire>>
world == <<wall, sets, input, inputs>>
vars == <<world, clock, timers, evq, pc, now, left>>

Forever == -1

(* The places where code of the stack runs: a request or a frame, a timer's
   function, an event's function. *)
Code == {"handler", "callback", "event"}

-----------------------------------------------------------------------------
(* get_time() *)

Second == wall \div HZ

Base == IF clck_running THEN clck_lastsec ELSE Second

Ticks == IF clck_running THEN clck_ticks ELSE (Second % CLCK_SEED) * HZ

(* Taking every step for elapsed time. *)
TrustingStep == Second - Base

(* Elapsed seconds; none if the clock was evidently set. *)
Step ==
  LET step == Second - Base
  IN  IF step < 0 \/ step > CLCK_MAX_STEP THEN 0 ELSE step

Measured == Ticks + Step * HZ + (wall % HZ) + 1

(* The time without the clamp. *)
Unclamped == Measured

(* What get_time() would find if it asked. *)
Fresh == IF Measured < clck_prev THEN clck_prev ELSE Measured

(* What it answers. *)
Time == IF curr_time # 0 THEN curr_time ELSE Fresh

(* Not recording the time handed out. *)
ForgetTime ==
  IF curr_time # 0
  THEN UNCHANGED clock
  ELSE /\ clck_running' = TRUE
       /\ clck_ticks' = Ticks + Step * HZ
       /\ clck_lastsec' = Second
       /\ curr_time' = Fresh
       /\ UNCHANGED clck_prev

get_time ==
  IF curr_time # 0
  THEN UNCHANGED clock
  ELSE /\ clck_running' = TRUE
       /\ clck_ticks' = Ticks + Step * HZ
       /\ clck_lastsec' = Second
       /\ clck_prev' = Fresh
       /\ curr_time' = Fresh

reset_time ==
  /\ curr_time' = 0
  /\ UNCHANGED <<clck_ticks, clck_lastsec, clck_prev, clck_running>>

-----------------------------------------------------------------------------
(* The timer chain *)

(* Not looking whether the timer is in the chain. *)
ReleaseNothing(chain, t) == chain

(* An active timer is unlinked where the walk from the head first meets it. *)
clck_fast_release(chain, t) ==
  IF ~tim_active[t] THEN chain
  ELSE RemoveAt(chain, Min({k \in DOMAIN chain : chain[k] = t}))

(* The walk of clck_timer(): in front, or behind the head and every timer
   after it that is earlier. *)
Insert(chain, t, timeout) ==
  LET Earlier(k) == \A j \in 2 .. k : tim_time[chain[j]] < timeout
      place == IF chain = <<>> \/ timeout < tim_time[Head(chain)] THEN 0
               ELSE Max({k \in 1 .. Len(chain) : Earlier(k)})
  IN  InsertAt(chain, place + 1, t)

(* Is there a head of the chain, and is it due at time n? *)
HeadDue(chain, times, n) == chain # <<>> /\ times[Head(chain)] <= n

(* set_timer(): is the head of the chain, as it now is, due already? *)
set_timer ==
  clck_call_expire' =
    (clck_call_expire \/ HeadDue(timer_chain', tim_time', Time))

(* clck_timer(), called with get_time() + d. *)
clck_timer(t, d) ==
  /\ pc \in Code
  /\ Time + d <= Horizon
  /\ timer_chain' = Insert(clck_fast_release(timer_chain, t), t, Time + d)
  /\ tim_time' = [tim_time EXCEPT ![t] = Time + d]
  /\ tim_active' = [tim_active EXCEPT ![t] = TRUE]
  /\ set_timer
  /\ get_time
  /\ UNCHANGED <<world, evq, pc, now, left>>

clck_untimer(t) ==
  /\ pc \in Code
  /\ timer_chain' = clck_fast_release(timer_chain, t)
  /\ tim_active' = [tim_active EXCEPT ![t] = FALSE]
  /\ UNCHANGED tim_time
  /\ set_timer
  /\ IF timer_chain' # <<>> THEN get_time ELSE UNCHANGED clock
  /\ UNCHANGED <<world, evq, pc, now, left>>

(* clck_expire_timers(), up to its loop. *)
clck_expire_timers ==
  /\ pc = "top" /\ evq = <<>> /\ clck_call_expire
  /\ clck_call_expire' = FALSE
  /\ IF timer_chain = <<>>
     THEN UNCHANGED <<clock, pc, now>>
     ELSE get_time /\ now' = Time /\ pc' = "expire"
  /\ UNCHANGED <<world, timer_chain, tim_time, tim_active, evq, left>>

(* A turn of the loop: the head is unlinked before its function is called. *)
Expire ==
  /\ pc = "expire"
  /\ HeadDue(timer_chain, tim_time, now)
  /\ tim_active' = [tim_active EXCEPT ![Head(timer_chain)] = FALSE]
  /\ timer_chain' = Tail(timer_chain)
  /\ pc' = "callback"
  /\ UNCHANGED <<world, clock, tim_time, clck_call_expire, evq, now, left>>

(* The end of the loop. *)
ExpireEnd ==
  /\ pc = "expire"
  /\ ~HeadDue(timer_chain, tim_time, now)
  /\ UNCHANGED <<timer_chain, tim_time, tim_active>>
  /\ set_timer
  /\ now' = 0
  /\ pc' = "top"
  /\ UNCHANGED <<world, clock, evq, left>>

-----------------------------------------------------------------------------
(* The event queue *)

InQueue(e) == \E k \in DOMAIN evq : evq[k] = e

ev_enqueue(e) ==
  /\ pc \in Code
  /\ ~InQueue(e)
  /\ inputs < MaxInputs
  /\ inputs' = inputs + 1
  /\ evq' = Append(evq, e)
  /\ UNCHANGED <<wall, sets, input, clock, timers, pc, now, left>>

(* ev_process(): an event is off the queue before its function is called. *)
ev_process ==
  /\ pc = "top" /\ evq # <<>>
  /\ evq' = Tail(evq)
  /\ pc' = "event"
  /\ UNCHANGED <<world, clock, timers, now, left>>

-----------------------------------------------------------------------------
(* main() *)

(* The code the loop called returns. *)
Return ==
  /\ pc \in Code
  /\ pc' = IF pc = "callback" THEN "expire" ELSE "top"
  /\ UNCHANGED <<world, clock, timers, evq, now, left>>

(* poll(2): a wait its int cannot carry reads as negative, for ever. *)
Poll(wait) == IF wait > PollMax THEN Forever ELSE wait

(* The wait in one piece. *)
WholeWait ==
  IF timer_chain = <<>> THEN Forever
  ELSE LET deadline == tim_time[Head(timer_chain)]
       IN  Poll(IF deadline > Time THEN deadline - Time ELSE 0)

(* How long the loop asks to sleep: to the deadline, if there is one, and
   MAX_WAIT at most. *)
Wait ==
  IF timer_chain = <<>> THEN Forever
  ELSE LET deadline == tim_time[Head(timer_chain)]
       IN  Poll(IF deadline > Time THEN Min({deadline - Time, MAX_WAIT}) ELSE 0)

(* Sleeping without looking at the event queue. *)
SelectFirst ==
  /\ pc = "top" /\ ~clck_call_expire
  /\ left' = Wait
  /\ IF timer_chain # <<>> THEN get_time ELSE UNCHANGED clock
  /\ pc' = "select"
  /\ UNCHANGED <<world, timers, evq, now>>

Select ==
  /\ pc = "top" /\ evq = <<>> /\ ~clck_call_expire
  /\ left' = Wait
  /\ IF timer_chain # <<>> THEN get_time ELSE UNCHANGED clock
  /\ pc' = "select"
  /\ UNCHANGED <<world, timers, evq, now>>

(* r > 0: sr_handle_fds() and eth_recv() *)
SelectInput ==
  /\ pc = "select" /\ input
  /\ input' = FALSE
  /\ reset_time
  /\ pc' = "handler"
  /\ left' = 0
  /\ UNCHANGED <<wall, sets, inputs, timers, evq, now>>

(* r = 0 *)
SelectTimeout ==
  /\ pc = "select" /\ ~input /\ left = 0
  /\ reset_time
  /\ clck_call_expire' = TRUE
  /\ pc' = "top"
  /\ UNCHANGED <<world, timer_chain, tim_time, tim_active, evq, now, left>>

(* r < 0: a signal *)
SelectSignal ==
  /\ pc = "select"
  /\ inputs < MaxInputs
  /\ inputs' = inputs + 1
  /\ reset_time
  /\ pc' = "top"
  /\ left' = 0
  /\ UNCHANGED <<wall, sets, input, timers, evq, now>>

-----------------------------------------------------------------------------
(* The world *)

(* A tick.  Past MaxWall time goes on only for a select() with time to go. *)
Elapse ==
  /\ wall < MaxWall \/ (pc = "select" /\ left > 0)
  /\ wall' = wall + 1
  /\ left' = IF pc = "select" /\ left > 0 THEN left - 1 ELSE left
  /\ UNCHANGED <<sets, input, inputs, clock, timers, evq, pc, now>>

(* stime(2), by date(1) or sntp: by j seconds, to a tick within the second. *)
SetClock(j, k) ==
  /\ sets < Sets
  /\ sets' = sets + 1
  /\ Second + j >= 0
  /\ wall' = (Second + j) * HZ + k
  /\ UNCHANGED <<input, inputs, clock, timers, evq, pc, now, left>>

(* A request, a frame, an end of file. *)
Arrive ==
  /\ ~input
  /\ inputs < MaxInputs
  /\ input' = TRUE
  /\ inputs' = inputs + 1
  /\ UNCHANGED <<wall, sets, clock, timers, evq, pc, now, left>>

-----------------------------------------------------------------------------
(* nw_init() is over, no timer is armed and the clock has not been read. *)
Init ==
  /\ wall = Start /\ sets = 0
  /\ curr_time = 0 /\ clck_ticks = 0 /\ clck_lastsec = 0 /\ clck_prev = 0
  /\ clck_running = FALSE
  /\ timer_chain = <<>>
  /\ tim_time = [t \in Timer |-> 0]
  /\ tim_active = [t \in Timer |-> FALSE]
  /\ clck_call_expire = FALSE
  /\ evq = <<>>
  /\ pc = "top" /\ now = 0 /\ left = 0
  /\ input = FALSE /\ inputs = 0

(* What the daemon does next, the loop's own steps and returns. *)
Loop ==
  \/ clck_expire_timers \/ Expire \/ ExpireEnd
  \/ ev_process \/ Return
  \/ Select \/ SelectInput \/ SelectTimeout

Next ==
  \/ Loop
  \/ SelectSignal
  \/ \E t \in Timer : clck_untimer(t)
  \/ \E t \in Timer, d \in Delays : clck_timer(t, d)
  \/ \E e \in Event : ev_enqueue(e)
  \/ Elapse
  \/ \E j \in Jumps, k \in 0 .. HZ - 1 : SetClock(j, k)
  \/ Arrive

Spec == Init /\ [][Next]_vars

(* The daemon keeps running and time keeps passing; MaxInputs makes input
   pause, as main() needs it to (see README).  Nothing says that a handler
   touches a timer. *)
Fairness == WF_vars(Loop) /\ WF_vars(Elapse)

FairSpec == Spec /\ Fairness

-----------------------------------------------------------------------------
(* Properties *)

(* Types; now is set only inside clck_expire_timers(), whose time it is, and
   no time is handed out below clck_ticks. *)
TypeOK ==
  /\ wall \in Nat /\ sets \in 0 .. Sets
  /\ curr_time \in {0, clck_prev} /\ clck_prev \in Nat
  /\ clck_ticks \in Nat /\ clck_lastsec \in Nat
  /\ clck_running \in BOOLEAN
  /\ clck_running => clck_prev > clck_ticks
  /\ timer_chain \in Seq(Timer)
  /\ tim_time \in [Timer -> 0 .. Horizon]
  /\ tim_active \in [Timer -> BOOLEAN]
  /\ clck_call_expire \in BOOLEAN
  /\ evq \in Seq(Event)
  /\ pc \in {"top", "expire", "select"} \cup Code
  /\ now \in {0, curr_time} /\ (now # 0 => pc \in {"expire", "callback"})
  /\ left \in {Forever} \cup 0 .. PollMax
  /\ input \in BOOLEAN /\ inputs \in 0 .. MaxInputs

(* The chain holds each active timer once, no other, and in the order of
   their times, whatever timers' functions do to it while clck_expire_timers()
   is walking it: re-arming an armed timer moves it, and neither loses another
   nor makes the chain a cycle. *)
ChainExact ==
  /\ \A t \in Timer : tim_active[t] <=> \E k \in DOMAIN timer_chain : timer_chain[k] = t
  /\ \A j, k \in DOMAIN timer_chain :
       j < k => /\ timer_chain[j] # timer_chain[k]
                /\ tim_time[timer_chain[j]] <= tim_time[timer_chain[k]]

(* The daemon never sleeps on something it could do: when main() is inside
   select() no event is queued, no expiry is flagged, and if a timer is armed
   the sleep ends, at the latest when the earliest is due. *)
NothingMissedAsleep ==
  pc = "select" =>
    /\ evq = <<>>
    /\ ~clck_call_expire
    /\ timer_chain # <<>> =>
         left # Forever /\ left <= Max({0, tim_time[Head(timer_chain)] - curr_time})

(* Network time never goes backwards, however the machine's clock is set;
   tcp_send_timeout() asserts as much (assert(stt <= curr_time)). *)
NeverBackwards ==
  [][/\ clck_prev' >= clck_prev
     /\ curr_time' # 0 => curr_time' >= clck_prev]_vars

(* A machine's clock set back, or ahead by more than CLCK_MAX_STEP, moves
   network time by less than a second. *)
AbsurdStepHarmless ==
  clck_running /\ Second - clck_lastsec \notin 0 .. CLCK_MAX_STEP =>
    Fresh \in clck_prev .. clck_prev + HZ - 1

Due(t) == tim_active[t] /\ tim_time[t] <= Fresh

(* A timer that is due is run, unless it is released or re-armed. *)
DueTimersRun == \A t \in Timer : Due(t) ~> ~Due(t)

(* A queued event is run. *)
EventsRun == \A e \in Event : InQueue(e) ~> ~InQueue(e)
=============================================================================
