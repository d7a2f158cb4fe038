---------------------------- MODULE NetClockProofs ----------------------------
(***************************************************************************)
(* That network time never goes backwards and that an absurd step of the   *)
(* machine's clock moves it by less than a second, for every tick rate,    *)
(* every chain of timers and every way of setting the clock; then that the *)
(* timer chain is exact and that the daemon never sleeps too long.         *)
(*                                                                         *)
(* Neither is inductive.  A reading is compared with clck_prev, so the     *)
(* cache must be empty or hold just that; and what a reading can be after  *)
(* a step that is not counted depends on clck_ticks having stayed below    *)
(* every time handed out.  ClockInv says both, of the clock's variables    *)
(* alone; the rest of the daemon only calls get_time() and reset_time().   *)
(***************************************************************************)
EXTENDS NetClock, NatLemmas

(* What get_time() keeps of the clock's variables, and relies on. *)
ClockInv ==
  /\ wall \in Nat
  /\ clck_ticks \in Nat /\ clck_lastsec \in Nat /\ clck_prev \in Nat
  /\ curr_time \in {0, clck_prev}
  /\ clck_running \in BOOLEAN
  /\ clck_running => clck_prev > clck_ticks

(* What a step may do to the clock: read it, forget the reading, or neither. *)
ClockStep == get_time \/ reset_time \/ UNCHANGED clock

-----------------------------------------------------------------------------
(* The machine's clock, in whole seconds and ticks of a second. *)
LEMMA Parts ==
  ASSUME wall \in Nat
  PROVE  Second \in Nat /\ wall % HZ \in 0 .. HZ - 1
BY UnitsAssumption, Z3 DEF Second

(* The seed of a clock that is not running is not negative. *)
LEMMA Seed ==
  ASSUME wall \in Nat
  PROVE  (Second % CLCK_SEED) * HZ \in Nat
<1>1. Second \in Nat
  BY Parts
<1>2. Second % CLCK_SEED \in Nat
  BY <1>1, UnitsAssumption, Z3
<1> QED
  BY <1>2, UnitsAssumption, Z3

(* get_time() counts seconds forward or not at all. *)
LEMMA StepCounts ==
  ASSUME ClockInv
  PROVE  Step \in Nat /\ Step * HZ \in Nat
<1>1. Second \in Nat /\ Base \in Nat
  BY Parts DEF ClockInv, Base
<1>2. Step \in Nat
  BY <1>1, UnitsAssumption DEF Step
<1> QED
  BY <1>2, UnitsAssumption, Z3

(* A reading is a time, past the whole seconds it is made of, and not before
   the one handed out last. *)
LEMMA Reading ==
  ASSUME ClockInv
  PROVE  /\ Ticks + Step * HZ \in Nat
         /\ Fresh \in Nat
         /\ Fresh >= clck_prev
         /\ Fresh > Ticks + Step * HZ
<1>1. Ticks \in Nat
  BY Seed DEF ClockInv, Ticks
<1>2. Step * HZ \in Nat
  BY StepCounts
<1>3. wall % HZ \in Nat
  BY Parts, UnitsAssumption DEF ClockInv
<1>4. clck_prev \in Nat
  BY DEF ClockInv
<1> QED
  BY <1>1, <1>2, <1>3, <1>4 DEF Fresh, Measured

(* Reading the clock or forgetting the reading keeps the invariant and never
   hands out an earlier time. *)
LEMMA ClockKept ==
  ASSUME ClockInv, ClockStep, wall' \in Nat
  PROVE  /\ ClockInv'
         /\ clck_prev' >= clck_prev
         /\ curr_time' # 0 => curr_time' >= clck_prev
<1>1. CASE UNCHANGED clock
  BY <1>1 DEF ClockInv, clock
<1>2. CASE reset_time
  BY <1>2 DEF ClockInv, reset_time
<1>3. CASE get_time /\ curr_time # 0
  BY <1>3 DEF ClockInv, get_time, clock
<1>4. CASE get_time /\ curr_time = 0
  <2>1. /\ clck_running' = TRUE
        /\ clck_ticks' = Ticks + Step * HZ
        /\ clck_lastsec' = Second
        /\ clck_prev' = Fresh
        /\ curr_time' = Fresh
    BY <1>4 DEF get_time
  <2>2. Second \in Nat
    BY Parts DEF ClockInv
  <2>3. clck_prev \in Nat
    BY DEF ClockInv
  <2> QED
    BY <2>1, <2>2, <2>3, Reading DEF ClockInv
<1> QED
  BY <1>1, <1>2, <1>3, <1>4 DEF ClockStep

(* Whatever the daemon and the world do, the clock is only read or reset. *)
LEMMA OnlyClockSteps ==
  ASSUME ClockInv, [Next]_vars
  PROVE  ClockStep /\ wall' \in Nat
<1>1. CASE Loop
  BY <1>1 DEF Loop, clck_expire_timers, Expire, ExpireEnd, ev_process, Return,
    Select, SelectInput, SelectTimeout, ClockStep, ClockInv, world
<1>2. CASE SelectSignal
  BY <1>2 DEF SelectSignal, ClockStep, ClockInv, world
<1>3. CASE \E t \in Timer : clck_untimer(t)
  BY <1>3 DEF clck_untimer, ClockStep, ClockInv, world
<1>4. CASE \E t \in Timer, d \in Delays : clck_timer(t, d)
  BY <1>4 DEF clck_timer, ClockStep, ClockInv, world
<1>5. CASE \E e \in Event : ev_enqueue(e)
  BY <1>5 DEF ev_enqueue, ClockStep, ClockInv
<1>6. CASE Elapse
  BY <1>6 DEF Elapse, ClockStep, ClockInv
<1>7. CASE \E j \in Jumps, k \in 0 .. HZ - 1 : SetClock(j, k)
  <2>1. PICK j \in Jumps, k \in 0 .. HZ - 1 : SetClock(j, k)
    BY <1>7
  <2>2. Second \in Nat /\ j \in Int /\ k \in Nat
    BY Parts, UnitsAssumption, WorldAssumption DEF ClockInv
  <2>3. Second + j \in Nat
    BY <2>1, <2>2 DEF SetClock
  <2>4. (Second + j) * HZ \in Nat
    BY <2>3, UnitsAssumption, Z3
  <2>5. wall' \in Nat
    BY <2>1, <2>2, <2>4 DEF SetClock
  <2> QED
    BY <2>1, <2>5 DEF SetClock, ClockStep
<1>8. CASE Arrive
  BY <1>8 DEF Arrive, ClockStep, ClockInv
<1>9. CASE UNCHANGED vars
  BY <1>9 DEF vars, world, ClockStep, ClockInv
<1> QED
  BY <1>1, <1>2, <1>3, <1>4, <1>5, <1>6, <1>7, <1>8, <1>9 DEF Next

-----------------------------------------------------------------------------
(* The clock's invariant. *)
LEMMA InitClockInv == Init => ClockInv
<1> SUFFICES ASSUME Init PROVE ClockInv
  OBVIOUS
<1>1. clck_running \in BOOLEAN /\ ~clck_running
  BY Zenon DEF Init
<1>2. /\ wall \in Nat
      /\ clck_ticks \in Nat /\ clck_lastsec \in Nat /\ clck_prev \in Nat
      /\ curr_time \in {0, clck_prev}
  BY WorldAssumption DEF Init
<1> QED
  BY <1>1, <1>2 DEF ClockInv

(* The clock's variables have their types, the time cached is the last reading,
   and while the clock runs that reading is past the whole seconds counted
   (coh_clock.c, get_time()). *)
THEOREM ClockSound == Spec => []ClockInv
<1>1. Init => ClockInv
  BY InitClockInv
<1>2. ClockInv /\ [Next]_vars => ClockInv'
  BY ClockKept, OnlyClockSteps
<1> QED
  BY <1>1, <1>2, PTL DEF Spec

(* Network time never goes backwards, however often, however far and in
   whichever direction the machine's clock is set (coh_clock.c, get_time()). *)
THEOREM TimeIsMonotone == Spec => NeverBackwards
<1>1. ClockInv /\ [Next]_vars =>
        [/\ clck_prev' >= clck_prev
         /\ curr_time' # 0 => curr_time' >= clck_prev]_vars
  BY ClockKept, OnlyClockSteps
<1> QED
  BY <1>1, ClockSound, PTL DEF Spec, NeverBackwards

(* A clock set back, or ahead by more than CLCK_MAX_STEP, moves network time by
   less than a second. *)
THEOREM AbsurdStepIgnored == Spec => []AbsurdStepHarmless
<1>1. ClockInv => AbsurdStepHarmless
  <2> SUFFICES ASSUME ClockInv, clck_running,
                      Second - clck_lastsec \notin 0 .. CLCK_MAX_STEP
               PROVE  Fresh \in clck_prev .. clck_prev + HZ - 1
    BY DEF AbsurdStepHarmless
  <2>1. Second \in Nat /\ clck_lastsec \in Nat
    BY Parts DEF ClockInv
  <2>2. Step = 0 /\ Ticks = clck_ticks
    BY <2>1, UnitsAssumption DEF Step, Base, Ticks
  <2>3. wall % HZ \in 0 .. HZ - 1
    BY Parts DEF ClockInv
  <2>4. Measured = clck_ticks + (wall % HZ) + 1
    BY <2>2, <2>3, UnitsAssumption DEF Measured, ClockInv
  <2>5. clck_ticks \in Nat /\ clck_prev \in Nat /\ clck_prev > clck_ticks
    BY DEF ClockInv
  <2> QED
    BY <2>3, <2>4, <2>5, UnitsAssumption DEF Fresh
<1> QED
  BY <1>1, ClockSound, PTL

-----------------------------------------------------------------------------
(* The timer chain. *)

(* A chain is in the order of its times and holds nothing twice; it lists the
   active timers. *)
Ordered(chain, times) ==
  \A j, k \in DOMAIN chain :
    j < k => chain[j] # chain[k] /\ times[chain[j]] <= times[chain[k]]

Listed(chain, active) ==
  \A t \in Timer : active[t] <=> \E k \in DOMAIN chain : chain[k] = t

(* Unlinking a timer, armed or not, leaves the others as they were. *)
LEMMA ReleaseKeeps ==
  ASSUME TypeOK, ChainExact, NEW t \in Timer
  PROVE  LET c == clck_fast_release(timer_chain, t)
         IN  /\ c \in Seq(Timer)
             /\ Ordered(c, tim_time)
             /\ Listed(c, [tim_active EXCEPT ![t] = FALSE])
<1> DEFINE s == timer_chain
<1>1. /\ s \in Seq(Timer) /\ DOMAIN s = 1 .. Len(s) /\ Len(s) \in Nat
      /\ tim_active \in [Timer -> BOOLEAN]
      /\ Ordered(s, tim_time)
      /\ Listed(s, tim_active)
  BY LenProperties DEF TypeOK, ChainExact, Ordered, Listed
<1> HIDE DEF s
<1>2. CASE ~tim_active[t]
  <2>1. clck_fast_release(s, t) = s
    BY <1>2 DEF clck_fast_release
  <2>2. [tim_active EXCEPT ![t] = FALSE] = tim_active
    BY <1>1, <1>2
  <2> QED
    BY <1>1, <2>1, <2>2 DEF s
<1>3. CASE tim_active[t]
  <2> DEFINE T == {k \in DOMAIN s : s[k] = t}
             i == Min(T)
             c == RemoveAt(s, i)
  <2>1. i \in 1 .. Len(s) /\ s[i] = t
    <3>1. T \in SUBSET Nat /\ T # {}
      BY <1>1, <1>3 DEF Listed
    <3>2. i \in T
      <4> HIDE DEF T
      <4> QED
        BY <3>1, MinNat
    <3> QED
      BY <1>1, <3>2
  <2>2. clck_fast_release(s, t) = c
    BY <1>3 DEF clck_fast_release
  <2> HIDE DEF i
  <2>3. /\ c \in Seq(Timer) /\ Len(c) = Len(s) - 1
        /\ \A j \in 1 .. Len(s) - 1 : c[j] = IF j < i THEN s[j] ELSE s[j + 1]
    BY <1>1, <2>1, Removed
  <2> HIDE DEF c
  <2>4. DOMAIN c = 1 .. Len(s) - 1
    BY <2>3, LenProperties
  <2> DEFINE old(j) == IF j < i THEN j ELSE j + 1
  <2>5. \A j \in 1 .. Len(s) - 1 : old(j) \in 1 .. Len(s) \ {i} /\ c[j] = s[old(j)]
    BY <1>1, <2>1, <2>3
  <2>6. Ordered(c, tim_time)
    <3>1. \A j, k \in 1 .. Len(s) - 1 : j < k => old(j) < old(k)
      BY <1>1, <2>1
    <3> HIDE DEF old
    <3> QED
      BY <1>1, <2>4, <2>5, <3>1 DEF Ordered
  <2>7. Listed(c, [tim_active EXCEPT ![t] = FALSE])
    <3>1. \A k \in 1 .. Len(s) \ {i} : \E j \in 1 .. Len(s) - 1 : old(j) = k
      <4>1. ASSUME NEW k \in 1 .. Len(s) \ {i}
            PROVE  \E j \in 1 .. Len(s) - 1 : old(j) = k
        <5>1. CASE k < i
          <6>1. k \in 1 .. Len(s) - 1 /\ old(k) = k
            BY <1>1, <2>1, <5>1
          <6> QED
            BY <6>1
        <5>2. CASE k > i
          <6>1. k - 1 \in 1 .. Len(s) - 1 /\ old(k - 1) = k
            BY <1>1, <2>1, <5>2
          <6> QED
            BY <6>1
        <5> QED
          BY <1>1, <2>1, <5>1, <5>2
      <4> QED
        BY <4>1
    <3> HIDE DEF old
    <3>2. ASSUME NEW u \in Timer, u # t
          PROVE  tim_active[u] <=> \E j \in 1 .. Len(s) - 1 : c[j] = u
      <4>1. tim_active[u] <=> \E k \in 1 .. Len(s) : s[k] = u
        BY <1>1 DEF Listed
      <4>2. tim_active[u] <=> \E k \in 1 .. Len(s) \ {i} : s[k] = u
        BY <2>1, <3>2, <4>1
      <4> QED
        BY <2>5, <3>1, <4>2
    <3>3. \A j \in 1 .. Len(s) - 1 : c[j] # t
      <4>1. \A k \in 1 .. Len(s) \ {i} : s[k] # t
        BY <1>1, <2>1 DEF Ordered
      <4> QED
        BY <2>5, <4>1
    <3> QED
      BY <1>1, <2>4, <3>2, <3>3 DEF Listed
  <2> QED
    BY <2>2, <2>3, <2>6, <2>7 DEF s
<1> QED
  BY <1>2, <1>3

(* Linking one in, the way clck_timer() walks: behind the earlier ones. *)
LEMMA InsertKeeps ==
  ASSUME NEW s \in Seq(Timer), NEW active \in [Timer -> BOOLEAN],
         tim_time \in [Timer -> Nat], NEW t \in Timer, NEW at \in Nat,
         Ordered(s, tim_time), Listed(s, active), ~active[t]
  PROVE  LET c == Insert(s, t, at)
         IN  /\ c \in Seq(Timer)
             /\ Ordered(c, [tim_time EXCEPT ![t] = at])
             /\ Listed(c, [active EXCEPT ![t] = TRUE])
<1> DEFINE T == {k \in 1 .. Len(s) : \A j \in 2 .. k : tim_time[s[j]] < at}
           front == s = <<>> \/ at < tim_time[Head(s)]
           place == IF front THEN 0 ELSE Max(T)
           c == InsertAt(s, place + 1, t)
           times == [tim_time EXCEPT ![t] = at]
<1>1. /\ DOMAIN s = 1 .. Len(s) /\ Len(s) \in Nat
      /\ \A j \in 1 .. Len(s) : s[j] \in Timer /\ tim_time[s[j]] \in Nat
      /\ s # <<>> => Head(s) = s[1] /\ Len(s) >= 1
  BY LenProperties, ElementOfSeq, EmptySeq
<1>2. Insert(s, t, at) = c
  BY Zenon DEF Insert
<1>3. /\ place \in 0 .. Len(s)
      /\ \A j \in 1 .. place : tim_time[s[j]] <= at
      /\ place < Len(s) => at <= tim_time[s[place + 1]]
  <2>1. CASE front
    <3>1. place = 0 /\ (Len(s) > 0 => at <= tim_time[s[1]])
      BY <1>1, <2>1
    <3> HIDE DEF place
    <3>2. 1 .. place = {} /\ place + 1 = 1
      BY <3>1
    <3> QED
      BY <1>1, <3>1, <3>2
  <2>2. CASE ~front
    <3>1. T \in SUBSET Nat /\ 1 \in T /\ \A k \in T : k <= Len(s)
      BY <1>1, <2>2
    <3>2. Max(T) \in T /\ \A k \in T : Max(T) >= k
      <4> HIDE DEF T
      <4> QED
        BY <1>1, <3>1, MaxNat
    <3>3. place = Max(T)
      BY <2>2
    <3> HIDE DEF place
    <3>4. place \in 1 .. Len(s) /\ \A j \in 2 .. place : tim_time[s[j]] < at
      BY <3>2, <3>3
    <3>5. tim_time[s[1]] <= at
      BY <1>1, <2>2
    <3>6. ASSUME place < Len(s), ~(at <= tim_time[s[place + 1]]) PROVE FALSE
      <4>1. place + 1 \in T
        BY <1>1, <3>4, <3>6
      <4> QED
        BY <1>1, <3>2, <3>3, <3>4, <4>1
    <3> QED
      BY <1>1, <3>4, <3>5, <3>6
  <2> QED
    BY <2>1, <2>2
<1> HIDE DEF place
<1>4. /\ c \in Seq(Timer) /\ Len(c) = Len(s) + 1
      /\ \A j \in 1 .. Len(s) + 1 :
           c[j] = IF j < place + 1 THEN s[j] ELSE IF j = place + 1 THEN t ELSE s[j - 1]
  <2> DEFINE p == place + 1
  <2>1. p \in 1 .. Len(s) + 1
    BY <1>1, <1>3
  <2> HIDE DEF p, times
  <2>2. /\ InsertAt(s, p, t) \in Seq(Timer) /\ Len(InsertAt(s, p, t)) = Len(s) + 1
        /\ \A j \in 1 .. Len(s) + 1 :
             InsertAt(s, p, t)[j] = IF j < p THEN s[j] ELSE IF j = p THEN t ELSE s[j - 1]
    BY <2>1, Inserted
  <2> QED
    BY <2>2 DEF p
<1> HIDE DEF c
<1>5. DOMAIN c = 1 .. Len(s) + 1
  BY <1>4, LenProperties
<1>6. \A j \in 1 .. Len(s) : s[j] # t
  BY <1>1 DEF Listed
<1>7. /\ times[t] = at
      /\ \A j \in 1 .. Len(s) : times[s[j]] = tim_time[s[j]]
  BY <1>1, <1>6
<1>8. ASSUME NEW j \in 1 .. Len(s), NEW k \in 1 .. Len(s), j < k
      PROVE  s[j] # s[k] /\ tim_time[s[j]] <= tim_time[s[k]]
  BY <1>1, <1>8 DEF Ordered
<1>9. \A j \in 1 .. Len(s) : j > place => at <= tim_time[s[j]]
  <2>1. SUFFICES ASSUME NEW j \in 1 .. Len(s), j > place
                 PROVE  at <= tim_time[s[j]]
    OBVIOUS
  <2>2. place + 1 \in 1 .. Len(s) /\ at <= tim_time[s[place + 1]]
    BY <1>1, <1>3, <2>1
  <2>3. CASE j = place + 1
    BY <2>2, <2>3
  <2>4. CASE j > place + 1
    BY <1>1, <1>8, <2>2, <2>4
  <2> QED
    BY <1>1, <1>3, <2>1, <2>3, <2>4
<1> HIDE DEF times
<1>10. Ordered(c, times)
  <2>1. SUFFICES ASSUME NEW j \in 1 .. Len(s) + 1, NEW k \in 1 .. Len(s) + 1, j < k
                 PROVE  c[j] # c[k] /\ times[c[j]] <= times[c[k]]
    BY <1>5 DEF Ordered
  <2>2. CASE k < place + 1
    <3>1. c[j] = s[j] /\ c[k] = s[k] /\ {j, k} \subseteq 1 .. Len(s)
      BY <1>1, <1>3, <1>4, <2>1, <2>2
    <3> QED
      BY <1>7, <1>8, <2>1, <3>1
  <2>3. CASE k = place + 1
    <3>1. c[j] = s[j] /\ c[k] = t /\ j \in 1 .. place /\ j \in 1 .. Len(s)
      BY <1>1, <1>3, <1>4, <2>1, <2>3
    <3> QED
      BY <1>3, <1>6, <1>7, <3>1
  <2>4. CASE k > place + 1 /\ j = place + 1
    <3>1. c[j] = t /\ c[k] = s[k - 1] /\ k - 1 \in 1 .. Len(s) /\ k - 1 > place
      BY <1>1, <1>3, <1>4, <2>1, <2>4
    <3> QED
      BY <1>6, <1>7, <1>9, <3>1
  <2>5. CASE k > place + 1 /\ j < place + 1
    <3>1. c[j] = s[j] /\ c[k] = s[k - 1] /\ {j, k - 1} \subseteq 1 .. Len(s) /\ j < k - 1
      BY <1>1, <1>3, <1>4, <2>1, <2>5
    <3> QED
      BY <1>7, <1>8, <3>1
  <2>6. CASE k > place + 1 /\ j > place + 1
    <3>1. /\ c[j] = s[j - 1] /\ c[k] = s[k - 1]
          /\ {j - 1, k - 1} \subseteq 1 .. Len(s) /\ j - 1 < k - 1
      BY <1>1, <1>3, <1>4, <2>1, <2>6
    <3> QED
      BY <1>7, <1>8, <3>1
  <2> QED
    BY <1>1, <1>3, <2>2, <2>3, <2>4, <2>5, <2>6
<1>11. Listed(c, [active EXCEPT ![t] = TRUE])
  <2>1. c[place + 1] = t /\ place + 1 \in 1 .. Len(s) + 1
    BY <1>1, <1>3, <1>4
  <2>2. \A k \in 1 .. Len(s) : \E j \in 1 .. Len(s) + 1 : c[j] = s[k]
    <3>1. SUFFICES ASSUME NEW k \in 1 .. Len(s)
                   PROVE  \E j \in 1 .. Len(s) + 1 : c[j] = s[k]
      OBVIOUS
    <3>2. CASE k < place + 1
      <4>1. k \in 1 .. Len(s) + 1 /\ c[k] = s[k]
        BY <1>1, <1>3, <1>4, <3>2
      <4> QED
        BY <4>1
    <3>3. CASE ~(k < place + 1)
      <4>1. k + 1 \in 1 .. Len(s) + 1 /\ c[k + 1] = s[k]
        BY <1>1, <1>3, <1>4, <3>3
      <4> QED
        BY <4>1
    <3> QED
      BY <3>2, <3>3
  <2>3. ASSUME NEW j \in 1 .. Len(s) + 1, c[j] # t
        PROVE  \E k \in 1 .. Len(s) : c[j] = s[k]
    <3>1. CASE j < place + 1
      <4>1. j \in 1 .. Len(s) /\ c[j] = s[j]
        BY <1>1, <1>3, <1>4, <3>1
      <4> QED
        BY <4>1
    <3>2. CASE ~(j < place + 1)
      <4>1. j - 1 \in 1 .. Len(s) /\ c[j] = s[j - 1]
        BY <1>1, <1>3, <1>4, <2>3, <3>2
      <4> QED
        BY <4>1
    <3> QED
      BY <3>1, <3>2
  <2>4. SUFFICES ASSUME NEW u \in Timer
                 PROVE  [active EXCEPT ![t] = TRUE][u] <=>
                          \E j \in 1 .. Len(s) + 1 : c[j] = u
    BY <1>5, Zenon DEF Listed
  <2>5. CASE u = t
    BY <2>1, <2>5
  <2>6. CASE u # t
    <3>1. active[u] <=> \E k \in 1 .. Len(s) : s[k] = u
      BY <1>1 DEF Listed
    <3> QED
      BY <2>2, <2>3, <2>6, <3>1
  <2> QED
    BY <2>5, <2>6
<1> QED
  BY <1>2, <1>4, <1>10, <1>11 DEF times

-----------------------------------------------------------------------------
(* The inductive invariant of the rest of the daemon: what the chain is and
   what is asleep, with the types; what the clock answers is in TypeOK. *)
IInv == TypeOK /\ ChainExact /\ NothingMissedAsleep

LEMMA ClockOf ==
  ASSUME IInv
  PROVE  /\ ClockInv
         /\ Time \in Nat
         /\ curr_time # 0 => Time = curr_time
<1>1. ClockInv
  BY DEF IInv, TypeOK, ClockInv
<1>2. Fresh \in Nat /\ curr_time \in Nat
  BY <1>1, Reading DEF ClockInv
<1> QED
  BY <1>1, <1>2 DEF Time

(* get_time() answers Time, and goes on answering it. *)
LEMMA GetTime ==
  ASSUME IInv, get_time
  PROVE  curr_time' = Time /\ (curr_time # 0 => curr_time' = curr_time)
BY ClockOf DEF get_time, Time, clock

(* The types in two parts: the clock's, which ClockKept gives for any step, and
   the others'. *)
OthersOK ==
  /\ sets \in 0 .. Sets
  /\ timer_chain \in Seq(Timer)
  /\ tim_time \in [Timer -> 0 .. Horizon]
  /\ tim_active \in [Timer -> BOOLEAN]
  /\ clck_call_expire \in BOOLEAN
  /\ evq \in Seq(Event)
  /\ pc \in {"top", "expire", "select"} \cup Code
  /\ now \in {0, curr_time} /\ (now # 0 => pc \in {"expire", "callback"})
  /\ left \in {Forever} \cup 0 .. PollMax
  /\ input \in BOOLEAN /\ inputs \in 0 .. MaxInputs

LEMMA TypeParts == TypeOK <=> ClockInv /\ OthersOK
BY DEF TypeOK, ClockInv, OthersOK

(* ChainExact in the terms of the lemmas. *)
LEMMA ChainParts ==
  /\ ChainExact <=> Listed(timer_chain, tim_active) /\ Ordered(timer_chain, tim_time)
  /\ ChainExact' <=>
       Listed(timer_chain', tim_active') /\ Ordered(timer_chain', tim_time')
BY Zenon DEF ChainExact, Listed, Ordered

(* A step that leaves the chain and its timers alone and is not the one into
   select() need only be looked at for its types. *)
LEMMA ChainAlone ==
  ASSUME IInv, UNCHANGED <<timer_chain, tim_time, tim_active>>,
         pc' # "select"
  PROVE  ChainExact' /\ NothingMissedAsleep'
BY DEF IInv, ChainExact, NothingMissedAsleep

(* Steps of the loop outside select(). *)
LEMMA LoopKeeps ==
  ASSUME IInv,
         clck_expire_timers \/ ExpireEnd \/ ev_process \/ Return
  PROVE  OthersOK' /\ ChainExact' /\ NothingMissedAsleep'
<1> USE TypeParts DEF IInv
<1>1. CASE clck_expire_timers
  <2>1. UNCHANGED <<sets, input, inputs, timer_chain, tim_time, tim_active, evq, left>>
    BY <1>1 DEF clck_expire_timers, world
  <2>2. pc = "top" /\ now = 0
    BY <1>1 DEF clck_expire_timers, OthersOK
  <2>3. /\ pc' \in {"top", "expire"}
        /\ now' \in {0, curr_time'} /\ (now' # 0 => pc' \in {"expire", "callback"})
        /\ clck_call_expire' = FALSE
    BY <1>1, <2>2, GetTime DEF clck_expire_timers
  <2> QED
    BY <2>1, <2>3, ChainAlone DEF OthersOK
<1>2. CASE ExpireEnd
  <2>1. UNCHANGED <<sets, input, inputs, timer_chain, tim_time, tim_active, evq, left>>
    BY <1>2 DEF ExpireEnd, world
  <2>2. pc' = "top" /\ now' = 0 /\ clck_call_expire' \in BOOLEAN
    BY <1>2 DEF ExpireEnd, set_timer, OthersOK
  <2> QED
    BY <2>1, <2>2, ChainAlone DEF OthersOK
<1>3. CASE ev_process
  <2>1. /\ UNCHANGED <<sets, input, inputs, timer_chain, tim_time, tim_active, left>>
        /\ UNCHANGED <<curr_time, now, clck_call_expire>>
        /\ pc = "top" /\ evq # <<>> /\ evq' = Tail(evq) /\ pc' = "event"
    BY <1>3 DEF ev_process, world, clock, timers
  <2>2. evq' \in Seq(Event)
    BY <2>1 DEF OthersOK
  <2> QED
    BY <2>1, <2>2, ChainAlone DEF OthersOK, Code
<1>4. CASE Return
  <2>1. /\ UNCHANGED <<sets, input, inputs, timer_chain, tim_time, tim_active, left>>
        /\ UNCHANGED <<curr_time, now, evq, clck_call_expire>>
        /\ pc \in Code /\ pc' = IF pc = "callback" THEN "expire" ELSE "top"
    BY <1>4 DEF Return, world, clock, timers
  <2> QED
    BY <2>1, ChainAlone DEF OthersOK, Code
<1> QED
  BY <1>1, <1>2, <1>3, <1>4

(* clck_expire_timers() unlinks the head before it calls its function. *)
LEMMA ExpireKeeps ==
  ASSUME IInv, Expire
  PROVE  OthersOK' /\ ChainExact' /\ NothingMissedAsleep'
<1> USE TypeParts DEF IInv
<1> DEFINE s == timer_chain
<1>1. /\ s # <<>> /\ s \in Seq(Timer)
      /\ timer_chain' = Tail(s)
      /\ tim_active' = [tim_active EXCEPT ![Head(s)] = FALSE]
      /\ pc = "expire" /\ pc' = "callback"
      /\ UNCHANGED <<sets, input, inputs, curr_time, tim_time, clck_call_expire,
                     evq, now, left>>
  BY DEF Expire, HeadDue, world, clock, OthersOK
<1> HIDE DEF s
<1>2. /\ Head(s) = s[1] /\ s[1] \in Timer
      /\ Tail(s) \in Seq(Timer) /\ Len(s) \in Nat /\ Len(s) >= 1
      /\ DOMAIN s = 1 .. Len(s) /\ DOMAIN Tail(s) = 1 .. Len(s) - 1
      /\ \A k \in 1 .. Len(s) - 1 : Tail(s)[k] = s[k + 1]
  BY <1>1, LenProperties, HeadTailProperties, EmptySeq
<1>3. Ordered(s, tim_time) /\ Listed(s, tim_active)
  BY ChainParts DEF s
<1>4. Ordered(Tail(s), tim_time)
  <2>1. SUFFICES ASSUME NEW j \in 1 .. Len(s) - 1, NEW k \in 1 .. Len(s) - 1, j < k
                 PROVE  /\ Tail(s)[j] # Tail(s)[k]
                        /\ tim_time[Tail(s)[j]] <= tim_time[Tail(s)[k]]
    BY <1>2 DEF Ordered
  <2>2. {j + 1, k + 1} \subseteq DOMAIN s /\ j + 1 < k + 1
    BY <1>2, <2>1
  <2> QED
    BY <1>2, <1>3, <2>2 DEF Ordered
<1>5. Listed(Tail(s), tim_active')
  <2>1. SUFFICES ASSUME NEW t \in Timer
                 PROVE  tim_active'[t] <=> \E k \in 1 .. Len(s) - 1 : Tail(s)[k] = t
    BY <1>2 DEF Listed
  <2>2. tim_active[t] <=> \E k \in 1 .. Len(s) : s[k] = t
    BY <1>2, <1>3 DEF Listed
  <2>3. \A k \in 1 .. Len(s) : k # 1 => s[k] # s[1]
    BY <1>2, <1>3 DEF Ordered
  <2>4. tim_active \in [Timer -> BOOLEAN]
    BY DEF OthersOK
  <2>5. CASE t = s[1]
    <3>1. ~tim_active'[t]
      BY <1>1, <1>2, <2>4, <2>5
    <3>2. \A k \in 1 .. Len(s) - 1 : Tail(s)[k] # t
      BY <1>2, <2>3, <2>5
    <3> QED
      BY <3>1, <3>2
  <2>6. CASE t # s[1]
    <3>1. tim_active'[t] <=> tim_active[t]
      BY <1>1, <1>2, <2>4, <2>6
    <3>2. ASSUME NEW k \in 1 .. Len(s), s[k] = t
          PROVE  \E j \in 1 .. Len(s) - 1 : Tail(s)[j] = t
      <4>1. k - 1 \in 1 .. Len(s) - 1 /\ (k - 1) + 1 = k
        BY <1>2, <2>6, <3>2
      <4> QED
        BY <1>2, <3>2, <4>1
    <3>3. \A j \in 1 .. Len(s) - 1 : j + 1 \in 1 .. Len(s)
      BY <1>2
    <3> QED
      BY <1>2, <2>2, <3>1, <3>2, <3>3
  <2> QED
    BY <2>5, <2>6
<1>6. OthersOK'
  BY <1>1, <1>2 DEF OthersOK, Code
<1> QED
  BY <1>1, <1>4, <1>5, <1>6, ChainParts DEF NothingMissedAsleep

(* Arming and releasing, by any code of the stack. *)
LEMMA UntimerKeeps ==
  ASSUME IInv, NEW t \in Timer, clck_untimer(t)
  PROVE  OthersOK' /\ ChainExact' /\ NothingMissedAsleep'
<1> USE TypeParts DEF IInv
<1>1. /\ timer_chain' = clck_fast_release(timer_chain, t)
      /\ tim_active' = [tim_active EXCEPT ![t] = FALSE]
      /\ clck_call_expire' \in BOOLEAN
      /\ pc \in Code
      /\ UNCHANGED <<sets, input, inputs, tim_time, evq, pc, now, left>>
  BY DEF clck_untimer, set_timer, world, OthersOK
<1>2. curr_time' = curr_time \/ curr_time = 0
  BY GetTime DEF clck_untimer, clock
<1>3. /\ timer_chain' \in Seq(Timer)
      /\ Ordered(timer_chain', tim_time') /\ Listed(timer_chain', tim_active')
  BY <1>1, ReleaseKeeps
<1>4. OthersOK'
  BY <1>1, <1>2, <1>3 DEF OthersOK
<1> QED
  BY <1>1, <1>3, <1>4, ChainParts DEF NothingMissedAsleep, Code

LEMMA TimerKeeps ==
  ASSUME IInv, NEW t \in Timer, NEW d \in Delays, clck_timer(t, d)
  PROVE  OthersOK' /\ ChainExact' /\ NothingMissedAsleep'
<1> USE TypeParts DEF IInv
<1> DEFINE c == clck_fast_release(timer_chain, t)
           off == [tim_active EXCEPT ![t] = FALSE]
           at == Time + d
<1>1. /\ timer_chain' = Insert(c, t, at)
      /\ tim_active' = [tim_active EXCEPT ![t] = TRUE]
      /\ tim_time' = [tim_time EXCEPT ![t] = at]
      /\ at <= Horizon
      /\ clck_call_expire' \in BOOLEAN
      /\ pc \in Code
      /\ UNCHANGED <<sets, input, inputs, evq, pc, now, left>>
  BY DEF clck_timer, set_timer, world, OthersOK
<1>2. curr_time' = curr_time \/ curr_time = 0
  BY GetTime DEF clck_timer
<1>3. at \in 0 .. Horizon /\ at \in Nat
  BY <1>1, ClockOf, DelaysAssumption, WorldAssumption
<1>4. /\ tim_active \in [Timer -> BOOLEAN] /\ off \in [Timer -> BOOLEAN] /\ ~off[t]
      /\ tim_time \in [Timer -> 0 .. Horizon] /\ tim_time \in [Timer -> Nat]
  BY DEF OthersOK
<1>5. c \in Seq(Timer) /\ Ordered(c, tim_time) /\ Listed(c, off)
  BY ReleaseKeeps
<1> HIDE DEF c, at
<1>6. /\ timer_chain' \in Seq(Timer)
      /\ Ordered(timer_chain', tim_time')
      /\ Listed(timer_chain', [off EXCEPT ![t] = TRUE])
  <2> HIDE DEF off, IInv
  <2> QED
    BY <1>1, <1>3, <1>4, <1>5, InsertKeeps
<1>7. [off EXCEPT ![t] = TRUE] = tim_active'
  BY <1>1, <1>4
<1>8. OthersOK'
  BY <1>1, <1>2, <1>3, <1>4, <1>6 DEF OthersOK
<1> QED
  BY <1>1, <1>6, <1>7, <1>8, ChainParts DEF NothingMissedAsleep, Code

(* The longest wait of Select is the time to the head of the chain. *)
LEMMA Later ==
  ASSUME NEW a \in Int
  PROVE  Max({0, a}) = IF a > 0 THEN a ELSE 0
BY DEF Max

LEMMA Sooner ==
  ASSUME NEW a \in Int, NEW b \in Int
  PROVE  Min({a, b}) = IF a <= b THEN a ELSE b
BY DEF Min

LEMMA WaitBound ==
  ASSUME IInv
  PROVE  /\ Wait \in {Forever} \cup 0 .. PollMax
         /\ timer_chain # <<>> =>
              /\ Wait # Forever
              /\ Wait <= Max({0, tim_time[Head(timer_chain)] - Time})
<1> DEFINE deadline == tim_time[Head(timer_chain)]
<1>1. CASE timer_chain = <<>>
  BY <1>1 DEF Wait
<1>2. CASE timer_chain # <<>>
  <2>1. deadline \in Nat /\ Time \in Nat
    <3>1. Head(timer_chain) \in Timer /\ tim_time \in [Timer -> 0 .. Horizon]
      BY <1>2, HeadTailProperties DEF IInv, TypeOK
    <3> QED
      BY <3>1, ClockOf, WorldAssumption
  <2>2. Wait = Poll(IF deadline > Time THEN Min({deadline - Time, MAX_WAIT}) ELSE 0)
    BY <1>2, Zenon DEF Wait
  <2> HIDE DEF deadline
  <2>3. CASE deadline > Time
    <3> DEFINE m == Min({deadline - Time, MAX_WAIT})
    <3>1. m = IF deadline - Time <= MAX_WAIT THEN deadline - Time ELSE MAX_WAIT
      BY <2>1, UnitsAssumption, Sooner
    <3> HIDE DEF m
    <3>2. m \in 0 .. PollMax /\ m <= deadline - Time
      BY <2>1, <2>3, <3>1, UnitsAssumption, WaitAssumption
    <3>3. Wait = m
      BY <2>2, <2>3, <3>2, UnitsAssumption DEF Poll, m
    <3>4. Max({0, deadline - Time}) = deadline - Time
      BY <2>1, <2>3, Later
    <3> QED
      BY <2>1, <3>2, <3>3, <3>4 DEF Forever, deadline
  <2>4. CASE ~(deadline > Time)
    <3>1. Wait = 0
      BY <2>2, <2>4, UnitsAssumption DEF Poll
    <3>2. Max({0, deadline - Time}) = 0
      BY <2>1, <2>4, Later
    <3> QED
      BY <3>1, <3>2, UnitsAssumption DEF Forever, deadline
  <2> QED
    BY <2>3, <2>4
<1> QED
  BY <1>1, <1>2

(* Into select() and out of it. *)
LEMMA SelectKeeps ==
  ASSUME IInv, Select \/ SelectInput \/ SelectTimeout \/ SelectSignal
  PROVE  OthersOK' /\ ChainExact' /\ NothingMissedAsleep'
<1> USE TypeParts DEF IInv
<1>1. CASE Select
  <2>1. /\ pc = "top" /\ evq = <<>> /\ ~clck_call_expire
        /\ left' = Wait /\ pc' = "select"
        /\ UNCHANGED <<sets, input, inputs, timer_chain, tim_time, tim_active,
                       clck_call_expire, evq, now>>
    BY <1>1 DEF Select, world, timers
  <2>2. timer_chain # <<>> => curr_time' = Time
    BY <1>1, GetTime DEF Select
  <2>3. now = 0
    BY <2>1 DEF OthersOK
  <2>4. OthersOK'
    BY <2>1, <2>3, WaitBound DEF OthersOK
  <2>5. ChainExact'
    BY <2>1 DEF ChainExact
  <2>6. NothingMissedAsleep'
    BY <2>1, <2>2, WaitBound DEF NothingMissedAsleep
  <2> QED
    BY <2>4, <2>5, <2>6
<1>2. CASE SelectInput
  <2>1. /\ pc = "select" /\ pc' = "handler" /\ left' = 0 /\ input' = FALSE
        /\ UNCHANGED <<sets, inputs, timer_chain, tim_time, tim_active,
                       clck_call_expire, evq, now>>
    BY <1>2 DEF SelectInput, timers
  <2>2. now = 0
    BY <2>1 DEF OthersOK
  <2>3. 0 \in 0 .. PollMax
    BY UnitsAssumption
  <2>4. OthersOK'
    BY <2>1, <2>2, <2>3 DEF OthersOK, Code
  <2> QED
    BY <2>1, <2>4, ChainAlone
<1>3. CASE SelectTimeout
  <2>1. /\ pc = "select" /\ pc' = "top" /\ clck_call_expire' = TRUE
        /\ UNCHANGED <<sets, input, inputs, timer_chain, tim_time, tim_active,
                       evq, now, left>>
    BY <1>3 DEF SelectTimeout, world
  <2> QED
    BY <2>1, ChainAlone DEF OthersOK
<1>4. CASE SelectSignal
  <2>1. /\ pc = "select" /\ pc' = "top" /\ left' = 0
        /\ inputs < MaxInputs /\ inputs' = inputs + 1
        /\ UNCHANGED <<sets, input, timer_chain, tim_time, tim_active,
                       clck_call_expire, evq, now>>
    BY <1>4 DEF SelectSignal, timers
  <2> QED
    BY <2>1, ChainAlone, UnitsAssumption, WorldAssumption DEF OthersOK
<1> QED
  BY <1>1, <1>2, <1>3, <1>4

(* Events, and the world around the daemon. *)
LEMMA WorldKeeps ==
  ASSUME IInv,
         \/ \E e \in Event : ev_enqueue(e)
         \/ Elapse \/ Arrive
         \/ \E j \in Jumps, k \in 0 .. HZ - 1 : SetClock(j, k)
         \/ UNCHANGED vars
  PROVE  OthersOK' /\ ChainExact' /\ NothingMissedAsleep'
<1> USE TypeParts DEF IInv
<1>1. ASSUME NEW e \in Event, ev_enqueue(e)
      PROVE  OthersOK' /\ ChainExact' /\ NothingMissedAsleep'
  <2>1. /\ pc \in Code
        /\ inputs < MaxInputs /\ inputs' = inputs + 1
        /\ evq' = Append(evq, e)
        /\ UNCHANGED <<sets, input, curr_time, timer_chain, tim_time, tim_active,
                       clck_call_expire, pc, now, left>>
    BY <1>1 DEF ev_enqueue, clock, timers
  <2>2. evq' \in Seq(Event)
    BY <2>1, AppendProperties DEF OthersOK
  <2> QED
    BY <2>1, <2>2, ChainAlone, WorldAssumption DEF OthersOK, Code
<1>2. ASSUME UNCHANGED <<curr_time, timer_chain, tim_time, tim_active, clck_call_expire,
                         evq, pc, now>>,
             sets' \in 0 .. Sets, input' \in BOOLEAN, inputs' \in 0 .. MaxInputs,
             left' = left \/ (left > 0 /\ left' = left - 1)
      PROVE  OthersOK' /\ ChainExact' /\ NothingMissedAsleep'
  <2>1. OthersOK'
    BY <1>2, UnitsAssumption DEF OthersOK, Forever
  <2>2. ChainExact'
    BY <1>2 DEF ChainExact
  <2>3. NothingMissedAsleep'
    <3>1. CASE pc # "select" \/ left' = left
      BY <1>2, <3>1 DEF NothingMissedAsleep
    <3>2. CASE pc = "select" /\ left > 0 /\ left' = left - 1 /\ timer_chain = <<>>
      BY <1>2, <3>2 DEF NothingMissedAsleep
    <3>3. CASE pc = "select" /\ left > 0 /\ left' = left - 1 /\ timer_chain # <<>>
      <4> DEFINE a == tim_time[Head(timer_chain)] - curr_time
      <4>1. a \in Int /\ left \in Int
        <5>1. Head(timer_chain) \in Timer /\ tim_time \in [Timer -> 0 .. Horizon]
          BY <3>3, HeadTailProperties DEF OthersOK
        <5>2. curr_time \in Int /\ left \in Int
          BY UnitsAssumption DEF ClockInv, OthersOK, Forever
        <5> QED
          BY <5>1, <5>2, WorldAssumption
      <4>2. left <= Max({0, a}) /\ evq = <<>> /\ ~clck_call_expire
        BY <3>3 DEF NothingMissedAsleep
      <4>3. Max({0, a})' = Max({0, a})
        BY <1>2
      <4>4. Max({0, a}) \in Int
        BY <4>1, Later
      <4>5. left' # Forever /\ left' <= Max({0, a})'
        BY <3>3, <4>1, <4>2, <4>3, <4>4 DEF Forever
      <4> QED
        BY <1>2, <4>2, <4>5 DEF NothingMissedAsleep
    <3> QED
      BY <1>2, <3>1, <3>2, <3>3
  <2> QED
    BY <2>1, <2>2, <2>3
<1>3. CASE Elapse
  BY <1>2, <1>3 DEF Elapse, clock, timers, OthersOK
<1>4. CASE Arrive
  BY <1>2, <1>4, WorldAssumption DEF Arrive, clock, timers, OthersOK
<1>5. CASE \E j \in Jumps, k \in 0 .. HZ - 1 : SetClock(j, k)
  BY <1>2, <1>5, WorldAssumption DEF SetClock, clock, timers, OthersOK
<1>6. CASE UNCHANGED vars
  BY <1>2, <1>6 DEF vars, world, clock, timers, OthersOK
<1> QED
  BY <1>1, <1>3, <1>4, <1>5, <1>6

LEMMA NextIInv == IInv /\ [Next]_vars => IInv'
<1>1. SUFFICES ASSUME IInv, [Next]_vars PROVE IInv'
  OBVIOUS
<1>2. ClockInv'
  BY <1>1, ClockOf, ClockKept, OnlyClockSteps
<1>3. OthersOK' /\ ChainExact' /\ NothingMissedAsleep'
  <2>1. CASE clck_expire_timers \/ ExpireEnd \/ ev_process \/ Return
    BY <1>1, <2>1, LoopKeeps
  <2>2. CASE Expire
    BY <1>1, <2>2, ExpireKeeps
  <2>3. CASE Select \/ SelectInput \/ SelectTimeout \/ SelectSignal
    BY <1>1, <2>3, SelectKeeps
  <2>4. CASE \E t \in Timer : clck_untimer(t)
    BY <1>1, <2>4, UntimerKeeps
  <2>5. CASE \E t \in Timer, d \in Delays : clck_timer(t, d)
    BY <1>1, <2>5, TimerKeeps
  <2>6. CASE \/ \E e \in Event : ev_enqueue(e)
             \/ Elapse \/ Arrive
             \/ \E j \in Jumps, k \in 0 .. HZ - 1 : SetClock(j, k)
             \/ UNCHANGED vars
    BY <1>1, <2>6, WorldKeeps
  <2> QED
    BY <1>1, <2>1, <2>2, <2>3, <2>4, <2>5, <2>6 DEF Next, Loop
<1> QED
  BY <1>2, <1>3, TypeParts DEF IInv, TypeOK, ClockInv, OthersOK

LEMMA InitIInv == Init => IInv
<1> SUFFICES ASSUME Init PROVE IInv
  OBVIOUS
<1>1. ChainExact /\ NothingMissedAsleep
  <2>1. timer_chain = <<>> /\ tim_active = [t \in Timer |-> FALSE] /\ pc = "top"
    BY Zenon DEF Init
  <2>2. DOMAIN timer_chain = {}
    BY <2>1
  <2> QED
    BY <2>1, <2>2 DEF ChainExact, NothingMissedAsleep
<1>2. OthersOK
  <2>1. /\ input \in BOOLEAN /\ clck_call_expire \in BOOLEAN
        /\ tim_active \in [Timer -> BOOLEAN]
    BY Zenon DEF Init
  <2>2. /\ timer_chain \in Seq(Timer) /\ evq \in Seq(Event)
        /\ pc = "top" /\ now = 0
    BY Zenon, EmptySeq DEF Init
  <2>3. /\ sets \in 0 .. Sets /\ inputs \in 0 .. MaxInputs
        /\ left \in 0 .. PollMax
        /\ tim_time \in [Timer -> 0 .. Horizon]
    BY UnitsAssumption, WorldAssumption DEF Init
  <2> QED
    BY <2>1, <2>2, <2>3 DEF OthersOK
<1>3. ClockInv
  BY InitClockInv
<1> QED
  BY <1>1, <1>2, <1>3, TypeParts DEF IInv

(* The inductive invariant of the clock, the timer chain and the main loop holds
   in every execution (coh_clock.c, coh_inet.c); the theorems below read it off. *)
THEOREM Invariance == Spec => []IInv
BY InitIInv, NextIInv, PTL DEF Spec

(* Types, and no time handed out below the whole seconds counted (coh_clock.c,
   get_time() and clck_expire_timers()). *)
THEOREM TypeCorrect == Spec => []TypeOK
<1>1. IInv => TypeOK
  BY DEF IInv
<1> QED
  BY <1>1, Invariance, PTL

(* The timer chain lists each active timer once and in order, however timers'
   functions arm, move and release timers while clck_expire_timers() walks it:
   clck_fast_release()'s assertion always finds its timer, and no timer is
   lost (coh_clock.c). *)
THEOREM ChainSound == Spec => []ChainExact
<1>1. IInv => ChainExact
  BY DEF IInv
<1> QED
  BY <1>1, Invariance, PTL

(* main() never sleeps on an event, on a flagged expiry, or past the earliest
   deadline (coh_inet.c), for every number of timers and every delay. *)
THEOREM SleepsNoLonger == Spec => []NothingMissedAsleep
<1>1. IInv => NothingMissedAsleep
  BY DEF IInv
<1> QED
  BY <1>1, Invariance, PTL

=============================================================================
