-------------------------- MODULE TimerLoopProofs --------------------------
(***************************************************************************)
(* Proofs about the timer and the loop that runs it, for any handlers, any *)
(* number of requests from any threads, any millisecond arguments and any  *)
(* clock resolution.  First the two-map timer of reactor/ObjectsTimer.h by *)
(* itself: its maps agree, a sweep hands out no object twice, and it       *)
(* implements the one-map service.  Then Reactor::run: every request is    *)
(* answered at most once and less than a millisecond early, the loop       *)
(* neither spins nor sleeps past a deadline, and its use of the timer is   *)
(* within what the timer service allows.                                   *)
(***************************************************************************)
EXTENDS TimerLoop, SequenceTheorems, WellFoundedInduction, TLAPS

-----------------------------------------------------------------------------
\* duration_cast to milliseconds says "0 or less" exactly when less than one
\* whole millisecond is left.
LEMMA DurationCut ==
    ASSUME NEW x \in Int
    PROVE  DurationMs(x) <= 0 <=> x < TicksPerMs
  BY TimerConstants DEF DurationMs

\* The arguments of set_timeout are numbers, and so are the ticks they stand for.
LEMMA MsecTicks ==
    ASSUME NEW m \in Msecs
    PROVE  m \in Nat /\ m * TicksPerMs \in Nat
  <1>1. m \in Nat /\ TicksPerMs \in Nat
    <2>1. 2 * Int32Half - 1 \in Int
      BY TimerConstants
    <2>2. QED
      BY <2>1, TimerConstants
  <1>2. \A a, b \in Nat : a * b \in Nat
    OBVIOUS
  <1>3. QED
    BY <1>1, <1>2

\* The time a timeout falls due is a point of the clock.
LEMMA DueTimeType ==
    ASSUME TimerTypeOK, NEW m \in Msecs
    PROVE  DueTime(m) \in Nat
  BY MsecTicks DEF DueTime, TimerTypeOK

\* The map of buckets after remove_timeout_no_lock(o): o is in no bucket, the
\* other objects are where they were, and no bucket is empty.
LEMMA BucketsWithoutIs ==
    ASSUME TimerTypeOK, MapsAgree, NEW o
    PROVE  LET B == BucketsWithout(o)
           IN /\ DOMAIN B \subseteq DOMAIN time_object_
              /\ B \in [DOMAIN B -> SUBSET Objects]
              /\ \A t \in DOMAIN B : B[t] = time_object_[t] \ {o} /\ B[t] # {}
              /\ \A t \in DOMAIN time_object_ :
                   t \notin DOMAIN B => time_object_[t] \ {o} = {}
  <1>1. CASE o \notin DOMAIN object_time_
    BY <1>1 DEF TimerTypeOK, MapsAgree, BucketsWithout
  <1>2. CASE o \in DOMAIN object_time_
    <2> DEFINE t == object_time_[o]
               left == time_object_[t] \ {o}
    <2>1. /\ t \in DOMAIN time_object_
          /\ \A u \in DOMAIN time_object_ : u # t => o \notin time_object_[u]
      BY <1>2 DEF MapsAgree
    <2>2. CASE left = {}
      <3>1. BucketsWithout(o) = [u \in DOMAIN time_object_ \ {t} |-> time_object_[u]]
        BY <1>2, <2>2 DEF BucketsWithout, Restrict
      <3>2. QED
        BY <2>1, <2>2, <3>1 DEF TimerTypeOK, MapsAgree
    <2>3. CASE left # {}
      <3>1. BucketsWithout(o) = [time_object_ EXCEPT ![t] = left]
        BY <1>2, <2>3 DEF BucketsWithout
      <3>2. QED
        BY <2>1, <2>3, <3>1 DEF TimerTypeOK, MapsAgree
    <2>4. QED
      BY <2>2, <2>3
  <1>3. QED
    BY <1>1, <1>2

\* A map with a bucket has a first bucket: begin() is defined.
LEMMA FirstExists ==
    ASSUME TimerTypeOK, DOMAIN time_object_ # {}
    PROVE  \E t \in DOMAIN time_object_ : IsFirst(t)
  <1> DEFINE Less == {p \in Nat \X Nat : p[1] < p[2]}
  <1>1. IsWellFoundedOn(Less, Nat)
    BY NatLessThanWellFounded DEF OpToRel
  <1>2. DOMAIN time_object_ \subseteq Nat
    BY DEF TimerTypeOK
  <1>3. PICK t \in DOMAIN time_object_ :
          \A u \in DOMAIN time_object_ : ~(<<u, t>> \in Less)
    <2> HIDE DEF Less
    <2>1. QED
      BY <1>1, <1>2, WFMin
  <1>4. ASSUME NEW u \in DOMAIN time_object_
        PROVE  t <= u
    <2>1. t \in Nat /\ u \in Nat
      BY <1>2
    <2>2. u < t => <<u, t>> \in Less
      BY <2>1
    <2>3. QED
      BY <1>3, <2>1, <2>2
  <1>5. QED
    BY <1>4 DEF IsFirst

-----------------------------------------------------------------------------
\* What get_min_timeout_milliseconds answers, for a first deadline whose distance in
\* milliseconds an int32_t can hold.
InInt32(ticks) == -(Int32Half * TicksPerMs) < ticks /\ ticks < Int32Half * TicksPerMs

\* Dividing by a positive number and multiplying again gives no more than before.
LEMMA DivFloor ==
    ASSUME NEW x \in Nat, NEW t \in Nat \ {0}
    PROVE  /\ x \div t \in Nat /\ (x \div t) * t <= x
           /\ \A h \in Nat : x < h * t => x \div t < h
  <1>1. x \div t \in Nat
    OBVIOUS
  <1>2. (x \div t) * t <= x
    OBVIOUS
  <1>3. ASSUME NEW h \in Nat, x < h * t
        PROVE  x \div t < h
    <2>1. \A a, b, c \in Nat : a <= b => a * c <= b * c
      OBVIOUS
    <2>2. h <= x \div t => h * t <= (x \div t) * t
      BY <1>1, <2>1
    <2>3. h * t \in Nat /\ (x \div t) * t \in Nat
      BY <1>1
    <2>4. QED
      BY <1>1, <1>2, <1>3, <2>2, <2>3
  <1>4. QED
    BY <1>1, <1>2, <1>3

\* The conversion to int32_t changes nothing within its range.
LEMMA ToInt32Fits ==
    ASSUME NEW n \in Int, -Int32Half <= n, n < Int32Half
    PROVE  ToInt32(n) = n
  <1>1. \A a \in Nat, b \in Nat \ {0} : a < b => a % b = a
    OBVIOUS
  <1>2. n + Int32Half \in Nat /\ 2 * Int32Half \in Nat \ {0} /\ n + Int32Half < 2 * Int32Half
    BY TimerConstants
  <1>3. QED
    BY <1>1, <1>2, TimerConstants DEF ToInt32

\* get_min() is 0 exactly when the first bucket is due, and otherwise does not reach
\* past it.
LEMMA MinIs ==
    ASSUME TimerTypeOK, DOMAIN time_object_ # {}, InInt32(First - clock)
    PROVE  /\ First \in DOMAIN time_object_ /\ IsFirst(First) /\ First \in Nat
           /\ get_min_timeout_milliseconds \in Nat
           /\ get_min_timeout_milliseconds = 0 <=> Expired(First)
           /\ get_min_timeout_milliseconds > 0 =>
                get_min_timeout_milliseconds * TicksPerMs <= First - clock
  <1> DEFINE left == First - clock
             d == DurationMs(left)
  <1>1. First \in DOMAIN time_object_ /\ IsFirst(First)
    BY FirstExists DEF First
  <1>2. First \in Nat /\ left \in Int /\ TicksPerMs \in Nat \ {0} /\ Int32Half \in Nat \ {0}
    BY <1>1, TimerConstants DEF TimerTypeOK
  <1>3. d \in Int /\ -Int32Half <= d /\ d < Int32Half /\ (left >= 0 => d * TicksPerMs <= left)
    <2>1. CASE left >= 0
      <3>1. left \in Nat /\ d = left \div TicksPerMs
        BY <1>2, <2>1 DEF DurationMs
      <3>2. left < Int32Half * TicksPerMs
        BY DEF InInt32
      <3> HIDE DEF left, d
      <3>3. d \in Nat /\ d * TicksPerMs <= left /\ d < Int32Half
        BY <1>2, <3>1, <3>2, DivFloor
      <3>4. QED
        BY <1>2, <3>3
    <2>2. CASE ~(left >= 0)
      <3>1. -left \in Nat /\ d = -((-left) \div TicksPerMs)
        BY <1>2, <2>2 DEF DurationMs
      <3>2. -left < Int32Half * TicksPerMs
        <4>1. Int32Half * TicksPerMs \in Int /\ -(Int32Half * TicksPerMs) < left
          BY <1>2 DEF InInt32
        <4>2. QED
          BY <1>2, <4>1
      <3> HIDE DEF left, d
      <3> DEFINE q == (-left) \div TicksPerMs
      <3>3. q \in Nat /\ q < Int32Half
        BY <1>2, <3>1, <3>2, DivFloor
      <3> HIDE DEF q
      <3>4. d = -q
        BY <3>1 DEF q
      <3>5. QED
        BY <1>2, <2>2, <3>3, <3>4
    <2>3. QED
      BY <2>1, <2>2
  <1>4. d > 0 => left >= 0
    <2>1. left < 0 => d <= 0
      <3>1. left < TicksPerMs => d <= 0
        BY <1>2, DurationCut
      <3>2. QED
        BY <1>2, <3>1
    <2>2. QED
      BY <1>2, <1>3, <2>1
  <1>5. ToInt32(d) = d
    BY <1>3, ToInt32Fits
  <1>6. get_min_timeout_milliseconds = IF d <= 0 THEN 0 ELSE d
    BY <1>5 DEF get_min_timeout_milliseconds
  <1>7. Expired(First) <=> d <= 0
    BY DEF Expired
  <1> HIDE DEF d, left
  <1>8. get_min_timeout_milliseconds \in Nat
    BY <1>3, <1>6
  <1>9. get_min_timeout_milliseconds = 0 <=> Expired(First)
    BY <1>3, <1>6, <1>7
  <1>10. get_min_timeout_milliseconds > 0 => get_min_timeout_milliseconds * TicksPerMs <= left
    BY <1>3, <1>4, <1>6
  <1>11. QED
    BY <1>1, <1>2, <1>8, <1>9, <1>10 DEF left

-----------------------------------------------------------------------------
\* The empty timer satisfies the invariant.
LEMMA InitInv == TimerInit => TimerInv
  <1> SUFFICES ASSUME TimerInit PROVE TimerInv
    OBVIOUS
  <1>1. DOMAIN time_object_ = {} /\ DOMAIN object_time_ = {} /\ DOMAIN timeout_objects = {}
    BY DEF TimerInit
  <1>2. TimerTypeOK
    <2>1. time_object_ \in [{} -> SUBSET Objects]
      BY DEF TimerInit
    <2>2. object_time_ \in [{} -> Nat]
      BY DEF TimerInit
    <2>3. timeout_objects \in Seq(SUBSET Objects)
      BY DEF TimerInit
    <2>4. clock \in Nat /\ sweeping \in BOOLEAN
      BY DEF TimerInit
    <2>5. QED
      BY <1>1, <2>1, <2>2, <2>3, <2>4 DEF TimerTypeOK
  <1>3. MapsAgree /\ HandedOutOnce
    BY <1>1 DEF MapsAgree, HandedOutOnce
  <1>4. QED
    BY <1>2, <1>3 DEF TimerInv

\* register_timeout keeps the maps in step, whether or not o was registered.
LEMMA RegisterInv ==
    ASSUME TimerInv, NEW o \in Objects, NEW m \in Msecs, ~sweeping,
           RegisterTimeout(o, m)
    PROVE  TimerInv'
  <1> DEFINE t == DueTime(m)
             B == BucketsWithout(o)
             bucket == IF t \in DOMAIN B THEN B[t] ELSE {}
  <1>1. t \in Nat
    BY DueTimeType DEF TimerInv
  <1>2. /\ DOMAIN B \subseteq DOMAIN time_object_
        /\ B \in [DOMAIN B -> SUBSET Objects]
        /\ \A u \in DOMAIN B : B[u] = time_object_[u] \ {o} /\ B[u] # {}
        /\ \A u \in DOMAIN time_object_ :
             u \notin DOMAIN B => time_object_[u] \ {o} = {}
    BY BucketsWithoutIs DEF TimerInv
  <1>3. /\ object_time_' = [p \in DOMAIN object_time_ \cup {o} |->
                              IF p = o THEN t ELSE object_time_[p]]
        /\ time_object_' = [u \in DOMAIN B \cup {t} |->
                              IF u = t THEN bucket \cup {o} ELSE B[u]]
        /\ UNCHANGED <<clock, sweeping, timeout_objects>>
    BY DEF RegisterTimeout
  <1> HIDE DEF t, B
  <1>4. TimerTypeOK'
    BY <1>1, <1>2, <1>3 DEF TimerInv, TimerTypeOK
  <1>5. MapsAgree'
    <2>1. \A p \in DOMAIN object_time_ : p # o =>
            /\ object_time_[p] \in DOMAIN B
            /\ p \in B[object_time_[p]]
      BY <1>2 DEF TimerInv, MapsAgree
    <2>2. \A u \in DOMAIN B : \A p \in B[u] :
            p # o /\ p \in DOMAIN object_time_ /\ object_time_[p] = u
      BY <1>2 DEF TimerInv, MapsAgree
    <2>3. ASSUME NEW p \in DOMAIN object_time_'
          PROVE  /\ object_time_'[p] \in DOMAIN time_object_'
                 /\ p \in time_object_'[object_time_'[p]]
      BY <1>3, <2>1, <2>3
    <2>4. ASSUME NEW u \in DOMAIN time_object_'
          PROVE  /\ time_object_'[u] # {}
                 /\ \A p \in time_object_'[u] :
                      p \in DOMAIN object_time_' /\ object_time_'[p] = u
      BY <1>2, <1>3, <2>2, <2>4
    <2>5. QED
      BY <2>3, <2>4 DEF MapsAgree
  <1>6. HandedOutOnce'
    BY <1>3 DEF TimerInv, HandedOutOnce
  <1>7. QED
    BY <1>4, <1>5, <1>6 DEF TimerInv

\* remove_timeout does too.
LEMMA RemoveInv ==
    ASSUME TimerInv, NEW o \in Objects, ~sweeping, RemoveTimeout(o)
    PROVE  TimerInv'
  <1> DEFINE B == BucketsWithout(o)
  <1>1. /\ DOMAIN B \subseteq DOMAIN time_object_
        /\ B \in [DOMAIN B -> SUBSET Objects]
        /\ \A u \in DOMAIN B : B[u] = time_object_[u] \ {o} /\ B[u] # {}
        /\ \A u \in DOMAIN time_object_ :
             u \notin DOMAIN B => time_object_[u] \ {o} = {}
    BY BucketsWithoutIs DEF TimerInv
  <1>2. /\ object_time_' = [p \in DOMAIN object_time_ \ {o} |-> object_time_[p]]
        /\ time_object_' = B
        /\ UNCHANGED <<clock, sweeping, timeout_objects>>
    BY DEF RemoveTimeout, TimesWithout, Restrict
  <1> HIDE DEF B
  <1>3. TimerTypeOK'
    BY <1>1, <1>2 DEF TimerInv, TimerTypeOK
  <1>4. MapsAgree'
    BY <1>1, <1>2 DEF TimerInv, MapsAgree
  <1>5. HandedOutOnce'
    BY <1>2 DEF TimerInv, HandedOutOnce
  <1>6. QED
    BY <1>3, <1>4, <1>5 DEF TimerInv

\* A turn of extract_timeout_objects moves one bucket from both maps to the
\* deque; its objects cannot be in the deque already.
LEMMA BucketInv ==
    ASSUME TimerInv, ExtractBucket
    PROVE  TimerInv'
  <1>1. PICK t \in DOMAIN time_object_ :
          /\ object_time_' = [p \in DOMAIN object_time_ \ time_object_[t] |-> object_time_[p]]
          /\ timeout_objects' = Append(timeout_objects, time_object_[t])
          /\ time_object_' = [u \in DOMAIN time_object_ \ {t} |-> time_object_[u]]
    BY DEF ExtractBucket, TimesWithout, Restrict
  <1>2. sweeping /\ UNCHANGED <<clock, sweeping>>
    BY DEF ExtractBucket
  <1>3. time_object_[t] \subseteq Objects /\ timeout_objects \in Seq(SUBSET Objects)
    BY DEF TimerInv, TimerTypeOK
  <1>4. TimerTypeOK'
    <2>1. timeout_objects' \in Seq(SUBSET Objects)
      BY <1>1, <1>3
    <2>2. QED
      BY <1>1, <1>2, <2>1 DEF TimerInv, TimerTypeOK
  <1>5. MapsAgree'
    BY <1>1 DEF TimerInv, MapsAgree
  <1>6. HandedOutOnce'
    <2> DEFINE n == Len(timeout_objects)
    <2>1. /\ n \in Nat /\ DOMAIN timeout_objects = 1 .. n
          /\ DOMAIN timeout_objects' = 1 .. n + 1
          /\ \A i \in 1 .. n : timeout_objects'[i] = timeout_objects[i]
          /\ timeout_objects'[n + 1] = time_object_[t]
      BY <1>1, <1>3
    <2>2. time_object_[t] \subseteq DOMAIN object_time_
      BY DEF TimerInv, MapsAgree
    <2>3. \A i \in 1 .. n : timeout_objects[i] \cap time_object_[t] = {}
      BY <1>2, <2>1, <2>2 DEF TimerInv, HandedOutOnce
    <2>4. \A i, j \in 1 .. n : i # j => timeout_objects[i] \cap timeout_objects[j] = {}
      BY <2>1 DEF TimerInv, HandedOutOnce
    <2>5. \A i \in 1 .. n : timeout_objects[i] \cap DOMAIN object_time_ = {}
      BY <1>2, <2>1 DEF TimerInv, HandedOutOnce
    <2> HIDE DEF n
    <2>6. \A i \in 1 .. n + 1 : i \in 1 .. n \/ i = n + 1
      BY <2>1
    <2>7. \A i, j \in DOMAIN timeout_objects' :
            i # j => timeout_objects'[i] \cap timeout_objects'[j] = {}
      BY <2>1, <2>3, <2>4, <2>6
    <2>8. \A i \in DOMAIN timeout_objects' :
            timeout_objects'[i] \cap DOMAIN object_time_' = {}
      BY <1>1, <2>1, <2>5, <2>6
    <2>9. QED
      BY <2>7, <2>8 DEF HandedOutOnce
  <1>7. QED
    BY <1>4, <1>5, <1>6 DEF TimerInv

\* Every step of the timer preserves the invariant.
LEMMA NextInv == TimerInv /\ [TimerNext]_timer_vars => TimerInv'
  <1> SUFFICES ASSUME TimerInv, [TimerNext]_timer_vars PROVE TimerInv'
    OBVIOUS
  <1>1. ASSUME NEW o \in Objects, NEW m \in Msecs, ~sweeping, RegisterTimeout(o, m)
        PROVE  TimerInv'
    BY <1>1, RegisterInv
  <1>2. ASSUME NEW o \in Objects, ~sweeping, RemoveTimeout(o)
        PROVE  TimerInv'
    BY <1>2, RemoveInv
  <1>3. CASE ExtractBegin
    <2>1. DOMAIN timeout_objects' = {} /\ timeout_objects' \in Seq(SUBSET Objects)
      BY <1>3 DEF ExtractBegin
    <2>2. QED
      BY <1>3, <2>1 DEF ExtractBegin, TimerInv, TimerTypeOK, MapsAgree, HandedOutOnce
  <1>4. CASE ExtractBucket
    BY <1>4, BucketInv
  <1>5. CASE ExtractEnd
    BY <1>5 DEF ExtractEnd, TimerInv, TimerTypeOK, MapsAgree, HandedOutOnce
  <1>6. CASE Tick
    BY <1>6 DEF Tick, Advance, TimerInv, TimerTypeOK, MapsAgree, HandedOutOnce
  <1>7. CASE UNCHANGED timer_vars
    BY <1>7 DEF timer_vars, TimerInv, TimerTypeOK, MapsAgree, HandedOutOnce
  <1>8. QED
    BY <1>1, <1>2, <1>3, <1>4, <1>5, <1>6, <1>7 DEF TimerNext

\* In every reachable state time_object_ and object_time_ describe the same
\* timers, and a sweep has handed out no object twice.
THEOREM TimerCorrect == TimerSpec => []TimerInv
  BY InitInv, NextInv, PTL DEF TimerSpec

-----------------------------------------------------------------------------
\* The steps of the two-map timer are steps of the one-map service.

\* register_timeout arms.
LEMMA RegisterArms ==
    ASSUME NEW o \in Objects, NEW m \in Msecs, ~sweeping, RegisterTimeout(o, m)
    PROVE  Service!Arm(o, m)
  BY DEF RegisterTimeout, DueTime, Service!Arm

\* remove_timeout disarms.
LEMMA RemoveDisarms ==
    ASSUME NEW o \in Objects, ~sweeping, RemoveTimeout(o)
    PROVE  Service!Disarm(o)
  BY DEF RemoveTimeout, TimesWithout, Restrict, Service!Disarm

\* The first bucket holds all objects of the earliest deadline, and it is due
\* in the code's sense exactly when the service says so.
LEMMA BucketHandsOut ==
    ASSUME TimerInv, ExtractBucket
    PROVE  Service!HandOut
  <1>1. PICK t \in DOMAIN time_object_ :
          /\ IsFirst(t) /\ Expired(t)
          /\ object_time_' = [p \in DOMAIN object_time_ \ time_object_[t] |-> object_time_[p]]
          /\ timeout_objects' = Append(timeout_objects, time_object_[t])
    BY DEF ExtractBucket, TimesWithout, Restrict
  <1>2. PICK o \in time_object_[t] : o \in DOMAIN object_time_ /\ object_time_[o] = t
    BY DEF TimerInv, MapsAgree
  <1>3. {p \in DOMAIN object_time_ : object_time_[p] = object_time_[o]} = time_object_[t]
    BY <1>2 DEF TimerInv, MapsAgree
  <1>4. \A p \in DOMAIN object_time_ : object_time_[o] <= object_time_[p]
    BY <1>1, <1>2 DEF TimerInv, MapsAgree, IsFirst
  <1>5. Service!Due(object_time_[o])
    <2>1. t - clock \in Int
      BY DEF TimerInv, TimerTypeOK
    <2>2. QED
      BY <1>1, <1>2, <2>1, DurationCut DEF Expired, Service!Due
  <1>6. sweeping /\ UNCHANGED <<clock, sweeping>>
    BY DEF ExtractBucket
  <1>7. QED
    BY <1>1, <1>2, <1>3, <1>4, <1>5, <1>6 DEF Service!HandOut

\* The loop looks at the first bucket only; when that is not due, nothing is.
LEMMA EndLeavesNothingDue ==
    ASSUME TimerInv, ExtractEnd
    PROVE  Service!SweepEnd
  <1>1. ASSUME NEW o \in DOMAIN object_time_, Service!Due(object_time_[o])
        PROVE  FALSE
    <2>1. object_time_[o] \in DOMAIN time_object_
      BY DEF TimerInv, MapsAgree
    <2>2. PICK t \in DOMAIN time_object_ : IsFirst(t)
      BY <2>1, FirstExists DEF TimerInv
    <2>3. /\ t \in Int /\ object_time_[o] \in Int /\ clock \in Int
          /\ t <= object_time_[o] /\ TicksPerMs \in Int
      BY <2>1, <2>2, TimerConstants DEF TimerInv, TimerTypeOK, IsFirst
    <2>4. t - clock \in Int /\ t - clock < TicksPerMs
      BY <1>1, <2>3 DEF Service!Due
    <2>5. Expired(t)
      BY <2>4, DurationCut DEF Expired
    <2>6. QED
      BY <2>2, <2>5 DEF ExtractEnd
  <1>2. QED
    BY <1>1 DEF ExtractEnd, Service!SweepEnd

\* Every step of the timer is a step of the service, or changes nothing of it.
LEMMA NextRefines ==
    TimerInv /\ [TimerNext]_timer_vars => [Service!ServiceNext]_(Service!svars)
  <1> SUFFICES ASSUME TimerInv, [TimerNext]_timer_vars
               PROVE  [Service!ServiceNext]_(Service!svars)
    OBVIOUS
  <1> USE DEF Service!ServiceNext
  <1>1. ASSUME NEW o \in Objects, NEW m \in Msecs, ~sweeping, RegisterTimeout(o, m)
        PROVE  Service!ServiceNext
    BY <1>1, RegisterArms
  <1>2. ASSUME NEW o \in Objects, ~sweeping, RemoveTimeout(o)
        PROVE  Service!ServiceNext
    BY <1>2, RemoveDisarms
  <1>3. CASE ExtractBegin
    BY <1>3 DEF ExtractBegin, Service!SweepBegin
  <1>4. CASE ExtractBucket
    BY <1>4, BucketHandsOut
  <1>5. CASE ExtractEnd
    BY <1>5, EndLeavesNothingDue
  <1>6. CASE Tick
    <2>1. clock' > clock
      BY <1>6 DEF Tick, Advance, TimerInv, TimerTypeOK
    <2>2. QED
      BY <1>6, <2>1 DEF Tick, Advance, Service!Pass
  <1>7. CASE UNCHANGED timer_vars
    BY <1>7 DEF timer_vars, Service!svars
  <1> HIDE DEF Service!ServiceNext
  <1>8. QED
    BY <1>1, <1>2, <1>3, <1>4, <1>5, <1>6, <1>7 DEF TimerNext

\* The timer of the code implements the service: arming replaces, disarming is
\* final, and a sweep hands out exactly what is due, the earliest first.
THEOREM TimerRefinement == TimerSpec => ImplementsService
  <1>1. TimerInit => Service!ServiceInit
    BY DEF TimerInit, Service!ServiceInit
  <1>2. TimerSpec => []TimerInv
    BY InitInv, NextInv, PTL DEF TimerSpec
  <1>3. QED
    BY <1>1, <1>2, NextRefines, PTL DEF TimerSpec, ImplementsService, Service!ServiceSpec

-----------------------------------------------------------------------------
\* The requests under way at time now: none asks for a time later than the one
\* it will get when it is dispatched.
Pending(now) ==
    {r \in [event : {"TIMEOUT_ADD"}, object : Objects, msec : Msecs, due : Nat] :
       r.due <= now + r.msec * TicksPerMs}
    \cup [event : {"TIMEOUT_DEL"}, object : Objects]

QueuesOK ==
    /\ wait_events_ \in Seq(Pending(clock))
    /\ pipe \in Seq(Pending(clock))
    /\ events \in Seq(Pending(clock))

\* The list of a sweep is empty outside of run_timeout_handler, and what is in it
\* is not armed.
SweepOK ==
    /\ pc \in {"top", "enter", "wait", "sweep", "handlers", "dispatch"}
    /\ sweeping <=> pc = "sweep"
    /\ pc \notin {"sweep", "handlers"} => timeout_objects = <<>>
    /\ \A i \in DOMAIN timeout_objects : timeout_objects[i] \cap DOMAIN object_time_ = {}

\* What was promised: an armed timer is not earlier than that, and what has been
\* taken out was due.
PromisesOK ==
    /\ promised \in [Objects -> Nat] /\ owed \in [Objects -> Nat]
    /\ \A o \in DOMAIN object_time_ : promised[o] <= object_time_[o]
    /\ \A i \in DOMAIN timeout_objects : \A o \in timeout_objects[i] :
         promised[o] - clock < TicksPerMs

LoopInv == TimerInv /\ QueuesOK /\ SweepOK /\ PromisesOK /\ OneTime

\* What the queues hold stays pending as time passes.
LEMMA PendingGrows ==
    ASSUME NEW now \in Nat, NEW q \in Seq(Pending(now))
    PROVE  q \in Seq(Pending(now + 1))
  <1>1. Pending(now) \subseteq Pending(now + 1)
    <2> SUFFICES ASSUME NEW r \in Pending(now) PROVE r \in Pending(now + 1)
      OBVIOUS
    <2>1. CASE r \in [event : {"TIMEOUT_DEL"}, object : Objects]
      BY <2>1 DEF Pending
    <2>2. CASE r \in [event : {"TIMEOUT_ADD"}, object : Objects, msec : Msecs, due : Nat]
               /\ r.due <= now + r.msec * TicksPerMs
      <3>2. r.msec * TicksPerMs \in Nat /\ r.due \in Nat
        BY <2>2, MsecTicks
      <3>3. r.due <= (now + 1) + r.msec * TicksPerMs
        BY <2>2, <3>2
      <3>4. QED
        BY <2>2, <3>3 DEF Pending
    <2>3. QED
      BY <2>1, <2>2 DEF Pending
  <1>2. QED
    BY <1>1, SeqMonotonic

\* A request made now is pending.
LEMMA RequestPending ==
    ASSUME TimerTypeOK, NEW o \in Objects, NEW r \in Requests(o)
    PROVE  r \in Pending(clock)
  <1>1. CASE r = UnsetTimeout(o)
    BY <1>1 DEF UnsetTimeout, Pending
  <1>2. ASSUME NEW m \in Msecs, r = SetTimeout(o, m)
        PROVE  r \in Pending(clock)
    <2>1. clock + m * TicksPerMs \in Nat
      BY DueTimeType DEF DueTime
    <2>2. QED
      BY <1>2, <2>1 DEF SetTimeout, Pending
  <1>3. QED
    BY <1>1, <1>2 DEF Requests

-----------------------------------------------------------------------------
\* The loop starts with an empty timer and no request.
LEMMA LoopInitInv == Init => LoopInv
  <1> SUFFICES ASSUME Init PROVE LoopInv
    OBVIOUS
  <1>1. TimerInv
    BY InitInv DEF Init
  <1>2. DOMAIN object_time_ = {} /\ DOMAIN timeout_objects = {} /\ timeout_objects = <<>>
    BY DEF Init, TimerInit
  <1>3. QueuesOK
    BY DEF Init, QueuesOK
  <1>4. SweepOK
    BY <1>2 DEF Init, TimerInit, SweepOK
  <1>5. PromisesOK
    BY <1>2 DEF Init, PromisesOK
  <1>6. OneTime
    BY <1>2 DEF Init, OneTime
  <1>7. QED
    BY <1>1, <1>3, <1>4, <1>5, <1>6 DEF LoopInv

\* A sweep begins only when the list of the last one is used up.
LEMMA BeginKeeps ==
    ASSUME LoopInv, ExtractBegin, pc \in {"top", "wait"}, pc' = "sweep",
           QueuesOK', UNCHANGED history
    PROVE  LoopInv'
  <1>1. TimerInv'
    BY NextInv DEF LoopInv, TimerNext
  <1>2. /\ timeout_objects = <<>> /\ timeout_objects' = timeout_objects
        /\ sweeping' = TRUE /\ UNCHANGED <<clock, object_time_>>
    BY DEF ExtractBegin, LoopInv, SweepOK
  <1>3. SweepOK'
    BY <1>2 DEF LoopInv, SweepOK
  <1>4. PromisesOK' /\ OneTime'
    BY <1>2 DEF LoopInv, PromisesOK, OneTime, history
  <1>5. QED
    BY <1>1, <1>3, <1>4 DEF LoopInv

\* A bucket taken out was due; its objects change from armed to handed out.
LEMMA BucketKeeps ==
    ASSUME LoopInv, ExtractBucket, pc = "sweep", UNCHANGED <<pc, locals, queues, history>>
    PROVE  LoopInv'
  <1>1. TimerInv'
    BY BucketInv DEF LoopInv
  <1>2. PICK t \in DOMAIN time_object_ :
          /\ Expired(t)
          /\ object_time_' = [p \in DOMAIN object_time_ \ time_object_[t] |-> object_time_[p]]
          /\ timeout_objects' = Append(timeout_objects, time_object_[t])
    BY DEF ExtractBucket, TimesWithout, Restrict
  <1>3. UNCHANGED <<clock, sweeping, pc, wait_events_, pipe, events, promised, owed>>
    BY DEF ExtractBucket, queues, history
  <1> DEFINE n == Len(timeout_objects)
  <1>4. timeout_objects \in Seq(SUBSET Objects) /\ time_object_[t] \in SUBSET Objects
    BY DEF LoopInv, TimerInv, TimerTypeOK
  <1>5. /\ n \in Nat /\ DOMAIN timeout_objects = 1 .. n
        /\ DOMAIN timeout_objects' = 1 .. n + 1
        /\ \A i \in 1 .. n : timeout_objects'[i] = timeout_objects[i]
        /\ timeout_objects'[n + 1] = time_object_[t]
    BY <1>2, <1>4
  <1> HIDE DEF n
  <1>6. \A i \in 1 .. n + 1 : i \in 1 .. n \/ i = n + 1
    BY <1>5
  <1>7. \A o \in time_object_[t] : o \in DOMAIN object_time_ /\ object_time_[o] = t
    BY DEF LoopInv, TimerInv, MapsAgree
  <1>8. QueuesOK'
    BY <1>3 DEF LoopInv, QueuesOK
  <1>9. SweepOK'
    <2>1. \A i \in 1 .. n : timeout_objects[i] \cap DOMAIN object_time_ = {}
      BY <1>5 DEF LoopInv, SweepOK
    <2>2. \A i \in 1 .. n + 1 : timeout_objects'[i] \cap DOMAIN object_time_' = {}
      BY <1>2, <1>5, <1>6, <2>1
    <2>3. QED
      BY <1>3, <1>5, <2>2 DEF LoopInv, SweepOK
  <1>10. PromisesOK'
    <2>1. \A o \in time_object_[t] : promised[o] - clock < TicksPerMs
      <3> SUFFICES ASSUME NEW o \in time_object_[t]
                   PROVE  promised[o] - clock < TicksPerMs
        OBVIOUS
      <3>1. promised[o] <= t /\ promised[o] \in Nat
        BY <1>4, <1>7 DEF LoopInv, PromisesOK
      <3>2. t \in Nat /\ clock \in Nat /\ TicksPerMs \in Nat
        BY TimerConstants DEF LoopInv, TimerInv, TimerTypeOK
      <3>3. t - clock < TicksPerMs
        BY <1>2, <3>2, DurationCut DEF Expired
      <3>4. QED
        BY <3>1, <3>2, <3>3
    <2>2. \A i \in 1 .. n : \A o \in timeout_objects[i] : promised[o] - clock < TicksPerMs
      BY <1>5 DEF LoopInv, PromisesOK
    <2>3. \A i \in 1 .. n + 1 : \A o \in timeout_objects'[i] :
            promised[o] - clock < TicksPerMs
      BY <1>5, <1>6, <2>1, <2>2
    <2>4. \A o \in DOMAIN object_time_' : promised[o] <= object_time_'[o]
      BY <1>2 DEF LoopInv, PromisesOK
    <2>5. QED
      BY <1>3, <1>5, <2>3, <2>4 DEF LoopInv, PromisesOK
  <1>11. OneTime'
    <2> SUFFICES ASSUME NEW o \in Objects
                 PROVE  (\/ o \in DOMAIN object_time_'
                         \/ \E i \in DOMAIN timeout_objects' : o \in timeout_objects'[i])
                        <=>
                        (\/ o \in DOMAIN object_time_
                         \/ \E i \in DOMAIN timeout_objects : o \in timeout_objects[i])
      BY <1>3 DEF LoopInv, OneTime
    <2>1. CASE o \in time_object_[t]
      <3>1. n + 1 \in 1 .. n + 1
        BY <1>5
      <3>2. QED
        BY <1>5, <1>7, <2>1, <3>1
    <2>2. CASE o \notin time_object_[t]
      <3>1. o \in DOMAIN object_time_' <=> o \in DOMAIN object_time_
        BY <1>2, <2>2
      <3>2. (\E i \in 1 .. n + 1 : o \in timeout_objects'[i])
              <=> (\E i \in 1 .. n : o \in timeout_objects[i])
        <4>1. 1 .. n \subseteq 1 .. n + 1
          BY <1>5
        <4>2. QED
          BY <1>5, <1>6, <2>2, <4>1
      <3>3. QED
        BY <1>5, <3>1, <3>2
    <2>3. QED
      BY <2>1, <2>2
  <1>12. QED
    BY <1>1, <1>8, <1>9, <1>10, <1>11 DEF LoopInv

\* handle_timeout() takes its object off the list and settles what it was owed.
LEMMA HandleKeeps ==
    ASSUME LoopInv, NEW o \in Objects, HandleTimeout(o)
    PROVE  LoopInv'
  <1> DEFINE n == Len(timeout_objects)
             d == IF Head(timeout_objects) = {o} THEN 1 ELSE 0
  <1>1. timeout_objects \in Seq(SUBSET Objects) /\ timeout_objects # <<>>
        /\ o \in timeout_objects[1] /\ Head(timeout_objects) = timeout_objects[1]
    BY DEF HandleTimeout, LoopInv, TimerInv, TimerTypeOK
  <1>2. n \in Nat \ {0} /\ DOMAIN timeout_objects = 1 .. n
    BY <1>1
  <1>3. UNCHANGED <<clock, time_object_, object_time_, sweeping, pc, pipe, events>>
    BY DEF HandleTimeout
  <1>4. pc = "handlers" /\ owed' = [owed EXCEPT ![o] = @ - 1]
        /\ promised' = [promised EXCEPT ![o] = 0]
    BY DEF HandleTimeout
  <1>5. /\ d \in {0, 1} /\ (d = 1 => timeout_objects[1] = {o})
        /\ d = 1 <=> Head(timeout_objects) = {o}
    BY <1>1
  <1> HIDE DEF n, d
  <1>6. /\ timeout_objects' \in Seq(SUBSET Objects)
        /\ DOMAIN timeout_objects' = 1 .. n - d
        /\ \A i \in 1 .. n - d : timeout_objects'[i] = timeout_objects[i + d] \ {o}
    <2>1. \A i \in 2 .. n : o \notin timeout_objects[i]
      <3> SUFFICES ASSUME NEW i \in 2 .. n PROVE o \notin timeout_objects[i]
        OBVIOUS
      <3>1. 1 \in DOMAIN timeout_objects /\ i \in DOMAIN timeout_objects /\ i # 1
        BY <1>2
      <3>2. QED
        BY <1>1, <3>1 DEF LoopInv, TimerInv, HandedOutOnce
    <2>2. CASE Head(timeout_objects) = {o}
      <3>1. timeout_objects' = Tail(timeout_objects) /\ d = 1
        BY <1>5, <2>2 DEF HandleTimeout
      <3>2. /\ Tail(timeout_objects) \in Seq(SUBSET Objects)
            /\ Len(Tail(timeout_objects)) = n - 1
            /\ \A i \in 1 .. n - 1 : Tail(timeout_objects)[i] = timeout_objects[i + 1]
        BY <1>1, HeadTailProperties DEF n
      <3>3. \A i \in 1 .. n - 1 : i + 1 \in 2 .. n
        BY <1>2
      <3>4. DOMAIN timeout_objects' = 1 .. n - 1
        BY <3>1, <3>2
      <3>5. \A i \in 1 .. n - 1 : timeout_objects'[i] = timeout_objects[i + 1] \ {o}
        BY <2>1, <3>1, <3>2, <3>3
      <3>6. QED
        BY <3>1, <3>2, <3>4, <3>5
    <2>3. CASE Head(timeout_objects) # {o}
      <3>1. timeout_objects' = [timeout_objects EXCEPT ![1] = @ \ {o}] /\ d = 0
        BY <1>5, <2>3 DEF HandleTimeout
      <3>2. timeout_objects[1] \ {o} \in SUBSET Objects /\ 1 \in 1 .. n
        BY <1>1, <1>2
      <3>3. timeout_objects' \in Seq(SUBSET Objects) /\ DOMAIN timeout_objects' = 1 .. n
        BY <1>1, <1>2, <3>1, <3>2, ExceptSeq DEF n
      <3>4. ASSUME NEW i \in 1 .. n
            PROVE  timeout_objects'[i] = timeout_objects[i + 0] \ {o}
        <4>1. i = 1 \/ i \in 2 .. n
          BY <1>2
        <4>2. i + 0 = i
          BY <1>2
        <4>3. QED
          BY <1>2, <2>1, <3>1, <3>2, <4>1, <4>2
      <3>5. QED
        BY <1>2, <3>1, <3>3, <3>4
    <2>4. QED
      BY <2>2, <2>3
  <1>7. \A i \in 1 .. n - d : i + d \in 1 .. n
    BY <1>2, <1>5
  <1>8. TimerInv'
    <2>1. TimerTypeOK'
      BY <1>3, <1>6 DEF LoopInv, TimerInv, TimerTypeOK
    <2>2. MapsAgree'
      BY <1>3 DEF LoopInv, TimerInv, MapsAgree
    <2>3. \A i, j \in 1 .. n : i # j => timeout_objects[i] \cap timeout_objects[j] = {}
      BY <1>2 DEF LoopInv, TimerInv, HandedOutOnce
    <2>4. \A i, j \in 1 .. n - d : i # j => i + d # j + d
      BY <1>2, <1>5
    <2>5. \A i, j \in 1 .. n - d : i # j => timeout_objects'[i] \cap timeout_objects'[j] = {}
      <3> SUFFICES ASSUME NEW i \in 1 .. n - d, NEW j \in 1 .. n - d, i # j
                   PROVE  timeout_objects'[i] \cap timeout_objects'[j] = {}
        OBVIOUS
      <3>1. timeout_objects[i + d] \cap timeout_objects[j + d] = {}
        BY <1>7, <2>3, <2>4
      <3>2. QED
        BY <1>6, <3>1
    <2>6. ~sweeping'
      BY <1>3, <1>4 DEF LoopInv, SweepOK
    <2>7. HandedOutOnce'
      BY <1>6, <2>5, <2>6 DEF HandedOutOnce
    <2>8. QED
      BY <2>1, <2>2, <2>7 DEF TimerInv
  <1>9. QueuesOK'
    <2>1. wait_events_' \in Seq(Pending(clock))
      <3>1. CASE UNCHANGED wait_events_
        BY <3>1 DEF LoopInv, QueuesOK
      <3>2. ASSUME NEW r \in Requests(o), wait_events_' = Append(wait_events_, r)
            PROVE  wait_events_' \in Seq(Pending(clock))
        BY <3>2, RequestPending, AppendProperties DEF LoopInv, TimerInv, QueuesOK
      <3>3. QED
        BY <3>1, <3>2 DEF HandleTimeout
    <2>2. QED
      BY <1>3, <2>1 DEF LoopInv, QueuesOK
  <1>10. \A i \in 1 .. n : timeout_objects[i] \cap DOMAIN object_time_ = {}
    BY <1>2 DEF LoopInv, SweepOK
  <1>11. SweepOK'
    <2>1. \A i \in 1 .. n - d : timeout_objects'[i] \cap DOMAIN object_time_ = {}
      BY <1>6, <1>7, <1>10
    <2>2. QED
      BY <1>3, <1>4, <1>6, <2>1 DEF LoopInv, SweepOK
  <1>12. o \notin DOMAIN object_time_ /\ 1 \in 1 .. n
    BY <1>1, <1>2, <1>10
  <1>13. owed[o] = 1
    BY <1>1, <1>2, <1>12 DEF LoopInv, OneTime
  <1>14. PromisesOK'
    <2>1. promised' \in [Objects -> Nat] /\ owed' \in [Objects -> Nat]
      BY <1>4, <1>13 DEF LoopInv, PromisesOK
    <2>2. \A p \in DOMAIN object_time_' : promised'[p] <= object_time_'[p]
      <3>1. DOMAIN object_time_ \subseteq Objects
        BY DEF LoopInv, TimerInv, TimerTypeOK
      <3>2. QED
        BY <1>3, <1>4, <1>12, <3>1 DEF LoopInv, PromisesOK
    <2>3. \A i \in 1 .. n : \A p \in timeout_objects[i] :
            p \in Objects /\ promised[p] - clock < TicksPerMs
      BY <1>1, <1>2 DEF LoopInv, PromisesOK
    <2>4. \A i \in 1 .. n - d : \A p \in timeout_objects'[i] :
            promised'[p] - clock' < TicksPerMs
      <3> SUFFICES ASSUME NEW i \in 1 .. n - d, NEW p \in timeout_objects'[i]
                   PROVE  promised'[p] - clock' < TicksPerMs
        OBVIOUS
      <3>1. p \in timeout_objects[i + d] /\ p # o /\ i + d \in 1 .. n
        BY <1>6, <1>7
      <3>2. promised'[p] = promised[p]
        BY <1>4, <2>3, <3>1 DEF LoopInv, PromisesOK
      <3>3. QED
        BY <1>3, <2>3, <3>1, <3>2
    <2>5. QED
      BY <1>6, <2>1, <2>2, <2>4 DEF PromisesOK
  <1>15. OneTime'
    <2> SUFFICES ASSUME NEW p \in Objects
                 PROVE  owed'[p] = IF \/ p \in DOMAIN object_time_'
                                      \/ \E i \in 1 .. n - d : p \in timeout_objects'[i]
                                   THEN 1 ELSE 0
      BY <1>6 DEF OneTime
    <2>1. CASE p = o
      <3>1. owed'[p] = 0
        BY <1>4, <1>13, <2>1 DEF LoopInv, PromisesOK
      <3>2. \A i \in 1 .. n - d : o \notin timeout_objects'[i]
        BY <1>6
      <3>3. QED
        BY <1>3, <1>12, <2>1, <3>1, <3>2
    <2>2. CASE p # o
      <3>1. owed'[p] = owed[p]
        BY <1>4, <2>2 DEF LoopInv, PromisesOK
      <3>2. (\E i \in 1 .. n - d : p \in timeout_objects'[i])
              <=> (\E i \in 1 .. n : p \in timeout_objects[i])
        <4>1. ASSUME NEW i \in 1 .. n, p \in timeout_objects[i]
              PROVE  \E j \in 1 .. n - d : p \in timeout_objects'[j]
          <5>1. i - d \in 1 .. n - d /\ (i - d) + d = i
            <6>1. ~(d = 1 /\ i = 1)
              BY <1>5, <2>2, <4>1
            <6>2. QED
              BY <1>2, <1>5, <6>1
          <5>2. p \in timeout_objects'[i - d]
            BY <1>6, <2>2, <4>1, <5>1
          <5>3. QED
            BY <5>1, <5>2
        <4>2. QED
          BY <1>6, <1>7, <4>1
      <3>3. QED
        BY <1>2, <1>3, <3>1, <3>2 DEF LoopInv, OneTime
    <2>3. QED
      BY <2>1, <2>2
  <1>16. QED
    BY <1>8, <1>9, <1>11, <1>14, <1>15 DEF LoopInv

\* dispatch_reactor_event: the request of the head of the batch replaces what was
\* promised before it.
LEMMA DispatchKeeps ==
    ASSUME LoopInv, Dispatch
    PROVE  LoopInv'
  <1> DEFINE e == Head(events)
             o == e.object
  <1>1. pc = "dispatch" /\ events # <<>> /\ events' = Tail(events)
        /\ UNCHANGED <<pc, wait_events_, pipe>>
    BY DEF Dispatch
  <1>2. ~sweeping /\ timeout_objects = <<>> /\ DOMAIN timeout_objects = {}
    BY <1>1 DEF LoopInv, SweepOK
  <1>3. e \in Pending(clock) /\ events' \in Seq(Pending(clock))
    BY <1>1, HeadTailProperties DEF LoopInv, QueuesOK
  <1>4. CASE e.event = "TIMEOUT_ADD"
    <2>1. /\ o \in Objects /\ e.msec \in Msecs /\ e.due \in Nat
          /\ e.due <= clock + e.msec * TicksPerMs
      BY <1>3, <1>4 DEF Pending
    <2>2. /\ RegisterTimeout(o, e.msec)
          /\ promised' = [promised EXCEPT ![o] = e.due]
          /\ owed' = [owed EXCEPT ![o] = 1]
      BY <1>4 DEF Dispatch
    <2>3. /\ UNCHANGED <<clock, sweeping, timeout_objects>>
          /\ object_time_' = [p \in DOMAIN object_time_ \cup {o} |->
                                IF p = o THEN DueTime(e.msec) ELSE object_time_[p]]
      BY <2>2 DEF RegisterTimeout
    <2> HIDE DEF e, o
    <2>4. TimerInv'
      BY <1>2, <2>1, <2>2, RegisterInv DEF LoopInv
    <2>5. QueuesOK'
      BY <1>1, <1>3, <2>3 DEF LoopInv, QueuesOK
    <2>6. SweepOK'
      BY <1>1, <1>2, <2>3 DEF LoopInv, SweepOK
    <2>7. PromisesOK'
      <3>1. DOMAIN object_time_ \subseteq Objects
        BY DEF LoopInv, TimerInv, TimerTypeOK
      <3>2. \A p \in DOMAIN object_time_' : promised'[p] <= object_time_'[p]
        BY <2>1, <2>2, <2>3, <3>1 DEF LoopInv, PromisesOK, DueTime
      <3>3. QED
        BY <1>2, <2>1, <2>2, <2>3, <3>2 DEF LoopInv, PromisesOK
    <2>8. OneTime'
      BY <1>2, <2>1, <2>2, <2>3 DEF LoopInv, OneTime, PromisesOK
    <2>9. QED
      BY <2>4, <2>5, <2>6, <2>7, <2>8 DEF LoopInv
  <1>5. CASE e.event = "TIMEOUT_DEL"
    <2>1. o \in Objects
      BY <1>3, <1>5 DEF Pending
    <2>2. /\ RemoveTimeout(o)
          /\ promised' = [promised EXCEPT ![o] = 0]
          /\ owed' = [owed EXCEPT ![o] = 0]
      BY <1>5 DEF Dispatch
    <2>3. /\ UNCHANGED <<clock, sweeping, timeout_objects>>
          /\ object_time_' = [p \in DOMAIN object_time_ \ {o} |-> object_time_[p]]
      BY <2>2 DEF RemoveTimeout, TimesWithout, Restrict
    <2> HIDE DEF e, o
    <2>4. TimerInv'
      BY <1>2, <2>1, <2>2, RemoveInv DEF LoopInv
    <2>5. QueuesOK'
      BY <1>1, <1>3, <2>3 DEF LoopInv, QueuesOK
    <2>6. SweepOK'
      BY <1>1, <1>2, <2>3 DEF LoopInv, SweepOK
    <2>7. PromisesOK'
      <3>1. DOMAIN object_time_ \subseteq Objects
        BY DEF LoopInv, TimerInv, TimerTypeOK
      <3>2. \A p \in DOMAIN object_time_' : promised'[p] <= object_time_'[p]
        BY <2>1, <2>2, <2>3, <3>1 DEF LoopInv, PromisesOK
      <3>3. QED
        BY <1>2, <2>1, <2>2, <2>3, <3>2 DEF LoopInv, PromisesOK
    <2>8. OneTime'
      BY <1>2, <2>1, <2>2, <2>3 DEF LoopInv, OneTime, PromisesOK
    <2>9. QED
      BY <2>4, <2>5, <2>6, <2>7, <2>8 DEF LoopInv
  <1>6. QED
    BY <1>4, <1>5 DEF Dispatch

\* A step that only moves the program counter and the queues.
LEMMA QueueStepKeeps ==
    ASSUME LoopInv, UNCHANGED <<timer_vars, history>>, QueuesOK',
           pc' \in {"top", "enter", "wait", "dispatch", pc},
           pc' # pc => pc # "sweep" /\ timeout_objects = <<>>
    PROVE  LoopInv'
  <1>1. UNCHANGED <<clock, time_object_, object_time_, sweeping, timeout_objects, promised, owed>>
    BY DEF timer_vars, history
  <1>2. TimerInv' /\ PromisesOK' /\ OneTime'
    BY <1>1 DEF LoopInv, TimerInv, TimerTypeOK, MapsAgree, HandedOutOnce, PromisesOK, OneTime
  <1>3. SweepOK'
    BY <1>1 DEF LoopInv, SweepOK
  <1>4. QED
    BY <1>2, <1>3 DEF LoopInv

\* Every step of the reactor thread, of the other threads and of time.
LEMMA LoopNextInv == LoopInv /\ [Next]_vars => LoopInv'
  <1> SUFFICES ASSUME LoopInv, [Next]_vars PROVE LoopInv'
    OBVIOUS
  <1>0. QueuesOK /\ SweepOK /\ clock \in Nat /\ TimerTypeOK
    BY DEF LoopInv, TimerInv, TimerTypeOK
  <1>1. CASE RunTop
    <2>1. CASE get_min_timeout_milliseconds = 0
      <3>1. ExtractBegin /\ pc = "top" /\ pc' = "sweep" /\ UNCHANGED <<queues, history>>
        BY <1>1, <2>1 DEF RunTop
      <3>2. QueuesOK'
        BY <1>0, <3>1 DEF QueuesOK, queues, ExtractBegin
      <3>3. QED
        BY <3>1, <3>2, BeginKeeps
    <2>2. CASE get_min_timeout_milliseconds # 0
      <3>1. pc = "top" /\ pc' = "enter" /\ UNCHANGED <<timer_vars, queues, history>>
        BY <1>1, <2>2 DEF RunTop
      <3>2. QueuesOK'
        BY <1>0, <3>1 DEF QueuesOK, queues, timer_vars
      <3>3. QED
        BY <1>0, <3>1, <3>2, QueueStepKeeps DEF SweepOK
    <2>3. QED
      BY <2>1, <2>2
  <1>2. CASE WaitEnter
    <2>1. pc = "enter" /\ pc' \in {"dispatch", "wait"} /\ UNCHANGED <<timer_vars, history>>
      BY <1>2 DEF WaitEnter
    <2>2. QueuesOK'
      <3>1. CASE wait_events_ # <<>>
        BY <1>0, <1>2, <3>1, EmptySeq DEF QueuesOK, WaitEnter, timer_vars
      <3>2. CASE wait_events_ = <<>>
        BY <1>0, <1>2, <3>2 DEF QueuesOK, WaitEnter, timer_vars
      <3>3. QED
        BY <3>1, <3>2
    <2>3. QED
      BY <1>0, <2>1, <2>2, QueueStepKeeps DEF SweepOK
  <1>3. CASE WaitRead
    <2>1. pc = "wait" /\ pc' = "dispatch" /\ UNCHANGED <<timer_vars, history>>
      BY <1>3 DEF WaitRead
    <2>2. QueuesOK'
      BY <1>0, <1>3 DEF QueuesOK, WaitRead, timer_vars
    <2>3. QED
      BY <1>0, <2>1, <2>2, QueueStepKeeps DEF SweepOK
  <1>4. CASE WaitNothing
    <2>1. ExtractBegin /\ pc = "wait" /\ pc' = "sweep" /\ UNCHANGED <<queues, history>>
      BY <1>4 DEF WaitNothing
    <2>2. QueuesOK'
      BY <1>0, <2>1 DEF QueuesOK, queues, ExtractBegin
    <2>3. QED
      BY <2>1, <2>2, BeginKeeps
  <1>5. CASE Sweep
    <2>1. CASE ExtractBucket
      <3>1. UNCHANGED <<pc, locals, queues, history>> /\ pc = "sweep"
        BY <1>5, <2>1 DEF Sweep, ExtractBucket, ExtractEnd
      <3>2. QED
        BY <2>1, <3>1, BucketKeeps
    <2>2. CASE ExtractEnd /\ pc' = "handlers"
      <3>1. pc = "sweep" /\ UNCHANGED <<queues, history>>
        BY <1>5 DEF Sweep
      <3>2. TimerInv'
        BY <2>2, NextInv DEF LoopInv, TimerNext
      <3>3. UNCHANGED <<clock, object_time_, timeout_objects>> /\ sweeping' = FALSE
        BY <2>2 DEF ExtractEnd
      <3>4. QueuesOK' /\ SweepOK' /\ PromisesOK' /\ OneTime'
        BY <2>2, <3>1, <3>3
        DEF LoopInv, QueuesOK, SweepOK, PromisesOK, OneTime, queues, history
      <3>5. QED
        BY <3>2, <3>4 DEF LoopInv
    <2>3. QED
      BY <1>5, <2>1, <2>2 DEF Sweep
  <1>6. ASSUME NEW o \in Objects, HandleTimeout(o)
        PROVE  LoopInv'
    BY <1>6, HandleKeeps
  <1>7. CASE HandlersDone
    <2>1. pc = "handlers" /\ timeout_objects = <<>> /\ pc' = "top"
          /\ UNCHANGED <<timer_vars, queues, history>>
      BY <1>7 DEF HandlersDone
    <2>2. QueuesOK'
      BY <1>0, <2>1 DEF QueuesOK, queues, timer_vars
    <2>3. QED
      BY <2>1, <2>2, QueueStepKeeps
  <1>8. CASE Dispatch
    BY <1>8, DispatchKeeps
  <1>9. CASE DispatchDone
    <2>1. pc = "dispatch" /\ pc' = "top" /\ UNCHANGED <<timer_vars, queues, history>>
      BY <1>9 DEF DispatchDone
    <2>2. QueuesOK'
      BY <1>0, <2>1 DEF QueuesOK, queues, timer_vars
    <2>3. QED
      BY <1>0, <2>1, <2>2, QueueStepKeeps DEF SweepOK
  <1>10. CASE OtherThread
    <2>1. PICK o \in Objects : \E r \in Requests(o) : pipe' = Append(pipe, r)
      BY <1>10 DEF OtherThread
    <2>2. pipe' \in Seq(Pending(clock))
      BY <1>0, <2>1, RequestPending, AppendProperties DEF QueuesOK
    <2>3. UNCHANGED <<timer_vars, pc, wait_events_, events, history>>
      BY <1>10 DEF OtherThread
    <2>4. QueuesOK'
      BY <1>0, <2>2, <2>3 DEF QueuesOK, timer_vars
    <2>5. QED
      BY <2>3, <2>4, QueueStepKeeps
  <1>11. CASE Time
    <2>1. /\ clock' = clock + 1
          /\ UNCHANGED <<time_object_, object_time_, sweeping, timeout_objects, pc, wait_events_,
                         pipe, events, promised, owed>>
      BY <1>11 DEF Time, Advance, queues, history
    <2>2. TimerInv' /\ SweepOK' /\ OneTime'
      BY <2>1 DEF LoopInv, TimerInv, TimerTypeOK, MapsAgree, HandedOutOnce, SweepOK, OneTime
    <2>3. QueuesOK'
      BY <1>0, <2>1, PendingGrows DEF QueuesOK
    <2>4. PromisesOK'
      <3>1. ASSUME NEW i \in DOMAIN timeout_objects, NEW o \in timeout_objects[i]
            PROVE  promised[o] - clock' < TicksPerMs
        <4>1. o \in Objects
          BY <1>0 DEF TimerTypeOK
        <4>2. promised[o] \in Nat /\ promised[o] - clock < TicksPerMs /\ TicksPerMs \in Nat
          BY <4>1, TimerConstants DEF LoopInv, PromisesOK
        <4>3. QED
          BY <1>0, <2>1, <4>2
      <3>2. QED
        BY <2>1, <3>1 DEF LoopInv, PromisesOK
    <2>5. QED
      BY <2>2, <2>3, <2>4 DEF LoopInv
  <1>12. CASE UNCHANGED vars
    <2>1. UNCHANGED <<timer_vars, pc, queues, history>>
      BY <1>12 DEF vars
    <2>2. QueuesOK'
      BY <1>0, <2>1 DEF QueuesOK, queues, timer_vars
    <2>3. QED
      BY <2>1, <2>2, QueueStepKeeps
  <1>13. QED
    BY <1>1, <1>2, <1>3, <1>4, <1>5, <1>6, <1>7, <1>8, <1>9, <1>10, <1>11, <1>12
    DEF Next, LoopThread, WaitTimedOut

-----------------------------------------------------------------------------
\* set_timeout is one-time and the last request counts, whatever the handlers and the
\* other threads ask for while an expiry is being handled.
THEOREM RequestsAnsweredOnce == Spec => []OneTime
  <1>1. LoopInv => OneTime
    BY DEF LoopInv
  <1>2. QED
    BY <1>1, LoopInitInv, LoopNextInv, PTL DEF Spec

\* handle_timeout is never called a millisecond or more before the time asked for,
\* however long the request waited in the queue and whenever the sweep read the clock.
THEOREM NeverEarly == Spec => LessThanOneMsEarly
  <1>1. ASSUME LoopInv
        PROVE  \A o \in Objects : HandleTimeout(o) => promised[o] - clock < TicksPerMs
    <2> SUFFICES ASSUME NEW o \in Objects, HandleTimeout(o)
                 PROVE  promised[o] - clock < TicksPerMs
      OBVIOUS
    <2>1. timeout_objects # <<>> /\ o \in timeout_objects[1]
          /\ timeout_objects \in Seq(SUBSET Objects)
      BY <1>1 DEF HandleTimeout, LoopInv, TimerInv, TimerTypeOK
    <2>2. 1 \in DOMAIN timeout_objects
      BY <2>1
    <2>3. QED
      BY <1>1, <2>1, <2>2 DEF LoopInv, PromisesOK
  <1>2. LoopInv /\ [Next]_vars =>
          [\A o \in Objects : HandleTimeout(o) => promised[o] - clock < TicksPerMs]_vars
    BY <1>1
  <1>3. QED
    BY <1>2, LoopInitInv, LoopNextInv, PTL DEF Spec, LessThanOneMsEarly

-----------------------------------------------------------------------------
\* Every step of the loop is a step of the timer service, or changes nothing of it.
LEMMA LoopRefines ==
    LoopInv /\ [Next]_vars => [Service!ServiceNext]_(Service!svars)
  <1> SUFFICES ASSUME LoopInv, [Next]_vars
               PROVE  [Service!ServiceNext]_(Service!svars)
    OBVIOUS
  <1>0. TimerInv /\ SweepOK /\ QueuesOK
    BY DEF LoopInv
  <1>1. ASSUME UNCHANGED timer_vars
        PROVE  UNCHANGED Service!svars
    BY <1>1 DEF timer_vars, Service!svars
  <1>2. ASSUME ExtractBegin
        PROVE  Service!ServiceNext
    BY <1>2 DEF ExtractBegin, Service!SweepBegin, Service!ServiceNext
  <1>3. CASE RunTop
    BY <1>1, <1>2, <1>3 DEF RunTop
  <1>4. CASE WaitEnter \/ WaitRead \/ HandlersDone \/ DispatchDone \/ OtherThread
    BY <1>1, <1>4 DEF WaitEnter, WaitRead, HandlersDone, DispatchDone, OtherThread
  <1>5. CASE WaitNothing
    BY <1>2, <1>5 DEF WaitNothing
  <1>6. CASE Sweep
    BY <1>0, <1>6, BucketHandsOut, EndLeavesNothingDue DEF Sweep, Service!ServiceNext
  <1>7. ASSUME NEW o \in Objects, HandleTimeout(o)
        PROVE  Service!ServiceNext
    <2>1. ~sweeping
      BY <1>0, <1>7 DEF HandleTimeout, SweepOK
    <2>2. Service!Use
      BY <1>7, <2>1 DEF HandleTimeout, Service!Use
    <2>3. QED
      BY <2>2 DEF Service!ServiceNext
  <1>8. CASE Dispatch
    <2> DEFINE e == Head(events)
    <2>1. ~sweeping /\ e \in Pending(clock)
      BY <1>0, <1>8, HeadTailProperties DEF Dispatch, SweepOK, QueuesOK
    <2>2. CASE e.event = "TIMEOUT_ADD"
      <3>1. e.object \in Objects /\ e.msec \in Msecs
        BY <2>1, <2>2 DEF Pending
      <3>2. RegisterTimeout(e.object, e.msec)
        BY <1>8, <2>2 DEF Dispatch
      <3> HIDE DEF e
      <3>3. Service!Arm(e.object, e.msec)
        BY <2>1, <3>1, <3>2, RegisterArms
      <3>4. QED
        BY <3>1, <3>3 DEF Service!ServiceNext
    <2>3. CASE e.event = "TIMEOUT_DEL"
      <3>1. e.object \in Objects
        BY <2>1, <2>3 DEF Pending
      <3>2. RemoveTimeout(e.object)
        BY <1>8, <2>3 DEF Dispatch
      <3> HIDE DEF e
      <3>3. Service!Disarm(e.object)
        BY <2>1, <3>1, <3>2, RemoveDisarms
      <3>4. QED
        BY <3>1, <3>3 DEF Service!ServiceNext
    <2>4. QED
      BY <1>8, <2>2, <2>3 DEF Dispatch
  <1>9. CASE Time
    <2>1. clock' > clock
      BY <1>0, <1>9 DEF Time, Advance, TimerInv, TimerTypeOK
    <2>2. QED
      BY <1>9, <2>1 DEF Time, Advance, Service!Pass, Service!ServiceNext
  <1>10. CASE UNCHANGED vars
    BY <1>1, <1>10 DEF vars
  <1>11. QED
    BY <1>3, <1>4, <1>5, <1>6, <1>7, <1>8, <1>9, <1>10 DEF Next, LoopThread, WaitTimedOut

\* Seen from outside, the event loop with its queues, its two maps and its sweep is the
\* timer service: the handlers it calls are the ones a sweep was handed out.
THEOREM LoopRefinement == Spec => ImplementsService
  <1>1. Init => Service!ServiceInit
    BY DEF Init, TimerInit, Service!ServiceInit
  <1>2. QED
    BY <1>1, LoopInitInv, LoopNextInv, LoopRefines, PTL
    DEF Spec, ImplementsService, Service!ServiceSpec

-----------------------------------------------------------------------------
\* The deadlines an int32_t count of milliseconds can tell apart: no timeout of 2^31 ms
\* (24.8 days) or more is asked for, and no deadline is missed by as much.
TimeoutsFitInt32 == \A m \in Msecs : m < Int32Half

NotLate ==
    \A o \in DOMAIN object_time_ : clock - object_time_[o] < Int32Half * TicksPerMs

\* What makes the sleep of a turn the right one: it was computed from the timer as it
\* still is, and it lies ahead of it by no more than the first deadline does.
NotFar ==
    \A o \in DOMAIN object_time_ : object_time_[o] - clock < Int32Half * TicksPerMs

LoopWakes == LoopInv /\ NotFar /\ NoOversleep

\* The first deadline is the deadline of an armed object.
LEMMA FirstFits ==
    ASSUME TimerInv, NotFar, NotLate, DOMAIN time_object_ # {}
    PROVE  InInt32(First - clock)
  <1>1. First \in DOMAIN time_object_
    BY FirstExists DEF First, TimerInv
  <1>2. PICK o \in DOMAIN object_time_ : object_time_[o] = First
    BY <1>1 DEF TimerInv, MapsAgree
  <1>3. First \in Nat /\ clock \in Nat /\ Int32Half * TicksPerMs \in Nat
    BY <1>1, TimerConstants DEF TimerInv, TimerTypeOK
  <1>4. clock - First < Int32Half * TicksPerMs /\ First - clock < Int32Half * TicksPerMs
    BY <1>2 DEF NotFar, NotLate
  <1>5. QED
    BY <1>3, <1>4 DEF InInt32

\* A turn that leaves the timer and the locals alone, or ends, oversleeps no deadline.
LEMMA StillAwake ==
    ASSUME NoOversleep,
           pc' \in {"enter", "wait"} =>
             pc \in {"enter", "wait"} /\ UNCHANGED <<time_object_, timeout, asked>>
    PROVE  NoOversleep'
  <1>1. CASE pc' \in {"enter", "wait"}
    <2>1. time_object_' = time_object_ /\ timeout' = timeout /\ asked' = asked
          /\ pc \in {"enter", "wait"}
      BY <1>1
    <2>2. First' = First
      BY <2>1 DEF First, IsFirst
    <2>3. QED
      BY <2>1, <2>2 DEF NoOversleep
  <1>2. CASE pc' \notin {"enter", "wait"}
    BY <1>2 DEF NoOversleep
  <1>3. QED
    BY <1>1, <1>2

\* The deadlines stay in range: a new one is at most a timeout away, and the others
\* come nearer.
LEMMA FarKept ==
    ASSUME TimeoutsFitInt32, LoopInv, NotFar, [Next]_vars
    PROVE  NotFar'
  <1>0. /\ clock \in Nat /\ DOMAIN object_time_ \subseteq Objects
        /\ \A o \in DOMAIN object_time_ : object_time_[o] \in Nat
        /\ Int32Half * TicksPerMs \in Nat
    BY TimerConstants DEF LoopInv, TimerInv, TimerTypeOK
  <1>1. ASSUME clock' = clock, DOMAIN object_time_' \subseteq DOMAIN object_time_,
               \A o \in DOMAIN object_time_' : object_time_'[o] = object_time_[o]
        PROVE  NotFar'
    BY <1>1 DEF NotFar
  <1>2. CASE UNCHANGED <<clock, object_time_>>
    BY <1>1, <1>2
  <1>3. CASE ExtractBucket
    BY <1>1, <1>3 DEF ExtractBucket, TimesWithout, Restrict
  <1>4. CASE Time
    <2>1. clock' = clock + 1 /\ object_time_' = object_time_
      BY <1>4 DEF Time, Advance
    <2>2. QED
      BY <1>0, <2>1 DEF NotFar
  <1>5. CASE Dispatch
    <2> DEFINE e == Head(events)
    <2>1. e \in Pending(clock)
      BY <1>5, HeadTailProperties DEF Dispatch, LoopInv, QueuesOK
    <2>2. CASE e.event = "TIMEOUT_DEL"
      <3>1. RemoveTimeout(e.object)
        BY <1>5, <2>2 DEF Dispatch
      <3> HIDE DEF e
      <3>2. QED
        BY <1>1, <3>1 DEF RemoveTimeout, TimesWithout, Restrict
    <2>3. CASE e.event = "TIMEOUT_ADD"
      <3>1. RegisterTimeout(e.object, e.msec) /\ e.msec \in Msecs
        BY <1>5, <2>1, <2>3 DEF Dispatch, Pending
      <3> HIDE DEF e
      <3>2. e.msec \in Nat /\ e.msec < Int32Half /\ e.msec * TicksPerMs \in Nat
        BY <3>1, MsecTicks DEF TimeoutsFitInt32
      <3>3. e.msec * TicksPerMs < Int32Half * TicksPerMs
        <4>1. \A a, b, t \in Nat : a < b /\ t > 0 => a * t < b * t
          OBVIOUS
        <4>2. QED
          BY <3>2, <4>1, TimerConstants
      <3>4. /\ clock' = clock
            /\ object_time_' = [p \in DOMAIN object_time_ \cup {e.object} |->
                                  IF p = e.object THEN clock + e.msec * TicksPerMs
                                  ELSE object_time_[p]]
        BY <3>1 DEF RegisterTimeout, DueTime
      <3> DEFINE due == e.msec * TicksPerMs
                 far == Int32Half * TicksPerMs
      <3> HIDE DEF due, far
      <3>5. due \in Nat /\ far \in Nat /\ due < far
        BY <1>0, <3>2, <3>3 DEF due, far
      <3>6. (clock + due) - clock < far
        BY <1>0, <3>5
      <3>7. QED
        BY <3>4, <3>6 DEF NotFar, due, far
    <2>4. QED
      BY <1>5, <2>2, <2>3 DEF Dispatch
  <1>6. [Next]_vars => \/ UNCHANGED <<clock, object_time_>> \/ ExtractBucket
                       \/ Time \/ Dispatch
    BY DEF Next, LoopThread, RunTop, WaitEnter, WaitRead, WaitNothing, WaitTimedOut, Sweep,
           HandleTimeout, HandlersDone, DispatchDone, OtherThread, ExtractBegin, ExtractEnd,
           vars, timer_vars
  <1>7. QED
    BY <1>2, <1>3, <1>4, <1>5, <1>6

\* The sleep is computed from the timer at the top of a turn, and from there to the end
\* of the sleep nobody touches the timer.
LEMMA AwakeKept ==
    ASSUME LoopInv, NotFar, NotLate, NoOversleep, [Next]_vars
    PROVE  NoOversleep'
  <1>1. CASE RunTop
    <2>1. CASE get_min_timeout_milliseconds = 0
      BY <1>1, <2>1, StillAwake DEF RunTop
    <2>2. CASE get_min_timeout_milliseconds # 0
      <3>1. /\ timeout' = get_min_timeout_milliseconds /\ asked' = clock
            /\ time_object_' = time_object_
        BY <1>1, <2>2 DEF RunTop, timer_vars
      <3>2. First' = First
        BY <3>1 DEF First, IsFirst
      <3>3. ASSUME DOMAIN time_object_ # {}
            PROVE  timeout' > 0 /\ timeout' * TicksPerMs <= First - clock
        <4>1. InInt32(First - clock)
          BY <3>3, FirstFits DEF LoopInv
        <4>2. /\ get_min_timeout_milliseconds \in Nat
              /\ get_min_timeout_milliseconds > 0 =>
                   get_min_timeout_milliseconds * TicksPerMs <= First - clock
          BY <3>3, <4>1, MinIs DEF LoopInv, TimerInv
        <4>3. QED
          BY <2>2, <3>1, <4>2
      <3>4. QED
        BY <3>1, <3>2, <3>3 DEF NoOversleep
    <2>3. QED
      BY <2>1, <2>2
  <1>2. [Next]_vars => \/ RunTop
                       \/ pc' \in {"enter", "wait"} =>
                            /\ pc \in {"enter", "wait"}
                            /\ UNCHANGED <<time_object_, timeout, asked>>
    <2>1. ASSUME NEW o \in Objects, HandleTimeout(o)
          PROVE  pc' = "handlers"
      BY <2>1 DEF HandleTimeout
    <2>2. ASSUME Sweep
          PROVE  pc' \in {"sweep", "handlers"}
      BY <2>2 DEF Sweep
    <2>3. ASSUME Dispatch
          PROVE  pc' = "dispatch"
      BY <2>3 DEF Dispatch
    <2>4. ASSUME WaitEnter \/ WaitRead \/ WaitNothing \/ HandlersDone \/ DispatchDone
          PROVE  pc' \in {"enter", "wait"} =>
                   pc \in {"enter", "wait"} /\ UNCHANGED <<time_object_, timeout, asked>>
      BY <2>4 DEF WaitEnter, WaitRead, WaitNothing, HandlersDone, DispatchDone, timer_vars
    <2>5. ASSUME Time \/ OtherThread \/ UNCHANGED vars
          PROVE  UNCHANGED <<pc, time_object_, timeout, asked>>
      BY <2>5 DEF Time, Advance, OtherThread, vars, timer_vars, locals
    <2>6. QED
      BY <2>1, <2>2, <2>3, <2>4, <2>5 DEF Next, LoopThread, WaitTimedOut
  <1>3. QED
    BY <1>1, <1>2, StillAwake

\* While timeouts are below 2^31 ms and no deadline is late by as much, the loop neither
\* spins without a handler to call nor sleeps past a deadline, whatever rounding the
\* clock's resolution brings.  Beyond that range the int32_t wraps and it does.
THEOREM LoopWakesInTime ==
    ASSUME TimeoutsFitInt32
    PROVE  Spec /\ []NotLate => []WakesInTime
  <1>1. Init => LoopWakes
    <2>1. Init => DOMAIN object_time_ = {} /\ pc = "top"
      BY DEF Init, TimerInit
    <2>2. QED
      BY <2>1, LoopInitInv DEF LoopWakes, NotFar, NoOversleep
  <1>2. LoopWakes /\ NotLate /\ [Next]_vars => LoopWakes'
    BY LoopNextInv, FarKept, AwakeKept DEF LoopWakes
  <1>3. LoopWakes /\ NotLate => WakesInTime
    <2> SUFFICES ASSUME LoopWakes, NotLate, get_min_timeout_milliseconds = 0
                 PROVE  \E t \in DOMAIN time_object_ : IsFirst(t) /\ Expired(t)
      BY DEF LoopWakes, WakesInTime, NoSpin
    <2>1. DOMAIN time_object_ # {}
      <3>1. DOMAIN time_object_ = {} => get_min_timeout_milliseconds = -1
        BY DEF get_min_timeout_milliseconds
      <3>2. -1 # 0
        OBVIOUS
      <3>3. QED
        BY <3>1, <3>2
    <2>2. InInt32(First - clock)
      BY <2>1, FirstFits DEF LoopWakes, LoopInv
    <2>3. First \in DOMAIN time_object_ /\ IsFirst(First) /\ Expired(First)
      BY <2>1, <2>2, MinIs DEF LoopWakes, LoopInv, TimerInv
    <2>4. QED
      BY <2>3
  <1>4. QED
    BY <1>1, <1>2, <1>3, PTL DEF Spec
=============================================================================
