---------------------------- MODULE ObjectsTimer ----------------------------
(***************************************************************************)
(* reactor/ObjectsTimer.h: the timer of a Reactor (objects are event       *)
(* handlers) and of a session (objects are timer keys).  Two maps are kept *)
(* in step: time_object_ from a point in time to the bucket of objects due *)
(* then, and object_time_ from an object to that point.  No lock is in     *)
(* use: one thread calls the operations, so each is one action, except the *)
(* loop of extract_timeout_objects, which reads the clock once per bucket. *)
(***************************************************************************)
EXTENDS Integers, Sequences, Functions

CONSTANTS Objects,     \* handlers or timer keys
          Msecs,       \* millisecond arguments (uint32_t in the code)
          TicksPerMs,  \* clock ticks per millisecond (nanoseconds in the code)
          Int32Half,   \* 2^31: int32_t holds -Int32Half .. Int32Half - 1
          MaxClock     \* bound: the clock stops here

ASSUME TimerConstants ==
    /\ TicksPerMs \in Nat \ {0}
    /\ Int32Half \in Nat \ {0}
    /\ Msecs \subseteq 0 .. 2 * Int32Half - 1
    /\ MaxClock \in Nat

VARIABLES clock,           \* steady_clock::now(), in ticks
          time_object_,    \* time -> nonempty set of objects
          object_time_,    \* object -> time
          sweeping,        \* inside the loop of extract_timeout_objects
          timeout_objects  \* the deque that loop fills

timer_vars == <<clock, time_object_, object_time_, sweeping, timeout_objects>>

-----------------------------------------------------------------------------
\* duration_cast<milliseconds> cuts towards zero.
DurationMs(ticks) ==
    IF ticks >= 0 THEN ticks \div TicksPerMs ELSE -((-ticks) \div TicksPerMs)

\* The 64-bit count is stored in an int32_t.
ToInt32(n) == ((n + Int32Half) % (2 * Int32Half)) - Int32Half

\* time_object_.begin()->first
IsFirst(t) == t \in DOMAIN time_object_ /\ \A u \in DOMAIN time_object_ : t <= u

First == CHOOSE t \in DOMAIN time_object_ : IsFirst(t)

MinUnclamped ==   \* mutant: a passed deadline yields a negative timeout
    IF DOMAIN time_object_ = {} THEN -1 ELSE ToInt32(DurationMs(First - clock))
MinRoundedUp ==   \* mutant: the part of a millisecond is rounded up
    IF DOMAIN time_object_ = {} THEN -1
    ELSE LET left == First - clock
         IN IF left <= 0 THEN 0 ELSE DurationMs(left + TicksPerMs - 1)
get_min_timeout_milliseconds ==
    IF DOMAIN time_object_ = {} THEN -1
    ELSE LET min == ToInt32(DurationMs(First - clock))
         IN IF min <= 0 THEN 0 ELSE min

\* The test of the extraction loop, on the full-width count.
ExpiredStrict(t) == DurationMs(t - clock) < 0   \* mutant: off by one
ExpiredEarly(t) == DurationMs(t - clock) <= 1   \* mutant: off by one
Expired(t) == DurationMs(t - clock) <= 0

\* steady_clock::now() + milliseconds(msec)
DueTime(msec) == clock + msec * TicksPerMs

\* time_object_ once remove_timeout_no_lock(o) has run: an emptied bucket goes.
BucketsKeepingEmpty(o) ==   \* mutant: the emptied bucket stays
    IF o \notin DOMAIN object_time_ THEN time_object_
    ELSE [time_object_ EXCEPT ![object_time_[o]] = @ \ {o}]
BucketsUntouched(o) == time_object_   \* mutant: the old registration stays
BucketsWithout(o) ==
    IF o \notin DOMAIN object_time_ THEN time_object_
    ELSE LET t == object_time_[o]
             left == time_object_[t] \ {o}
         IN IF left = {} THEN Restrict(time_object_, DOMAIN time_object_ \ {t})
            ELSE [time_object_ EXCEPT ![t] = left]

TimesWithout(S) == Restrict(object_time_, DOMAIN object_time_ \ S)

-----------------------------------------------------------------------------
TimerInit ==
    /\ clock = 0
    /\ time_object_ = [t \in {} |-> {}]
    /\ object_time_ = [o \in {} |-> 0]
    /\ sweeping = FALSE
    /\ timeout_objects = <<>>

\* register_timeout: an earlier registration of o is removed first.
RegisterTimeout(o, msec) ==
    LET t == DueTime(msec)
        buckets == BucketsWithout(o)
        bucket == IF t \in DOMAIN buckets THEN buckets[t] ELSE {}
    IN /\ object_time_' = [p \in DOMAIN object_time_ \cup {o} |->
                             IF p = o THEN t ELSE object_time_[p]]
       /\ time_object_' = [u \in DOMAIN buckets \cup {t} |->
                             IF u = t THEN bucket \cup {o} ELSE buckets[u]]
       /\ UNCHANGED <<clock, sweeping, timeout_objects>>

RemoveTimeout(o) ==
    /\ time_object_' = BucketsWithout(o)
    /\ object_time_' = TimesWithout({o})
    /\ UNCHANGED <<clock, sweeping, timeout_objects>>

ExtractBegin ==
    /\ ~sweeping
    /\ sweeping' = TRUE
    /\ timeout_objects' = <<>>
    /\ UNCHANGED <<clock, time_object_, object_time_>>

\* One turn of the loop: the first bucket, if it is due by the clock read now.
ExtractBucket ==
    /\ sweeping
    /\ \E t \in DOMAIN time_object_ :
         /\ IsFirst(t)
         /\ Expired(t)
         /\ object_time_' = TimesWithout(time_object_[t])
         /\ timeout_objects' = Append(timeout_objects, time_object_[t])
         /\ time_object_' = Restrict(time_object_, DOMAIN time_object_ \ {t})
    /\ UNCHANGED <<clock, sweeping>>

ExtractEnd ==
    /\ sweeping
    /\ \A t \in DOMAIN time_object_ : IsFirst(t) => ~Expired(t)
    /\ sweeping' = FALSE
    /\ UNCHANGED <<clock, time_object_, object_time_, timeout_objects>>

Advance ==
    /\ clock' = clock + 1
    /\ UNCHANGED <<time_object_, object_time_, sweeping, timeout_objects>>

Tick == clock < MaxClock /\ Advance

TimerNext ==
    \/ \E o \in Objects, m \in Msecs : ~sweeping /\ RegisterTimeout(o, m)
    \/ \E o \in Objects : ~sweeping /\ RemoveTimeout(o)
    \/ ExtractBegin \/ ExtractBucket \/ ExtractEnd
    \/ Tick

TimerSpec == TimerInit /\ [][TimerNext]_timer_vars

-----------------------------------------------------------------------------
\* The state has the types the class declares.
TimerTypeOK ==
    /\ clock \in Nat
    /\ DOMAIN time_object_ \subseteq Nat
    /\ time_object_ \in [DOMAIN time_object_ -> SUBSET Objects]
    /\ DOMAIN object_time_ \subseteq Objects
    /\ object_time_ \in [DOMAIN object_time_ -> Nat]
    /\ sweeping \in BOOLEAN
    /\ timeout_objects \in Seq(SUBSET Objects)

\* The two maps of the class describe the same timers: an object is in the
\* bucket of exactly its own time, and no bucket is empty (begin() is real).
MapsAgree ==
    /\ \A o \in DOMAIN object_time_ :
         /\ object_time_[o] \in DOMAIN time_object_
         /\ o \in time_object_[object_time_[o]]
    /\ \A t \in DOMAIN time_object_ :
         /\ time_object_[t] # {}
         /\ \A o \in time_object_[t] :
              o \in DOMAIN object_time_ /\ object_time_[o] = t

\* What one sweep has taken out is out of both maps until it ends, and no
\* object is handed out twice by it.
HandedOutOnce ==
    /\ \A i, j \in DOMAIN timeout_objects :
         i # j => timeout_objects[i] \cap timeout_objects[j] = {}
    /\ sweeping => \A i \in DOMAIN timeout_objects :
                     timeout_objects[i] \cap DOMAIN object_time_ = {}

\* The timer's inductive invariant: its maps describe one set of timers and a sweep
\* hands out each of them once.
TimerInv == TimerTypeOK /\ MapsAgree /\ HandedOutOnce

\* The two-map timer implements the one-map service.
Service == INSTANCE TimerService WITH deadline <- object_time_,
                                      handed_out <- timeout_objects
ImplementsService == Service!ServiceSpec
=============================================================================
