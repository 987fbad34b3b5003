------------------------ MODULE SessionTimersProofs ------------------------
(***************************************************************************)
(* Proofs about the keyed timers of a session or an HTTP client, for any   *)
(* keys, any timeouts and any number of calls: while a key is set, the     *)
(* last word the reactor has from the handler is a timeout that is not     *)
(* later than the earliest key.                                            *)
(***************************************************************************)
EXTENDS SessionTimers, SequenceTheorems, WellFoundedInduction, TLAPS

-----------------------------------------------------------------------------
\* What the reactor is told, and what it keeps of it.
Asking == [event : {"TIMEOUT_ADD"}, msec : Nat, due : Nat]
Kept == [msec : Nat, due : Nat, time : Nat]

\* Every key has a bucket at its time, so that the first bucket is not later than any
\* key; the other direction, that a bucket holds only such keys, is not needed here.
KeysFiled ==
    \A key \in DOMAIN object_time_ :
      /\ object_time_[key] \in DOMAIN time_object_
      /\ key \in time_object_[object_time_[key]]

SessionTypeOK ==
    /\ clock \in Nat /\ DOMAIN time_object_ \subseteq Nat
    /\ events \in Seq(Asking \cup {TimeoutDel})
    /\ reactor \in Kept \cup {None}

SessionInv == SessionTypeOK /\ KeysFiled /\ Covered

\* The deadlines whose distance in milliseconds an int32_t count tells from one ahead:
\* no key is late by 2^31 ms (24.8 days) or more.
NotLate == \A t \in DOMAIN time_object_ : clock - t < Int32Half * TicksPerMs

-----------------------------------------------------------------------------
\* The answer of get_min_timeout_milliseconds.

LEMMA TicksAre ==
    ASSUME NEW m \in Nat PROVE m * TicksPerMs \in Nat
  <1>1. \A a, b \in Nat : a * b \in Nat
    OBVIOUS
  <1>2. QED
    BY <1>1, TimerConstants

LEMMA MsecsAre == Msecs \subseteq Nat
  <1>1. 2 * Int32Half - 1 \in Int
    BY TimerConstants
  <1>2. QED
    BY <1>1, TimerConstants

\* The whole milliseconds of a time ahead do not reach past it, nor do they once they
\* are cut to an int32_t.
LEMMA CutAhead ==
    ASSUME NEW x \in Nat
    PROVE  /\ DurationMs(x) \in Nat /\ DurationMs(x) * TicksPerMs <= x
           /\ ToInt32(DurationMs(x)) \in Int /\ ToInt32(DurationMs(x)) <= DurationMs(x)
  <1>1. TicksPerMs \in Nat \ {0} /\ Int32Half \in Nat \ {0}
    BY TimerConstants
  <1> DEFINE d == x \div TicksPerMs
  <1>2. \A a \in Nat, b \in Nat \ {0} : a \div b \in Nat /\ (a \div b) * b <= a
    OBVIOUS
  <1>3. d \in Nat /\ d * TicksPerMs <= x /\ DurationMs(x) = d
    BY <1>1, <1>2 DEF DurationMs
  <1>4. \A a \in Nat, b \in Nat \ {0} : a % b \in Nat /\ a % b <= a
    OBVIOUS
  <1> HIDE DEF d
  <1>5. d + Int32Half \in Nat /\ 2 * Int32Half \in Nat \ {0}
    BY <1>1, <1>3
  <1>6. (d + Int32Half) % (2 * Int32Half) \in Nat /\ (d + Int32Half) % (2 * Int32Half) <= d + Int32Half
    BY <1>4, <1>5
  <1>7. ToInt32(d) \in Int /\ ToInt32(d) <= d
    BY <1>1, <1>3, <1>6 DEF ToInt32
  <1>8. QED
    BY <1>3, <1>7

\* A time that is past by less than 2^31 ms reads as none.
LEMMA CutPast ==
    ASSUME NEW x \in Nat, x < Int32Half * TicksPerMs
    PROVE  ToInt32(DurationMs(-x)) \in Int /\ ToInt32(DurationMs(-x)) <= 0
  <1>1. TicksPerMs \in Nat \ {0} /\ Int32Half \in Nat \ {0}
    BY TimerConstants
  <1>2. CASE x = 0
    <2>1. -x \in Nat /\ DurationMs(-x) \in Nat /\ DurationMs(-x) * TicksPerMs <= 0
      BY <1>2, CutAhead
    <2>2. \A a \in Nat, b \in Nat \ {0} : a * b <= 0 => a = 0
      OBVIOUS
    <2>3. DurationMs(-x) = 0
      BY <1>1, <2>1, <2>2
    <2>4. QED
      BY <2>1, <2>3, CutAhead
  <1>3. CASE x # 0
    <2> DEFINE d == x \div TicksPerMs
    <2>1. ~(-x >= 0) /\ -(-x) = x
      BY <1>3
    <2>2. DurationMs(-x) = -d
      BY <2>1 DEF DurationMs
    <2>3. \A a \in Nat, b \in Nat \ {0} : a \div b \in Nat /\ (a \div b) * b <= a
      OBVIOUS
    <2>4. d \in Nat /\ d * TicksPerMs <= x
      BY <1>1, <2>3
    <2>5. \A a, b, c \in Nat : a <= b => a * c <= b * c
      OBVIOUS
    <2> HIDE DEF d
    <2>6. d < Int32Half
      <3>1. Int32Half <= d => Int32Half * TicksPerMs <= d * TicksPerMs
        BY <1>1, <2>4, <2>5
      <3>2. Int32Half * TicksPerMs \in Nat /\ d * TicksPerMs \in Nat
        BY <1>1, <2>4, TicksAre
      <3>3. QED
        BY <1>1, <2>4, <3>1, <3>2
    <2>7. \A a \in Nat, b \in Nat \ {0} : a < b => a % b = a
      OBVIOUS
    <2>8. -d + Int32Half \in Nat /\ 2 * Int32Half \in Nat \ {0} /\ -d + Int32Half < 2 * Int32Half
      BY <1>1, <2>4, <2>6
    <2>9. ToInt32(-d) = -d
      BY <1>1, <2>4, <2>7, <2>8 DEF ToInt32
    <2>10. QED
      BY <2>2, <2>4, <2>9
  <1>4. QED
    BY <1>2, <1>3

LEMMA FirstIs ==
    ASSUME DOMAIN time_object_ \subseteq Nat, DOMAIN time_object_ # {}
    PROVE  First \in DOMAIN time_object_ /\ \A u \in DOMAIN time_object_ : First <= u
  <1> DEFINE Smaller == {p \in Nat \X Nat : p[1] < p[2]}
  <1>1. IsWellFoundedOn(Smaller, Nat)
    BY NatLessThanWellFounded DEF OpToRel
  <1>2. PICK t \in DOMAIN time_object_ : \A u \in DOMAIN time_object_ : ~(<<u, t>> \in Smaller)
    <2> HIDE DEF Smaller
    <2>1. QED
      BY <1>1, WFMin
  <1>3. ASSUME NEW u \in DOMAIN time_object_ PROVE t <= u
    <2>1. t \in Nat /\ u \in Nat
      OBVIOUS
    <2>2. u < t => <<u, t>> \in Smaller
      BY <2>1
    <2>3. QED
      BY <1>2, <2>1, <2>2
  <1>4. IsFirst(t)
    BY <1>3 DEF IsFirst
  <1>5. IsFirst(First)
    BY <1>4 DEF First
  <1>6. QED
    BY <1>5 DEF IsFirst

\* With a key set, the reactor is asked for a timeout at once or for one that is not
\* later than the first bucket.
MinInTime ==
    clock \in Nat /\ DOMAIN time_object_ \subseteq Nat /\ DOMAIN time_object_ # {} /\ NotLate =>
      /\ First \in DOMAIN time_object_ /\ \A u \in DOMAIN time_object_ : First <= u
      /\ get_min_timeout_milliseconds \in Nat
      /\ \/ get_min_timeout_milliseconds = 0
         \/ clock + get_min_timeout_milliseconds * TicksPerMs <= First

LEMMA MinCovers == MinInTime
  <1> SUFFICES ASSUME clock \in Nat, DOMAIN time_object_ \subseteq Nat, DOMAIN time_object_ # {}, NotLate
               PROVE  /\ First \in DOMAIN time_object_ /\ \A u \in DOMAIN time_object_ : First <= u
                      /\ get_min_timeout_milliseconds \in Nat
                      /\ \/ get_min_timeout_milliseconds = 0
                         \/ clock + get_min_timeout_milliseconds * TicksPerMs <= First
    BY DEF MinInTime
  <1>1. First \in DOMAIN time_object_ /\ \A u \in DOMAIN time_object_ : First <= u
    BY FirstIs
  <1>2. First \in Nat /\ clock - First < Int32Half * TicksPerMs
    BY <1>1 DEF NotLate
  <1> DEFINE x == First - clock
             n == ToInt32(DurationMs(x))
             min == get_min_timeout_milliseconds
  <1>3. min = IF n <= 0 THEN 0 ELSE n
    BY DEF get_min_timeout_milliseconds
  <1>4. CASE x >= 0
    <2>1. x \in Nat /\ clock + x = First
      BY <1>2, <1>4
    <2> DEFINE d == DurationMs(x)
    <2> HIDE DEF x
    <2>2. d \in Nat /\ d * TicksPerMs <= x /\ n \in Int /\ n <= d
      BY <2>1, CutAhead
    <2> HIDE DEF d, n, min
    <2>3. min \in Nat /\ min <= d
      BY <1>3, <2>2
    <2>4. \A a, b, c \in Nat : a <= b => a * c <= b * c
      OBVIOUS
    <2>5. min * TicksPerMs <= d * TicksPerMs
      BY <2>2, <2>3, <2>4, TimerConstants
    <2>6. min * TicksPerMs \in Nat /\ d * TicksPerMs \in Nat
      BY <2>2, <2>3, TicksAre
    <2>7. clock + min * TicksPerMs <= First
      BY <2>1, <2>2, <2>5, <2>6
    <2>8. QED
      BY <1>1, <2>3, <2>7 DEF min
  <1>5. CASE ~(x >= 0)
    <2> DEFINE y == clock - First
    <2>1. y \in Nat /\ x = -y /\ y < Int32Half * TicksPerMs
      BY <1>2, <1>5
    <2> HIDE DEF y, x
    <2>2. n \in Int /\ n <= 0
      BY <2>1, CutPast
    <2>3. min = 0
      BY <1>3, <2>2
    <2>4. QED
      BY <1>1, <2>3
  <1>6. QED
    BY <1>4, <1>5

LEMMA MinCoversNext == MinInTime'
  BY MinCovers, PTL

-----------------------------------------------------------------------------
\* The two maps of the timer.

\* Taking a key out: the buckets left are among those before, and hold the other keys.
LEMMA WithoutIs ==
    ASSUME KeysFiled, NEW key
    PROVE  /\ DOMAIN BucketsWithout(key) \subseteq DOMAIN time_object_
           /\ \A other \in DOMAIN object_time_ \ {key} :
                /\ object_time_[other] \in DOMAIN BucketsWithout(key)
                /\ other \in BucketsWithout(key)[object_time_[other]]
  <1>1. CASE key \notin DOMAIN object_time_
    BY <1>1 DEF BucketsWithout, KeysFiled
  <1>2. CASE key \in DOMAIN object_time_
    <2> DEFINE t == object_time_[key]
               left == time_object_[t] \ {key}
    <2>1. t \in DOMAIN time_object_
      BY <1>2 DEF KeysFiled
    <2>2. CASE left = {}
      <3>1. BucketsWithout(key) = [u \in DOMAIN time_object_ \ {t} |-> time_object_[u]]
        BY <1>2, <2>2 DEF BucketsWithout, Restrict
      <3>2. \A other \in DOMAIN object_time_ \ {key} : object_time_[other] # t
        BY <2>2 DEF KeysFiled
      <3>3. QED
        BY <3>1, <3>2 DEF KeysFiled
    <2>3. CASE left # {}
      <3>1. BucketsWithout(key) = [time_object_ EXCEPT ![t] = left]
        BY <1>2, <2>3 DEF BucketsWithout
      <3>2. QED
        BY <2>1, <3>1 DEF KeysFiled
    <2>4. QED
      BY <2>2, <2>3
  <1>3. QED
    BY <1>1, <1>2

LEMMA RegisterFiles ==
    ASSUME SessionTypeOK, KeysFiled, NEW key, NEW m \in Msecs, RegisterTimeout(key, m)
    PROVE  /\ clock' = clock /\ DOMAIN time_object_' \subseteq Nat /\ KeysFiled'
           /\ DOMAIN time_object_' # {}
  <1> DEFINE t == DueTime(m)
             buckets == BucketsWithout(key)
             bucket == IF t \in DOMAIN buckets THEN buckets[t] ELSE {}
  <1>1. /\ object_time_' = [p \in DOMAIN object_time_ \cup {key} |->
                              IF p = key THEN t ELSE object_time_[p]]
        /\ time_object_' = [u \in DOMAIN buckets \cup {t} |->
                              IF u = t THEN bucket \cup {key} ELSE buckets[u]]
        /\ clock' = clock
    BY DEF RegisterTimeout
  <1>2. t \in Nat
    BY MsecsAre, TicksAre DEF DueTime, SessionTypeOK
  <1>3. /\ DOMAIN buckets \subseteq DOMAIN time_object_
        /\ \A other \in DOMAIN object_time_ \ {key} :
             object_time_[other] \in DOMAIN buckets /\ other \in buckets[object_time_[other]]
    BY WithoutIs
  <1> HIDE DEF t, buckets
  <1>4. DOMAIN time_object_' = DOMAIN buckets \cup {t}
    BY <1>1
  <1>5. ASSUME NEW p \in DOMAIN object_time_'
        PROVE  object_time_'[p] \in DOMAIN time_object_' /\ p \in time_object_'[object_time_'[p]]
    <2>1. CASE p = key
      BY <1>1, <1>4, <2>1
    <2>2. CASE p # key
      <3>1. p \in DOMAIN object_time_ \ {key} /\ object_time_'[p] = object_time_[p]
        BY <1>1, <1>5, <2>2
      <3>2. object_time_[p] \in DOMAIN buckets /\ p \in buckets[object_time_[p]]
        BY <1>3, <3>1
      <3>3. QED
        BY <1>1, <1>4, <3>1, <3>2
    <2>3. QED
      BY <2>1, <2>2
  <1>6. KeysFiled'
    BY <1>5 DEF KeysFiled
  <1>7. QED
    BY <1>1, <1>2, <1>3, <1>4, <1>6 DEF SessionTypeOK

LEMMA RemoveFiles ==
    ASSUME SessionTypeOK, KeysFiled, NEW key, RemoveTimeout(key)
    PROVE  /\ clock' = clock /\ DOMAIN time_object_' \subseteq DOMAIN time_object_ /\ KeysFiled'
           /\ DOMAIN object_time_' \subseteq DOMAIN object_time_
  <1>1. /\ time_object_' = BucketsWithout(key) /\ clock' = clock
        /\ object_time_' = [p \in DOMAIN object_time_ \ {key} |-> object_time_[p]]
    <2>1. DOMAIN object_time_ \ (DOMAIN object_time_ \ {key}) \subseteq {key}
      OBVIOUS
    <2>2. QED
      BY DEF RemoveTimeout, TimesWithout, Restrict
  <1>2. QED
    BY <1>1, WithoutIs DEF KeysFiled

LEMMA ExtractFiles ==
    ASSUME SessionTypeOK, KeysFiled, ExtractBucket
    PROVE  /\ clock' = clock /\ DOMAIN time_object_' \subseteq DOMAIN time_object_ /\ KeysFiled'
  <1>1. PICK t \in DOMAIN time_object_ :
          /\ object_time_' = [p \in DOMAIN object_time_ \ time_object_[t] |-> object_time_[p]]
          /\ time_object_' = [u \in DOMAIN time_object_ \ {t} |-> time_object_[u]]
    BY DEF ExtractBucket, TimesWithout, Restrict
  <1>2. clock' = clock
    BY DEF ExtractBucket
  <1>3. ASSUME NEW p \in DOMAIN object_time_'
        PROVE  object_time_'[p] \in DOMAIN time_object_' /\ p \in time_object_'[object_time_'[p]]
    <2>1. p \in DOMAIN object_time_ /\ p \notin time_object_[t] /\ object_time_'[p] = object_time_[p]
      BY <1>1, <1>3
    <2>2. object_time_[p] \in DOMAIN time_object_ /\ p \in time_object_[object_time_[p]]
      BY <2>1 DEF KeysFiled
    <2>3. object_time_[p] # t
      BY <2>1, <2>2
    <2>4. QED
      BY <1>1, <2>1, <2>2, <2>3
  <1>4. QED
    BY <1>1, <1>2, <1>3 DEF KeysFiled

-----------------------------------------------------------------------------
\* The last word to the reactor.

Asked == Asking \cup {TimeoutDel}

LEMMA AddIs ==
    ASSUME clock \in Nat, NEW m \in Nat
    PROVE  /\ TimeoutAdd(m) \in Asking /\ TimeoutAdd(m) # None /\ TimeoutAdd(m) # TimeoutDel
           /\ TimeoutAdd(m).msec = m /\ TimeoutAdd(m).due = clock + m * TicksPerMs
  <1>1. clock + m * TicksPerMs \in Nat
    BY TicksAre
  <1>2. /\ TimeoutAdd(m) \in Asking
        /\ TimeoutAdd(m).msec = m /\ TimeoutAdd(m).due = clock + m * TicksPerMs
        /\ TimeoutAdd(m).event = "TIMEOUT_ADD"
    BY <1>1 DEF TimeoutAdd, Asking
  <1>3. TimeoutDel.event = "TIMEOUT_DEL"
    BY DEF TimeoutDel
  <1>4. TimeoutAdd(m) # None
    BY <1>2, SessionConstants DEF Asking
  <1>5. QED
    BY <1>2, <1>3, <1>4

LEMMA OneMore ==
    ASSUME events \in Seq(Asked), NEW e \in Asked
    PROVE  /\ events \o <<e>> \in Seq(Asked) /\ events \o <<e>> # <<>>
           /\ (events \o <<e>>)[Len(events \o <<e>>)] = e
  <1>1. events \o <<e>> = Append(events, e)
    BY AppendIsConcat
  <1>2. Append(events, e) \in Seq(Asked) /\ Len(Append(events, e)) = Len(events) + 1
        /\ Append(events, e)[Len(events) + 1] = e /\ Len(events) \in Nat
    BY AppendProperties
  <1>3. QED
    BY <1>1, <1>2

LEMMA InitSession == ASSUME Init PROVE SessionInv
  <1>1. clock = 0 /\ DOMAIN time_object_ = {} /\ DOMAIN object_time_ = {}
    BY DEF Init, TimerInit
  <1>2. QED
    BY <1>1 DEF Init, SessionInv, SessionTypeOK, KeysFiled, Covered

\* A call of the session files its keys and, within a callback, has the last word.
LEMMA CallKeeps ==
    ASSUME SessionInv, NotLate', SessionCall, UNCHANGED <<pc, reactor>>
    PROVE  SessionInv'
  <1>1. SessionTypeOK /\ KeysFiled /\ Covered /\ events \in Seq(Asked)
    BY DEF SessionInv, SessionTypeOK, Asked
  <1>2. PICK key \in Objects : unset_timeout(key) \/ \E m \in Msecs : set_timeout(m, key)
    BY DEF SessionCall
  <1>3. ASSUME clock' = clock, DOMAIN time_object_' \subseteq Nat, DOMAIN time_object_' # {}, KeysFiled',
               events' = events \o <<TimeoutAdd(get_min_timeout_milliseconds')>>
        PROVE  SessionInv'
    <2> DEFINE min == get_min_timeout_milliseconds'
               e == TimeoutAdd(min)
    <2>1. /\ First' \in DOMAIN time_object_' /\ min \in Nat
          /\ min = 0 \/ clock' + min * TicksPerMs <= First'
      BY <1>1, <1>3, MinCoversNext DEF MinInTime, SessionTypeOK
    <2> HIDE DEF min
    <2>2. /\ e \in Asking /\ e # None /\ e # TimeoutDel
          /\ e.msec = min /\ e.due = clock + min * TicksPerMs
      BY <1>1, <2>1, AddIs DEF SessionTypeOK
    <2> HIDE DEF e
    <2>3. events' \in Seq(Asked) /\ events' # <<>> /\ events'[Len(events')] = e
      BY <1>1, <1>3, <2>2, OneMore DEF Asked, e, min
    <2>4. TimeoutDel' = TimeoutDel
      BY DEF TimeoutDel
    <2>5. Covered'
      BY <1>3, <2>1, <2>2, <2>3, <2>4 DEF Covered
    <2>6. QED
      BY <1>1, <1>3, <2>3, <2>4, <2>5 DEF SessionInv, SessionTypeOK, Asked
  <1>4. ASSUME NEW m \in Msecs, set_timeout(m, key) PROVE SessionInv'
    <2>1. /\ clock' = clock /\ DOMAIN time_object_' \subseteq Nat /\ KeysFiled'
          /\ DOMAIN time_object_' # {}
      BY <1>1, <1>4, RegisterFiles DEF set_timeout
    <2>2. events' = events \o <<TimeoutAdd(get_min_timeout_milliseconds')>>
      BY <1>4 DEF set_timeout, AskEarliest
    <2>3. QED
      BY <1>3, <2>1, <2>2
  <1>5. CASE RemoveTimeout(key) /\ events' = events
    <2>1. /\ clock' = clock /\ DOMAIN time_object_' \subseteq DOMAIN time_object_ /\ KeysFiled'
          /\ DOMAIN object_time_' \subseteq DOMAIN object_time_
      BY <1>1, <1>5, RemoveFiles
    <2>2. ASSUME pc = "loop", DOMAIN object_time_' # {}
          PROVE  First \in Nat /\ First' \in Nat /\ First <= First'
      <3>1. DOMAIN time_object_' # {} /\ DOMAIN time_object_ # {}
        BY <2>1, <2>2 DEF KeysFiled
      <3>2. First' \in DOMAIN time_object_'
        BY <1>1, <2>1, <3>1, MinCoversNext DEF MinInTime, SessionTypeOK
      <3>3. First \in DOMAIN time_object_ /\ \A u \in DOMAIN time_object_ : First <= u
        BY <1>1, <3>1, FirstIs DEF SessionTypeOK
      <3>4. QED
        BY <1>1, <2>1, <3>2, <3>3 DEF SessionTypeOK
    <2>3. Covered'
      <3> SUFFICES ASSUME pc = "loop", DOMAIN object_time_' # {}
                   PROVE  LET last == IF events = <<>> THEN reactor ELSE events[Len(events)]
                          IN  last # None /\ last # TimeoutDel /\ (last.msec = 0 \/ last.due <= First')
        BY <1>5 DEF Covered, TimeoutDel
      <3> DEFINE last == IF events = <<>> THEN reactor ELSE events[Len(events)]
      <3>1. last # None /\ last # TimeoutDel /\ (last.msec = 0 \/ last.due <= First)
        BY <1>1, <2>1 DEF Covered
      <3>2. last \in Asked \cup Kept \cup {None}
        <4>1. events # <<>> => Len(events) \in DOMAIN events
          BY <1>1
        <4>2. QED
          BY <1>1, <4>1 DEF SessionTypeOK
      <3>3. last.due \in Nat
        BY <3>1, <3>2 DEF Asked, Asking, Kept
      <3> HIDE DEF last
      <3>4. QED
        BY <2>2, <3>1, <3>3 DEF last
    <2>4. QED
      BY <1>1, <1>5, <2>1, <2>3 DEF SessionInv, SessionTypeOK, TimeoutDel
  <1>6. CASE RemoveTimeout(key) /\ events' = events \o AskAfterUnset
    <2>1. /\ clock' = clock /\ DOMAIN time_object_' \subseteq DOMAIN time_object_ /\ KeysFiled'
      BY <1>1, <1>6, RemoveFiles
    <2>2. CASE DOMAIN time_object_' = {}
      <3>1. events' = events \o <<TimeoutDel>> /\ DOMAIN object_time_' = {}
        BY <1>6, <2>1, <2>2 DEF AskAfterUnset, KeysFiled
      <3>2. events' \in Seq(Asked)
        BY <1>1, <3>1, OneMore DEF Asked
      <3>3. QED
        BY <1>1, <2>1, <3>1, <3>2 DEF SessionInv, SessionTypeOK, Covered, Asked, TimeoutDel
    <2>3. CASE DOMAIN time_object_' # {}
      BY <1>1, <1>3, <1>6, <2>1, <2>3 DEF AskAfterUnset, SessionTypeOK
    <2>4. QED
      BY <2>2, <2>3
  <1>7. CASE UNCHANGED <<timer_vars, events>>
    BY <1>1, <1>7
    DEF SessionInv, SessionTypeOK, KeysFiled, Covered, timer_vars, First, IsFirst, TimeoutDel
  <1>8. QED
    BY <1>2, <1>4, <1>5, <1>6, <1>7 DEF unset_timeout

LEMMA DispatchKeeps == ASSUME SessionInv, Dispatch PROVE SessionInv'
  <1>1. /\ SessionTypeOK /\ KeysFiled /\ Covered /\ events \in Seq(Asked)
        /\ events # <<>> /\ events' = Tail(events) /\ pc = "loop"
        /\ UNCHANGED <<clock, time_object_, object_time_, pc>>
    BY DEF SessionInv, SessionTypeOK, Asked, Dispatch, timer_vars
  <1> DEFINE e == Head(events)
  <1>2. e \in Asked /\ e = events[1] /\ Len(events) \in Nat /\ Len(events) > 0
    BY <1>1, HeadTailProperties
  <1>3. /\ Tail(events) \in Seq(Asked) /\ Len(Tail(events)) = Len(events) - 1
        /\ \A i \in 1 .. Len(events) - 1 : Tail(events)[i] = events[i + 1]
    BY <1>1, HeadTailProperties
  <1>4. reactor' = IF e.event = "TIMEOUT_DEL" THEN None
                   ELSE [msec |-> e.msec, due |-> e.due, time |-> DueTime(e.msec)]
    BY DEF Dispatch
  <1> HIDE DEF e
  <1>5. ASSUME e # TimeoutDel
        PROVE  /\ reactor' \in Kept /\ reactor' # None /\ reactor' # TimeoutDel
               /\ reactor'.msec = e.msec /\ reactor'.due = e.due
    <2>1. e \in Asking
      BY <1>2, <1>5 DEF Asked
    <2>2. e.event = "TIMEOUT_ADD" /\ e.msec \in Nat /\ e.due \in Nat
      BY <2>1 DEF Asking
    <2>3. DueTime(e.msec) \in Nat
      <3>1. e.msec * TicksPerMs \in Nat /\ clock \in Nat
        BY <1>1, <2>2, TicksAre DEF SessionTypeOK
      <3>2. QED
        BY <3>1 DEF DueTime
    <2>4. reactor' = [msec |-> e.msec, due |-> e.due, time |-> DueTime(e.msec)]
      BY <1>4, <2>2
    <2>5. /\ reactor' \in Kept /\ reactor'.msec = e.msec /\ reactor'.due = e.due
          /\ "msec" \in DOMAIN reactor' /\ "msec" \notin DOMAIN TimeoutDel
      BY <2>2, <2>3, <2>4 DEF Kept, TimeoutDel
    <2>6. QED
      BY <2>5, SessionConstants DEF Kept
  <1>6. e = TimeoutDel => reactor' = None
    BY <1>4 DEF TimeoutDel
  <1>7. SessionTypeOK'
    BY <1>1, <1>3, <1>5, <1>6 DEF SessionTypeOK, Asked, TimeoutDel
  <1>8. First' = First
    BY <1>1 DEF First, IsFirst
  <1>9. Covered'
    <2> SUFFICES ASSUME DOMAIN object_time_ # {}
                 PROVE  LET last == IF events' = <<>> THEN reactor' ELSE events'[Len(events')]
                        IN  last # None /\ last # TimeoutDel /\ (last.msec = 0 \/ last.due <= First)
      BY <1>1, <1>8 DEF Covered, TimeoutDel
    <2> DEFINE word == events[Len(events)]
    <2>1. word # None /\ word # TimeoutDel /\ (word.msec = 0 \/ word.due <= First)
      BY <1>1 DEF Covered
    <2>2. CASE Len(events) = 1
      <3>1. events' = <<>> /\ word = e
        BY <1>1, <1>2, <1>3, <2>2, EmptySeq
      <3>2. QED
        BY <1>5, <2>1, <3>1
    <2>3. CASE Len(events) # 1
      <3>1. \A n \in Nat : n > 0 /\ n # 1 => n - 1 \in 1 .. n - 1 /\ (n - 1) + 1 = n /\ n - 1 # 0
        OBVIOUS
      <3>2. /\ Len(events) - 1 \in 1 .. Len(events) - 1 /\ (Len(events) - 1) + 1 = Len(events)
            /\ Len(events) - 1 # 0
        BY <1>2, <2>3, <3>1
      <3>3. Tail(events)[Len(events) - 1] = word
        BY <1>3, <3>2
      <3>4. events' # <<>> /\ events'[Len(events')] = word
        BY <1>1, <1>3, <3>2, <3>3
      <3>5. QED
        BY <2>1, <3>4
    <2>4. QED
      BY <2>2, <2>3
  <1>10. KeysFiled'
    BY <1>1 DEF KeysFiled
  <1>11. QED
    BY <1>7, <1>9, <1>10 DEF SessionInv

\* handle_timeout() ends with the question for the next key.
LEMMA TopKeeps == ASSUME SessionInv, NotLate, HandleTop PROVE SessionInv'
  <1>1. /\ SessionTypeOK /\ KeysFiled /\ Covered /\ events \in Seq(Asked) /\ reactor' = reactor
        /\ UNCHANGED <<clock, time_object_, object_time_>>
    BY DEF SessionInv, SessionTypeOK, Asked, HandleTop, ExtractBegin, timer_vars
  <1> DEFINE min == get_min_timeout_milliseconds
  <1>2. CASE pc' # "loop" /\ events' = events
    BY <1>1, <1>2 DEF SessionInv, SessionTypeOK, KeysFiled, Covered, TimeoutDel
  <1>3. CASE min # 0 /\ events' = events \o AskAgain(min) /\ pc' = "loop"
    <2>1. First' = First
      BY <1>1 DEF First, IsFirst
    <2>2. CASE DOMAIN time_object_ = {}
      <3>1. min = -1
        BY <2>2 DEF get_min_timeout_milliseconds
      <3>2. AskAgain(min) = <<>>
        BY <3>1 DEF AskAgain
      <3>3. events' = events
        BY <1>1, <1>3, <3>2
      <3>4. DOMAIN object_time_' = {}
        BY <1>1, <2>2 DEF KeysFiled
      <3>5. QED
        BY <1>1, <3>3, <3>4 DEF SessionInv, SessionTypeOK, KeysFiled, Covered, TimeoutDel
    <2>3. CASE DOMAIN time_object_ # {}
      <3>1. min \in Nat /\ (min = 0 \/ clock + min * TicksPerMs <= First)
        BY <1>1, <2>3, MinCovers DEF MinInTime, SessionTypeOK
      <3> DEFINE e == TimeoutAdd(min)
      <3> HIDE DEF min
      <3>2. /\ e \in Asking /\ e # None /\ e # TimeoutDel
            /\ e.msec = min /\ e.due = clock + min * TicksPerMs
        BY <1>1, <3>1, AddIs DEF SessionTypeOK
      <3>3. events' = events \o <<e>>
        BY <1>3, <3>1 DEF AskAgain
      <3> HIDE DEF e
      <3>4. events' \in Seq(Asked) /\ events' # <<>> /\ events'[Len(events')] = e
        BY <1>1, <3>2, <3>3, OneMore DEF Asked
      <3>5. QED
        BY <1>1, <1>3, <2>1, <3>1, <3>2, <3>4
        DEF SessionInv, SessionTypeOK, KeysFiled, Covered, Asked, TimeoutDel
    <2>4. QED
      BY <2>2, <2>3
  <1>4. QED
    BY <1>2, <1>3 DEF HandleTop

LEMMA OtherKeeps ==
    ASSUME SessionInv, Fire \/ HandleSweep \/ (\E key \in Objects : HandleKey(key)) \/ KeysDone \/ Time
    PROVE  SessionInv'
  <1>1. SessionTypeOK /\ KeysFiled /\ Covered
    BY DEF SessionInv
  <1>2. CASE Fire
    BY <1>1, <1>2 DEF SessionInv, SessionTypeOK, KeysFiled, Covered, Fire, timer_vars, TimeoutDel
  <1>3. CASE HandleSweep
    <2>1. pc' # "loop" /\ events' = events /\ reactor' = reactor
      BY <1>3 DEF HandleSweep
    <2>2. clock' = clock /\ DOMAIN time_object_' \subseteq DOMAIN time_object_ /\ KeysFiled'
      <3>1. CASE ExtractBucket
        BY <1>1, <3>1, ExtractFiles
      <3>2. CASE ExtractEnd
        BY <1>1, <3>2 DEF ExtractEnd, KeysFiled
      <3>3. QED
        BY <1>3, <3>1, <3>2 DEF HandleSweep
    <2>3. QED
      BY <1>1, <2>1, <2>2 DEF SessionInv, SessionTypeOK, Covered, TimeoutDel
  <1>4. CASE (\E key \in Objects : HandleKey(key)) \/ KeysDone
    <2>1. pc' # "loop" /\ UNCHANGED <<clock, time_object_, object_time_, events, reactor>>
      BY <1>4 DEF HandleKey, KeysDone, timer_vars
    <2>2. QED
      BY <1>1, <2>1 DEF SessionInv, SessionTypeOK, KeysFiled, Covered, TimeoutDel
  <1>5. CASE Time
    <2>1. clock' = clock + 1 /\ UNCHANGED <<time_object_, object_time_, events, reactor, pc>>
      BY <1>5 DEF Time, Advance
    <2>2. First' = First
      BY <2>1 DEF First, IsFirst
    <2>3. QED
      BY <1>1, <2>1, <2>2 DEF SessionInv, SessionTypeOK, KeysFiled, Covered, TimeoutDel
  <1>6. QED
    BY <1>2, <1>3, <1>4, <1>5

\* While a session or a client has a key, the last word the reactor had or will have
\* from it is a timeout at once or no later than the earliest key, however its calls of
\* set_timeout and unset_timeout, in callbacks and in handle_timeout(key), the dispatch
\* of its requests and the passing of time follow each other.  No key may be late by
\* 2^31 ms: its distance would read as a time ahead.
THEOREM KeysCovered == Spec /\ []NotLate => []Covered
  <1>1. Init => SessionInv
    BY InitSession
  <1>2. SessionInv /\ NotLate /\ NotLate' /\ [Next]_vars => SessionInv'
    <2> SUFFICES ASSUME SessionInv, NotLate, NotLate', [Next]_vars PROVE SessionInv'
      OBVIOUS
    <2>1. CASE Callback \/ KeyCallback
      BY <2>1, CallKeeps DEF Callback, KeyCallback
    <2>2. CASE Dispatch
      BY <2>2, DispatchKeeps
    <2>3. CASE HandleTop
      BY <2>3, TopKeeps
    <2>4. CASE Fire \/ HandleSweep \/ (\E key \in Objects : HandleKey(key)) \/ KeysDone \/ Time
      BY <2>4, OtherKeeps
    <2>5. CASE UNCHANGED vars
      BY <2>5 DEF vars, timer_vars, SessionInv, SessionTypeOK, KeysFiled, Covered, First, IsFirst, TimeoutDel
    <2>6. QED
      BY <2>1, <2>2, <2>3, <2>4, <2>5 DEF Next, ReactorThread
  <1>3. SessionInv => Covered
    BY DEF SessionInv
  <1>4. QED
    BY <1>1, <1>2, <1>3, PTL DEF Spec
=============================================================================
