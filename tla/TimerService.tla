---------------------------- MODULE TimerService ----------------------------
(***************************************************************************)
(* What a timer of the reactor promises, with one map instead of the two   *)
(* ObjectsTimer keeps: every armed object has one deadline, arming again   *)
(* replaces it, and the objects whose deadline has come are handed out     *)
(* once, all objects of the earliest deadline together.                    *)
(***************************************************************************)
EXTENDS Integers, Sequences

CONSTANTS Objects,     \* what can be armed: event handlers, or timer keys
          Msecs,       \* the millisecond arguments callers pass
          TicksPerMs   \* clock ticks per millisecond (nanoseconds in the code)

VARIABLES clock,       \* the steady clock, in ticks
          deadline,    \* armed object -> time at which it is due
          sweeping,    \* a sweep for due objects is under way
          handed_out   \* the groups of objects handed out by the last sweep

svars == <<clock, deadline, sweeping, handed_out>>

\* The clock is cut to whole milliseconds: due means less than 1 ms left.
Due(t) == t - clock < TicksPerMs

Arm(o, msec) ==
    /\ ~sweeping
    /\ deadline' = [p \in DOMAIN deadline \cup {o} |->
                      IF p = o THEN clock + msec * TicksPerMs ELSE deadline[p]]
    /\ UNCHANGED <<clock, sweeping, handed_out>>

Disarm(o) ==
    /\ ~sweeping
    /\ deadline' = [p \in DOMAIN deadline \ {o} |-> deadline[p]]
    /\ UNCHANGED <<clock, sweeping, handed_out>>

SweepBegin ==
    /\ ~sweeping
    /\ sweeping' = TRUE
    /\ handed_out' = <<>>
    /\ UNCHANGED <<clock, deadline>>

\* All objects of one due deadline leave together, the earliest one first.
HandOut ==
    /\ sweeping
    /\ \E o \in DOMAIN deadline :
         /\ Due(deadline[o])
         /\ \A p \in DOMAIN deadline : deadline[o] <= deadline[p]
         /\ LET group == {p \in DOMAIN deadline : deadline[p] = deadline[o]}
            IN /\ handed_out' = Append(handed_out, group)
               /\ deadline' = [p \in DOMAIN deadline \ group |-> deadline[p]]
    /\ UNCHANGED <<clock, sweeping>>

\* A sweep ends only when nothing due is left.
SweepEnd ==
    /\ sweeping
    /\ \A o \in DOMAIN deadline : ~Due(deadline[o])
    /\ sweeping' = FALSE
    /\ UNCHANGED <<clock, deadline, handed_out>>

\* The caller of a sweep calls what it was handed out, one object after the other.
Use ==
    /\ ~sweeping /\ handed_out # <<>>
    /\ \E o \in Head(handed_out) :
         handed_out' = IF Head(handed_out) = {o} THEN Tail(handed_out)
                       ELSE [handed_out EXCEPT ![1] = @ \ {o}]
    /\ UNCHANGED <<clock, deadline, sweeping>>

Pass == clock' > clock /\ UNCHANGED <<deadline, sweeping, handed_out>>

ServiceInit ==
    /\ deadline = [o \in {} |-> 0]
    /\ sweeping = FALSE
    /\ handed_out = <<>>

ServiceNext ==
    \/ \E o \in Objects, m \in Msecs : Arm(o, m)
    \/ \E o \in Objects : Disarm(o)
    \/ SweepBegin \/ HandOut \/ SweepEnd \/ Use
    \/ Pass

ServiceSpec == ServiceInit /\ [][ServiceNext]_svars
=============================================================================
