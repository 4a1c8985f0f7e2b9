------------------------------- MODULE AbsTimer -------------------------------
(***************************************************************************)
(* What aio/timer.h promises to the owner of a timer, seen from the        *)
(* owner's state machine: a started timer fires once, not before its       *)
(* interval is over, and never once it was asked to stop; a timer asked to *)
(* stop reports NN_TIMER_STOPPED, and only then may be started again.      *)
(***************************************************************************)
EXTENDS Naturals

CONSTANTS Timers,      \* the timers
          MaxTimeout   \* bound: longest interval, in clock ticks

ASSUME AbsTimerAssumption == MaxTimeout \in Nat

VARIABLES own,   \* what the owner knows of the timer
          left   \* ticks until the interval the owner asked for is over

absVars == <<own, left>>

OwnStates == {"idle", "running", "fired", "stopping"}

AbsTypeOK ==
    /\ own \in [Timers -> OwnStates]
    /\ left \in [Timers -> 0 .. MaxTimeout]

AbsInit ==
    /\ own = [t \in Timers |-> "idle"]
    /\ left = [t \in Timers |-> 0]

(* nn_timer_start, on an idle timer. *)
AbsStart(t, d) ==
    /\ own[t] = "idle"
    /\ own' = [own EXCEPT ![t] = "running"]
    /\ left' = [left EXCEPT ![t] = d]

(* The owner receives NN_TIMER_TIMEOUT. *)
AbsExpire(t) ==
    /\ own[t] = "running"
    /\ left[t] = 0
    /\ own' = [own EXCEPT ![t] = "fired"]
    /\ UNCHANGED left

(* nn_timer_stop. *)
AbsStop(t) ==
    /\ own[t] \in {"running", "fired"}
    /\ own' = [own EXCEPT ![t] = "stopping"]
    /\ UNCHANGED left

(* The owner receives NN_TIMER_STOPPED. *)
AbsStopped(t) ==
    /\ own[t] = "stopping"
    /\ own' = [own EXCEPT ![t] = "idle"]
    /\ UNCHANGED left

Elapse(f) == [t \in DOMAIN f |-> IF f[t] = 0 THEN 0 ELSE f[t] - 1]

AbsTick == left' = Elapse(left) /\ UNCHANGED own

AbsNext ==
    \/ \E t \in Timers : \/ \E d \in 0 .. MaxTimeout : AbsStart(t, d)
                         \/ AbsExpire(t)
                         \/ AbsStop(t)
                         \/ AbsStopped(t)
    \/ AbsTick

(* A running timer whose interval is over fires, and a stopping one stops. *)
AbsFairness ==
    \A t \in Timers : WF_absVars(AbsExpire(t)) /\ WF_absVars(AbsStopped(t))

AbsSafety == AbsInit /\ [][AbsNext]_absVars

AbsSpec == AbsSafety /\ AbsFairness
=============================================================================
