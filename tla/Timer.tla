--------------------------------- MODULE Timer ---------------------------------
(***************************************************************************)
(* The timers of aio/timer.c and the worker thread that runs them          *)
(* (aio/worker_posix.inc, aio/timerset.c). The owners' threads start and   *)
(* stop timers inside a critical section of their AIO context, posting a   *)
(* task to the worker; the worker keeps the ordered list of deadlines, and *)
(* feeds expirations and tasks to the timers, one critical section each.   *)
(*                                                                         *)
(* nn_timer.state and the state of its nn_fsm change together and are one  *)
(* variable. Deadlines are kept relative to the clock: a tick brings all   *)
(* of them one step closer, and 0 means due.                               *)
(***************************************************************************)
EXTENDS AbsTimer, Integers, SequencesExt

VARIABLES
    tstate,    \* nn_timer.state
    timeout,   \* nn_timer.timeout, -1 once the worker has taken it over
    tasks,     \* nn_worker.tasks, filled under nn_worker.sync
    efd,       \* nn_worker.efd is signalled
    timeouts,  \* nn_timerset.timeouts, ordered
    due,       \* ticks until the deadline of a timer in that list
    wpc,       \* where the worker thread is in nn_worker_routine
    events,    \* nn_poller_wait has reported the efd in this iteration
    batch,     \* the worker's local copy of the task queue
    hndl,      \* the timer popped from the list, fed next
    failed     \* an assertion of the code failed

workerVars == <<timeouts, due, wpc, events, batch, hndl>>
vars == <<own, left, tstate, timeout, tasks, efd, workerVars, failed>>

NoTimer == "none"
Quit == [timer |-> NoTimer, op |-> "quit"]   \* nn_worker.stop
Tasks == [timer : Timers, op : {"start", "stop"}] \cup {Quit}

ASSUME TimerAssumption == NoTimer \notin Timers

TypeOK ==
    /\ AbsTypeOK
    /\ tstate \in [Timers -> {"IDLE", "ACTIVE", "STOPPING"}]
    /\ timeout \in [Timers -> -1 .. MaxTimeout]
    /\ tasks \in Seq(Tasks)
    /\ efd \in BOOLEAN
    /\ timeouts \in Seq(Timers)
    /\ due \in [Timers -> 0 .. MaxTimeout]
    /\ wpc \in {"wait", "timers", "feed", "poll", "tasks", "done"}
    /\ events \in BOOLEAN
    /\ batch \in Seq(Tasks)
    /\ hndl \in Timers \cup {NoTimer}
    /\ failed \in BOOLEAN

Init ==
    /\ AbsInit
    /\ tstate = [t \in Timers |-> "IDLE"]
    /\ timeout = [t \in Timers |-> -1]
    /\ tasks = <<>>
    /\ efd = FALSE
    /\ timeouts = <<>>
    /\ due = [t \in Timers |-> 0]
    /\ wpc = "wait"
    /\ events = FALSE
    /\ batch = <<>>
    /\ hndl = NoTimer
    /\ failed = FALSE

Fails(bad) == failed' = (failed \/ bad)

-----------------------------------------------------------------------------
(* The owners. *)

(* nn_worker_execute. An item cannot be queued twice (utils/queue.c). *)
Execute(task, bad) ==
    /\ tasks' = Append(tasks, task)
    /\ efd' = TRUE
    /\ Fails(bad \/ task \in ToSet(tasks) \cup ToSet(batch))

Terminating == Quit \in ToSet(tasks) \cup ToSet(batch) \/ wpc = "done"

(* nn_timer_start: nn_fsm_start asserts that the timer is idle. *)
Start(t, d) ==
    /\ ~Terminating
    /\ AbsStart(t, d)
    /\ timeout' = [timeout EXCEPT ![t] = d]
    /\ tstate' = [tstate EXCEPT ![t] = "ACTIVE"]
    /\ Execute([timer |-> t, op |-> "start"], tstate[t] # "IDLE")
    /\ UNCHANGED workerVars

(* nn_timer_stop and the NN_FSM_STOP part of nn_timer_shutdown. *)
Stop(t) ==
    /\ AbsStop(t)
    /\ IF tstate[t] = "ACTIVE"
       THEN /\ tstate' = [tstate EXCEPT ![t] = "STOPPING"]
            /\ Execute([timer |-> t, op |-> "stop"], FALSE)
       ELSE UNCHANGED <<tstate, tasks, efd, failed>>
    /\ UNCHANGED <<timeout, workerVars>>

(* nn_worker_term, called once no timer is left (core/global.c:267-303). *)
Term ==
    /\ \A t \in Timers : own[t] = "idle"
    /\ ~Terminating
    /\ Execute(Quit, FALSE)
    /\ UNCHANGED <<own, left, tstate, timeout, workerVars>>

(* The clock. *)
Tick ==
    /\ AbsTick
    /\ due' = Elapse(due)
    /\ UNCHANGED <<tstate, timeout, tasks, efd, timeouts, wpc, events, batch,
                   hndl, failed>>

-----------------------------------------------------------------------------
(* The worker thread. *)

Expired == timeouts # <<>> /\ due[Head(timeouts)] = 0

(* nn_poller_wait returns: the efd is readable or the first timer is due. *)
Wait ==
    /\ wpc = "wait"
    /\ efd \/ Expired
    /\ wpc' = "timers"
    /\ events' = efd
    /\ UNCHANGED <<own, left, tstate, timeout, tasks, efd, timeouts, due,
                   batch, hndl, failed>>

(* nn_timerset_event: pop the first timer that is due, or go on. *)
TimersetEvent ==
    /\ wpc = "timers"
    /\ \/ /\ Expired
          /\ hndl' = Head(timeouts)
          /\ timeouts' = Tail(timeouts)
          /\ wpc' = "feed"
       \/ /\ ~Expired
          /\ wpc' = "poll"
          /\ UNCHANGED <<hndl, timeouts>>
    /\ UNCHANGED <<own, left, tstate, timeout, tasks, efd, due, events, batch,
                   failed>>

(* Seeded fault: the owner is notified although it has asked to stop. *)
FeedTimeoutAlways ==
    /\ wpc = "feed"
    /\ wpc' = "timers"
    /\ hndl' = NoTimer
    /\ own' = [own EXCEPT ![hndl] = "fired"]
    /\ UNCHANGED <<left, tstate, timeout, tasks, efd, timeouts, due, events,
                   batch, failed>>

(* Seeded fault: nn_timer_shutdown does not expect an expiration. *)
FeedTimeoutNotStopping ==
    /\ wpc = "feed"
    /\ wpc' = "timers"
    /\ hndl' = NoTimer
    /\ own' = IF tstate[hndl] = "ACTIVE" THEN [own EXCEPT ![hndl] = "fired"]
                                         ELSE own
    /\ Fails(tstate[hndl] # "ACTIVE")
    /\ UNCHANGED <<left, tstate, timeout, tasks, efd, timeouts, due, events,
                   batch>>

(* NN_WORKER_TIMER_TIMEOUT is fed to the timer, which notifies the owner   *)
(* unless it is stopping.                                                  *)
FeedTimeout ==
    /\ wpc = "feed"
    /\ wpc' = "timers"
    /\ hndl' = NoTimer
    /\ own' = IF tstate[hndl] = "ACTIVE" THEN [own EXCEPT ![hndl] = "fired"]
                                         ELSE own
    /\ Fails(CASE tstate[hndl] = "ACTIVE"   -> timeout[hndl] # -1
               [] tstate[hndl] = "STOPPING" -> FALSE
               [] OTHER                     -> TRUE)
    /\ UNCHANGED <<left, tstate, timeout, tasks, efd, timeouts, due, events,
                   batch>>

(* Take over the task queue, or start the next iteration. *)
TakeTasks ==
    /\ wpc = "poll"
    /\ \/ /\ events
          /\ efd' = FALSE
          /\ batch' = tasks
          /\ tasks' = <<>>
          /\ wpc' = "tasks"
       \/ /\ ~events
          /\ wpc' = "wait"
          /\ UNCHANGED <<efd, batch, tasks>>
    /\ events' = FALSE
    /\ UNCHANGED <<own, left, tstate, timeout, timeouts, due, hndl, failed>>

(* Seeded fault: the new deadline goes to the end. *)
InsertLast(t, d) == Append(timeouts, t)

(* nn_timerset_add: behind all the deadlines that are not later. *)
Insert(t, d) ==
    LET later == {i \in 1 .. Len(timeouts) : d < due[timeouts[i]]}
    IN InsertAt(timeouts, Min(later \cup {Len(timeouts) + 1}), t)

(* The start task, in nn_timer_handler or ignored in nn_timer_shutdown. *)
StartTask(t) ==
    /\ IF tstate[t] = "ACTIVE"
       THEN /\ timeouts' = Insert(t, timeout[t])
            /\ due' = [due EXCEPT ![t] = timeout[t]]
            /\ timeout' = [timeout EXCEPT ![t] = -1]
       ELSE UNCHANGED <<timeouts, due, timeout>>
    /\ Fails(\/ tstate[t] = "IDLE"
             \/ tstate[t] = "ACTIVE" /\ timeout[t] < 0
             \/ tstate[t] = "ACTIVE" /\ t \in ToSet(timeouts))
    /\ UNCHANGED <<own, tstate>>

(* nn_timerset_rm: nothing to do for a timer that is not in the list. *)
Without(t) ==
    IF t \in ToSet(timeouts)
    THEN RemoveAt(timeouts, CHOOSE i \in 1 .. Len(timeouts) : timeouts[i] = t)
    ELSE timeouts

(* The stop task: nn_timerset_rm, then NN_TIMER_STOPPED for the owner. *)
StopTask(t) ==
    /\ IF tstate[t] = "STOPPING"
       THEN /\ timeouts' = Without(t)
            /\ tstate' = [tstate EXCEPT ![t] = "IDLE"]
            /\ own' = [own EXCEPT ![t] = "idle"]
       ELSE UNCHANGED <<timeouts, tstate, own>>
    /\ Fails(tstate[t] # "STOPPING")
    /\ UNCHANGED <<due, timeout>>

RunTask ==
    /\ wpc = "tasks"
    /\ batch # <<>>
    /\ LET task == Head(batch)
       IN \/ /\ task.op = "start"
             /\ StartTask(task.timer)
             /\ batch' = Tail(batch)
             /\ UNCHANGED wpc
          \/ /\ task.op = "stop"
             /\ StopTask(task.timer)
             /\ batch' = Tail(batch)
             /\ UNCHANGED wpc
          \/ /\ task = Quit
             /\ batch' = <<>>
             /\ wpc' = "done"
             /\ UNCHANGED <<own, tstate, timeout, timeouts, due, failed>>
    /\ UNCHANGED <<left, tasks, efd, events, hndl>>

EndTasks ==
    /\ wpc = "tasks"
    /\ batch = <<>>
    /\ wpc' = "wait"
    /\ UNCHANGED <<own, left, tstate, timeout, tasks, efd, timeouts, due,
                   events, batch, hndl, failed>>

Worker ==
    \/ Wait
    \/ TimersetEvent
    \/ FeedTimeout
    \/ TakeTasks
    \/ RunTask
    \/ EndTasks

Next ==
    \/ \E t \in Timers : \/ \E d \in 0 .. MaxTimeout : Start(t, d)
                         \/ Stop(t)
    \/ Term
    \/ Tick
    \/ Worker

Spec == Init /\ [][Next]_vars

(* The worker thread is scheduled and the clock goes on. *)
FairSpec == Spec /\ WF_vars(Worker) /\ WF_vars(Tick)

-----------------------------------------------------------------------------
(* The worker keeps the promise of AbsTimer, liveness included: whatever   *)
(* the order of start, stop, expiration and tasks, no NN_TIMER_TIMEOUT     *)
(* comes early, twice, after nn_timer_stop or after NN_TIMER_STOPPED, and  *)
(* none is lost.                                                           *)
KeepsPromise == AbsSpec

(* No assertion or nn_fsm_bad_* of timer.c is reached: a popped expiration *)
(* or an old task never meets a timer that was stopped, or re-started.     *)
NoFailure == ~failed

(* The list of deadlines is ordered and has no timer twice: otherwise a    *)
(* timer would wait behind a later one. A timer that was stopped has no    *)
(* deadline left in the list and none popped: its memory may be freed      *)
(* (nn_worker_timer_term). And the state has its type.                     *)
TimersetConsistent ==
    /\ TypeOK
    /\ \A i, j \in DOMAIN timeouts :
          i < j => /\ timeouts[i] # timeouts[j]
                   /\ due[timeouts[i]] <= due[timeouts[j]]
    /\ \A t \in Timers :
          tstate[t] = "IDLE" => t \notin ToSet(timeouts) /\ hndl # t
=============================================================================
