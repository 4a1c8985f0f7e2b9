---------------------------------- MODULE Aio ----------------------------------
(***************************************************************************)
(* The frame every transport of nanomsg runs in: state machines            *)
(* (aio/fsm.c) that raise events to their owners, the queue of events of   *)
(* the socket's context (aio/ctx.c), the tasks posted to the worker thread *)
(* (aio/worker_posix.inc) and the timers (aio/timer.c, whose own races are *)
(* the subject of Timer.tla).                                              *)
(*                                                                         *)
(* Code that runs inside the context is written as operators from one      *)
(* state of the endpoint to the next: w is a record with a field for each  *)
(* variable of the composed specification. A machine is a pair of its kind *)
(* and the number of its connection. Used here:                            *)
(*   w.st      the state of each machine, as the code of the machine has it*)
(*   w.fsm     nn_fsm.state of each machine                                *)
(*   w.evq     nn_ctx.events                                               *)
(*   w.tasks   nn_worker.tasks, the first w.batch of them already taken    *)
(*             over by the worker (the local queue of nn_worker_routine)   *)
(*   w.failed  the failed assertion that ended the process, or ""          *)
(***************************************************************************)
EXTENDS Naturals, Sequences

Abort(w, where) == [w EXCEPT !.failed = IF @ = "" THEN where ELSE @]

(* nn_assert and its kin. *)
Check(w, cond, where) == IF cond THEN w ELSE Abort(w, where)

Goto(w, m, s) == [w EXCEPT !.st[m] = s]

Queued(w, obj) == \E k \in DOMAIN w.evq : w.evq[k].obj = obj

(* nn_ctx_raise. An event object is part of its machine: it cannot be in   *)
(* the queue twice (utils/queue.c).                                        *)
CtxRaise(w, e) ==
    IF Queued(w, e.obj) THEN Abort(w, "event queued twice")
                        ELSE [w EXCEPT !.evq = Append(@, e)]

(* nn_fsm_raise, to the owner <<machine, source>>. *)
FsmRaise(w, m, name, owner, type) ==
    CtxRaise(w, [obj |-> <<m, name>>, to |-> owner[1], src |-> owner[2],
                 type |-> type])

FsmIsIdle(w, m) == w.fsm[m] = "IDLE" /\ ~Queued(w, <<m, "stopped">>)

(* What nn_fsm_start does around the call of the handler. *)
FsmStarting(w, m) == Check(w, FsmIsIdle(w, m), "start of a running machine")
FsmStarted(w, m) == [w EXCEPT !.fsm[m] = "ACTIVE"]

(* What nn_fsm_stop does before the call of the shutdown function. *)
FsmStopping(w, m) == [w EXCEPT !.fsm[m] = "STOPPING"]

FsmStoppedNoevent(w, m) ==
    [Check(w, w.fsm[m] = "STOPPING", "stopped but not stopping")
        EXCEPT !.fsm[m] = "IDLE"]

FsmStopped(w, m, owner, type) ==
    FsmStoppedNoevent(FsmRaise(w, m, "stopped", owner, type), m)

-----------------------------------------------------------------------------
(* The worker's task queue. *)

(* nn_worker_execute: the task is an object as well. *)
Execute(w, m, task) ==
    LET t == [to |-> m, task |-> task]
    IN IF \E k \in DOMAIN w.tasks : w.tasks[k] = t
       THEN Abort(w, "task queued twice")
       ELSE [w EXCEPT !.tasks = Append(@, t)]

(* nn_worker_cancel of all the tasks of a machine, then                    *)
(* nn_worker_task_term: a task the worker has taken over is out of reach.  *)
CancelTasks(w, m) ==
    LET taken == SubSeq(w.tasks, 1, w.batch)
        rest  == SubSeq(w.tasks, w.batch + 1, Len(w.tasks))
        other(t) == t.to # m
    IN Check([w EXCEPT !.tasks = taken \o SelectSeq(rest, other)],
             \A k \in DOMAIN taken : other(taken[k]),
             "machine destroyed with a task under way")

-----------------------------------------------------------------------------
(* Timers: a task starts the timer in the worker, where it expires once;   *)
(* another one stops it.                                                   *)

TimerStart(w, m) ==
    FsmStarted(Execute(Goto(FsmStarting(w, m), m, "STARTED"), m, "start"), m)

TimerStop(w, m) ==
    IF w.fsm[m] = "ACTIVE"
    THEN Execute(Goto(FsmStopping(w, m), m, "STOPPING"), m, "stop")
    ELSE w

TimerTask(w, m, task, owner) ==
    CASE task = "start" /\ w.fsm[m] = "ACTIVE" -> Goto(w, m, "RUNNING")
      [] task = "start" /\ w.fsm[m] = "STOPPING" -> w
      [] task = "stop" /\ w.fsm[m] = "STOPPING" ->
            FsmStopped(Goto(w, m, "IDLE"), m, owner, "STOPPED")
      [] OTHER -> Abort(w, "timer: bad task")

TimerExpires(w, m, owner) ==
    FsmRaise(Goto(w, m, "EXPIRED"), m, "done", owner, "TIMEOUT")
=============================================================================
