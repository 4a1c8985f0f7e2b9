--------------------------------- MODULE Usock ---------------------------------
(***************************************************************************)
(* The stream sockets of aio/usock_posix.inc: one state machine, driven    *)
(* by the owner's calls (any thread, inside the context), by tasks the     *)
(* owner's calls post to the worker and by the poller's events in the      *)
(* worker (poller_epoll.inc).                                              *)
(*                                                                         *)
(* w.us[i] keeps for the socket i, beside st and fsm:                      *)
(*   fd        the file descriptor is open                                 *)
(*   reg, in, out   it is in the pollset, and polled for IN, OUT           *)
(*   owner     <<machine, source>> the events go to                        *)
(*   asock     the socket it is paired with for accepting, or None         *)
(*   errnum    the error of accept() that a listener has reported, or ""   *)
(* What the operating system answers is chosen by the step, in o. The      *)
(* number of a descriptor is left out: a task that finds its descriptor    *)
(* closed has no effect here, while epoll_ctl would change the entry of    *)
(* another socket if the number was given to that one since.               *)
(***************************************************************************)
EXTENDS Aio

None == 99

U(i) == <<"usock", i>>

ClosedSocket(owner) ==
    [fd |-> FALSE, reg |-> FALSE, in |-> FALSE, out |-> FALSE,
     owner |-> owner, asock |-> None, errnum |-> ""]

UsockRaise(w, i, name, type) ==
    FsmRaise(w, U(i), name, w.us[i].owner, type)

UsockIsIdle(w, i) == FsmIsIdle(w, U(i))

(* nn_usock_swap_owner. *)
SwapOwner(w, i, owner) == [w EXCEPT !.us[i].owner = owner]

(* nn_worker_add_fd and nn_worker_rm_fd. epoll_ctl's result is ignored, so *)
(* adding a closed descriptor does nothing.                                *)
AddFd(w, i) ==
    [w EXCEPT !.us[i].reg = w.us[i].fd, !.us[i].in = FALSE, !.us[i].out = FALSE]
RmFd(w, i) ==
    [w EXCEPT !.us[i].reg = FALSE, !.us[i].in = FALSE, !.us[i].out = FALSE]

(* epoll_ctl fails for a descriptor that is not in the pollset, and nobody *)
(* looks at its result.                                                    *)
SetIn(w, i)    == [w EXCEPT !.us[i].in = w.us[i].reg]
SetOut(w, i)   == [w EXCEPT !.us[i].out = w.us[i].reg]
ResetIn(w, i)  == [w EXCEPT !.us[i].in = FALSE]
ResetOut(w, i) == [w EXCEPT !.us[i].out = FALSE]

CloseFd(w, i) == [w EXCEPT !.us[i].fd = FALSE]

(* The connection is lost: the end of most error paths. *)
Broken(w, i) == UsockRaise(Goto(CloseFd(w, i), U(i), "DONE"), i, "error", "ERROR")

(* nn_usock_init_from_fd. *)
InitFromFd(w, i) ==
    [Check(w, w.st[U(i)] \in {"IDLE", "BEING_ACCEPTED"} /\ ~w.us[i].fd,
           "usock: descriptor already open")
        EXCEPT !.us[i].fd = TRUE]

(* nn_usock_async_stop. *)
AsyncStop(w, i) == UsockRaise(Execute(w, U(i), "stop"), i, "error", "SHUTDOWN")

-----------------------------------------------------------------------------
(* The state machine. *)

(* nn_internal_tasks: done in whatever state the socket is. *)
InternalTasks == {"send", "recv", "connected", "connecting", "accept"}
InternalTask(w, i, task) ==
    CASE task = "send"       -> SetOut(w, i)
      [] task = "recv"       -> SetIn(w, i)
      [] task = "connected"  -> AddFd(w, i)
      [] task = "connecting" -> SetOut(AddFd(w, i), i)
      [] task = "accept"     -> SetIn(AddFd(w, i), i)

Finish2(w, i) ==
    FsmStopped(Goto(w, U(i), "IDLE"), U(i), w.us[i].owner, "STOPPED")

(* Seeded fault: the event of the descriptor is taken for the task. *)
UsockShutdownHasty(w, i, src, type) ==
    IF w.st[U(i)] = "STOPPING_ACCEPT"
    THEN Finish2(Check(w, src = "ACTION" /\ type = "DONE", "usock: accept"), i)
    ELSE Finish2(CloseFd(RmFd(w, i), i), i)

(* nn_usock_shutdown, apart from the NN_FSM_STOP that begins it. *)
UsockShutdown(w, i, src, type) ==
    CASE w.st[U(i)] = "STOPPING_ACCEPT" ->
            Finish2(Check(w, src = "ACTION" /\ type = "DONE", "usock: accept"), i)
      [] w.st[U(i)] = "STOPPING" ->
            IF <<src, type>> = <<"TASK", "stop">>
            THEN Finish2(CloseFd(RmFd(w, i), i), i)
            ELSE w
      [] OTHER -> Abort(w, "usock: shutdown")

(* nn_fsm_action: a call of the owner that the state does not expect. One  *)
(* that is done, or waits for the worker to stop it, does not mind.        *)
Unexpected(w, i) ==
    Check(w, w.st[U(i)] \in {"STOPPING", "DONE"}, "usock: bad action")

ActionTo(w, i, from, to) ==
    IF w.st[U(i)] \in from THEN Goto(w, U(i), to) ELSE Unexpected(w, i)

ActionListen(w, i)        == ActionTo(w, i, {"STARTING"}, "LISTENING")
ActionConnect(w, i)       == ActionTo(w, i, {"STARTING"}, "CONNECTING")
ActionBeingAccepted(w, i) == ActionTo(w, i, {"STARTING"}, "BEING_ACCEPTED")
ActionAccept(w, i) ==
    ActionTo(w, i, {"LISTENING", "ACCEPTING_ERROR"}, "ACCEPTING")

ActionActivate(w, i) ==
    IF w.st[U(i)] = "ACCEPTED" THEN Goto(AddFd(w, i), U(i), "ACTIVE")
                               ELSE Unexpected(w, i)

ActionCancel(w, i) ==
    IF w.st[U(i)] = "ACCEPTING"
    THEN Execute(Goto(w, U(i), "CANCELLING"), U(i), "stop")
    ELSE Unexpected(w, i)

(* The end of accepting, for either socket, or of connecting. *)
ActionDone(w, i) ==
    LET s == w.st[U(i)]
    IN CASE w.fsm[U(i)] = "STOPPING" -> UsockShutdown(w, i, "ACTION", "DONE")
         [] s = "ACCEPTING" -> Goto(w, U(i), "LISTENING")
         [] s = "BEING_ACCEPTED" ->
               UsockRaise(Goto(w, U(i), "ACCEPTED"), i, "established", "ACCEPTED")
         [] s = "CONNECTING" ->
               UsockRaise(Execute(Goto(w, U(i), "ACTIVE"), U(i), "connected"),
                          i, "established", "CONNECTED")
         [] OTHER -> Unexpected(w, i)

ActionError(w, i) ==
    LET s == w.st[U(i)]
    IN CASE s = "CONNECTING"  -> Broken(w, i)
         [] s = "ACTIVE"      -> AsyncStop(Goto(w, U(i), "REMOVING_FD"), i)
         [] s = "REMOVING_FD" -> w
         [] OTHER -> Unexpected(w, i)

(* nn_usock_geterr, nn_usock_send_raw and nn_usock_recv_raw: the request   *)
(* is complete (by the batch of data read ahead, too), goes on, or the     *)
(* connection is gone.                                                     *)
Geterr(o)  == o.io
SendRaw(o) == o.io
RecvRaw(o) == o.io

(* The descriptor in the state CONNECTING. *)
UsockConnecting(w, i, type, o) ==
    IF type = "OUT" /\ Geterr(o) = "ok"
    THEN UsockRaise(Goto(ResetOut(w, i), U(i), "ACTIVE"), i,
                    "established", "CONNECTED")
    ELSE Broken(RmFd(w, i), i)

(* Seeded fault: the descriptor is not polled again when it was not ready. *)
UsockActiveDeaf(w, i, type, o) ==
    CASE o.io = "again" -> ResetOut(ResetIn(w, i), i)
      [] type = "IN" /\ o.io = "ok" ->
            UsockRaise(ResetIn(w, i), i, "received", "RECEIVED")
      [] type = "OUT" /\ o.io = "ok" ->
            UsockRaise(ResetOut(w, i), i, "sent", "SENT")
      [] OTHER -> Broken(RmFd(w, i), i)

(* ACTIVE: the request goes on until it is complete. *)
UsockActive(w, i, type, o) ==
    CASE type = "IN" /\ RecvRaw(o) = "ok" ->
            UsockRaise(ResetIn(w, i), i, "received", "RECEIVED")
      [] type = "IN" /\ RecvRaw(o) = "again" -> w
      [] type = "OUT" /\ SendRaw(o) = "ok" ->
            UsockRaise(ResetOut(w, i), i, "sent", "SENT")
      [] type = "OUT" /\ SendRaw(o) = "again" -> w
      [] OTHER -> Broken(RmFd(w, i), i)

(* Errors of accept() that last (ENFILE, EMFILE, ENOBUFS and ENOMEM: two   *)
(* of them, as it matters whether the next one is the same), and others    *)
(* that it must not have.                                                  *)
AcceptErrors == {"error", "error2"}
ExpectedOfAccept(w, o) ==
    Check(w, o.io # "unexpected", "usock: unexpected error of accept")

(* ACCEPTING: accept() has a connection for the socket a, an error or none *)
(* ("again": ECONNABORTED; EAGAIN is not expected here).                   *)
UsockAccepting(w, i, a, o) ==
    CASE o.io = "again" -> w
      [] o.io \in AcceptErrors ->
            UsockRaise(RmFd([Goto(w, U(i), "ACCEPTING_ERROR")
                                 EXCEPT !.us[i].errnum = o.io], i),
                       i, "error", "ACCEPT_ERROR")
      [] o.io = "unexpected" -> ExpectedOfAccept(w, o)
      [] o.io = "ok" ->
            LET w1 == UsockRaise(Goto(InitFromFd(w, a), U(a), "ACCEPTED"),
                                 a, "established", "ACCEPTED")
            IN Goto(RmFd([w1 EXCEPT !.us[a].asock = None, !.us[i].asock = None], i),
                    U(i), "LISTENING")

(* Events of the descriptor. *)
UsockFd(w, i, type, o) ==
    LET s == w.st[U(i)]
    IN CASE w.fsm[U(i)] = "STOPPING" -> UsockShutdown(w, i, "FD", type)
         [] s = "CONNECTING" /\ type # "IN" -> UsockConnecting(w, i, type, o)
         [] s = "ACTIVE"    -> UsockActive(w, i, type, o)
         [] s = "ACCEPTING" /\ type = "IN" -> UsockAccepting(w, i, w.us[i].asock, o)
         [] s \in {"REMOVING_FD", "DONE"} -> w
         [] s = "CANCELLING" /\ type = "IN" -> w
         [] OTHER -> Abort(w, "usock: bad event")

(* Tasks of the worker. *)
UsockTask(w, i, task) ==
    LET s == w.st[U(i)]
    IN CASE task \in InternalTasks -> InternalTask(w, i, task)
         [] task = "stop" /\ w.fsm[U(i)] = "STOPPING" ->
               UsockShutdown(w, i, "TASK", "stop")
         [] task = "stop" /\ s = "REMOVING_FD" -> Broken(RmFd(w, i), i)
         [] task = "stop" /\ s = "CANCELLING" ->
               ActionDone(Goto(RmFd(w, i), U(i), "LISTENING"), w.us[i].asock)
         [] OTHER -> Check(w, s = "DONE", "usock: bad task")

-----------------------------------------------------------------------------
(* The owner's calls. *)

(* nn_fsm_start of the socket. *)
UsockFsmStart(w, i) ==
    FsmStarted(Goto(Check(FsmStarting(w, U(i)), w.st[U(i)] = "IDLE",
                          "usock: start"), U(i), "STARTING"), U(i))

(* nn_usock_start, once socket() has succeeded. *)
UsockStart(w, i) == UsockFsmStart(InitFromFd(w, i), i)

(* Seeded fault: a socket that is not yet in use keeps its descriptor. *)
UsockStopLeaky(w, i) ==
    LET w1 == FsmStopping(w, U(i))
    IN CASE w.fsm[U(i)] # "ACTIVE" -> w
         [] w.st[U(i)] = "BEING_ACCEPTED" ->
               Goto(Execute(Goto(w1, U(0), "CANCELLING"), U(0), "stop"),
                    U(i), "STOPPING_ACCEPT")
         [] w.st[U(i)] \in {"CONNECTING", "ACTIVE"} ->
               Goto(AsyncStop(w1, i), U(i), "STOPPING")
         [] w.st[U(i)] = "REMOVING_FD" -> Goto(w1, U(i), "STOPPING")
         [] OTHER -> Finish2(w1, i)

(* nn_usock_stop, with the NN_FSM_STOP part of nn_usock_shutdown. *)
UsockStop(w, i) ==
    LET s  == w.st[U(i)]
        w1 == [FsmStopping(w, U(i)) EXCEPT !.us[i].errnum = ""]
    IN CASE w.fsm[U(i)] # "ACTIVE" -> w
         [] s \in {"ACCEPTING", "CANCELLING"} -> Abort(w, "usock: stop of accept")
         [] s = "IDLE" -> w1
         [] s = "DONE" -> Finish2(w1, i)
         [] s \in {"STARTING", "ACCEPTED", "ACCEPTING_ERROR", "LISTENING"} ->
               Finish2(CloseFd(w1, i), i)
         [] s = "BEING_ACCEPTED" ->
               Goto(ActionCancel(w1, w.us[i].asock), U(i), "STOPPING_ACCEPT")
         [] OTHER ->
               Goto(IF s = "REMOVING_FD" THEN w1 ELSE AsyncStop(w1, i),
                    U(i), "STOPPING")

(* nn_usock_term. *)
UsockTerm(w, i) ==
    CancelTasks(Check(w, w.st[U(i)] = "IDLE" /\ UsockIsIdle(w, i),
                      "usock: destroyed while running"), U(i))

(* nn_usock_bind and nn_usock_setsockopt assert the state; listen. *)
UsockBind(w, i) == Check(w, w.st[U(i)] = "STARTING", "usock: bind")
UsockListen(w, i) == ActionListen(w, i)

(* nn_usock_connect. *)
UsockConnect(w, i, o) ==
    CASE o.io = "ok"    -> ActionDone(ActionConnect(w, i), i)
      [] o.io = "error" -> ActionError(ActionConnect(w, i), i)
      [] o.io = "again" -> Execute(ActionConnect(w, i), U(i), "connecting")

(* nn_usock_accept: i waits for a connection to the listener l. *)
UsockBeingAccepted(w, i, l) ==
    ActionAccept(IF UsockIsIdle(w, i) THEN ActionBeingAccepted(UsockFsmStart(w, i), i)
                                      ELSE w, l)

Unpair(w, i, l) == [w EXCEPT !.us[i].asock = None, !.us[l].asock = None]

Pair(w, i, l) ==
    Check([w EXCEPT !.us[i].asock = l, !.us[l].asock = i],
          w.us[i].asock \in {None, l} /\ w.us[l].asock \in {None, i},
          "usock: paired twice")

UsockAccept(w, i, l, o) ==
    LET w1 == ExpectedOfAccept(UsockBeingAccepted(w, i, l), o)
    IN CASE o.io = "ok" ->
               ActionDone(ActionDone(InitFromFd(Unpair(w1, i, l), i), l), i)
         [] o.io \in AcceptErrors \ {w.us[l].errnum} ->
               UsockRaise([Goto(Pair(w1, i, l), U(l), "ACCEPTING_ERROR")
                               EXCEPT !.us[l].errnum = o.io],
                          l, "error", "ACCEPT_ERROR")
         [] OTHER -> Execute(Pair(w1, i, l), U(l), "accept")

UsockActivate(w, i) == ActionActivate(w, i)

(* nn_usock_send. *)
UsockSend(w, i, o) ==
    CASE w.st[U(i)] # "ACTIVE" \/ SendRaw(o) = "error" -> ActionError(w, i)
      [] SendRaw(o) = "ok"    -> UsockRaise(w, i, "sent", "SENT")
      [] SendRaw(o) = "again" -> Execute(w, U(i), "send")

(* nn_usock_recv. *)
UsockRecv(w, i, o) ==
    CASE w.st[U(i)] # "ACTIVE" \/ RecvRaw(o) = "error" -> ActionError(w, i)
      [] RecvRaw(o) = "ok"    -> UsockRaise(w, i, "received", "RECEIVED")
      [] RecvRaw(o) = "again" -> Execute(w, U(i), "recv")
=============================================================================
