--------------------------------- MODULE Req ---------------------------------
(***************************************************************************)
(* The REQ socket: protocols/reqrep/req.c on top of the raw socket         *)
(* protocols/reqrep/xreq.c, as one component whose environment is the      *)
(* application (csend, crecv, close), the transports (pipes that come, go, *)
(* finish sending and deliver replies) and the worker thread (timer).      *)
(*                                                                         *)
(* Every action is one critical section of the socket's AIO context: the   *)
(* handler that is fed the event together with all the internal events it  *)
(* raises, which nn_ctx_leave drains before it unlocks (aio/ctx.c:57-64).  *)
(*                                                                         *)
(* An nn_assert, errnum_assert or nn_fsm_bad_* that the code would run     *)
(* into aborts the process; the model sets `aborted' instead of blocking.  *)
(*                                                                         *)
(* The re-send timer is the abstract timer that module Timer implements.   *)
(* The load balancer is abstracted to the set of pipes ready to send; any  *)
(* of them may be picked (module Priolist says which one the code picks).  *)
(***************************************************************************)
EXTENDS Naturals

CONSTANTS Pipes,        \* the pipes that may ever be attached to the socket
          NoPipe,       \* a NULL nn_pipe pointer
          MaxRequests   \* bound: requests the application submits

ASSUME ReqAssumption ==
    /\ NoPipe \notin Pipes
    /\ MaxRequests \in Nat

VARIABLES
    sock,       \* nn_sock.state (core/sock.c:48-52)
    state,      \* nn_req.state
    taskId,     \* nn_req.task.id, relative to its random start
    request,    \* request ID in the header of nn_req.task.request
    reply,      \* nn_req.task.reply
    sentTo,     \* nn_req.task.sent_to
    timer,      \* state of nn_req.task.timer's state machine
    up,         \* pipes added to the socket and not removed yet
    lb,         \* pipes active in xreq.lb, i.e. ready for sending
    outMsg,     \* request handed to a pipe that has not signalled OUT since
    delivered,  \* what the last successful nn_req_crecv gave to the user
    aborted     \* an assertion of the code failed

reqVars == <<sock, state, taskId, request, reply, sentTo, timer, up, lb,
             outMsg, delivered, aborted>>

(***************************************************************************)
(* Messages. A reply on the wire starts with a 32-bit word, the request ID *)
(* with its top bit set; "nobottom" has the bit clear, "short" has less    *)
(* than four bytes. A message object holds no data ("empty"), a message,   *)
(* or was deallocated by nn_msg_term ("freed").                            *)
(***************************************************************************)
Ids == 0 .. MaxRequests

Replies == [kind : {"ok", "nobottom", "short"}, id : Ids]

Empty == [kind |-> "empty", id |-> 0]
Freed == [kind |-> "freed", id |-> 0]

NoRequest == 0

SockStates == {"ACTIVE", "STOPPING_EPS", "STOPPING", "FINI"}

ReqStates == {"IDLE", "PASSIVE", "DELAYED", "ACTIVE", "TIMED_OUT",
              "CANCELLING", "STOPPING_TIMER", "DONE", "STOPPING"}

TimerStates == {"idle", "active", "stopping"}

ReqTypeOK ==
    /\ sock \in SockStates
    /\ state \in ReqStates
    /\ taskId \in Ids
    /\ request \in Ids
    /\ reply \in Replies \cup {Empty, Freed}
    /\ sentTo \in Pipes \cup {NoPipe}
    /\ timer \in TimerStates
    /\ up \subseteq Pipes
    /\ lb \subseteq Pipes
    /\ outMsg \in [Pipes -> Ids]
    /\ delivered \in [reply : Replies \cup {Empty, Freed}, for : Ids]
    /\ aborted \in BOOLEAN

(* nn_req_init: the state machine is started at once, IDLE -> PASSIVE. *)
ReqInit ==
    /\ sock = "ACTIVE"
    /\ state = "PASSIVE"
    /\ taskId = 0
    /\ request = NoRequest
    /\ reply = Empty
    /\ sentTo = NoPipe
    /\ timer = "idle"
    /\ up = {}
    /\ lb = {}
    /\ outMsg = [p \in Pipes |-> NoRequest]
    /\ delivered = [reply |-> Empty, for |-> 0]
    /\ aborted = FALSE

-----------------------------------------------------------------------------
(* nn_timer_stop: only an active timer starts stopping (aio/fsm.c:134-142). *)
StopTimer == timer' = IF timer = "active" THEN "stopping" ELSE timer

(* The process dies: nothing else is observable. *)
Abort ==
    /\ aborted' = TRUE
    /\ UNCHANGED <<state, sentTo, timer, lb, outMsg>>

(***************************************************************************)
(* nn_req_action_send: hand request r to a pipe of `ready' (nn_lb_send) or *)
(* wait for one in state DELAYED. `out' and `tmr' are outMsg and the state *)
(* of the timer at this point.                                             *)
(***************************************************************************)
ActionSend(r, ready, out, tmr, allowDelay) ==
    \/ \E p \in ready :
        /\ lb' = ready \ {p}
        /\ outMsg' = [out EXCEPT ![p] = r]
        /\ timer' = "active"
        /\ sentTo' = p
        /\ state' = "ACTIVE"
        \* nn_timer_start wants an idle timer, nn_pipe_send an idle pipe
        /\ aborted' = (aborted \/ tmr # "idle" \/ out[p] # NoRequest)
    \/ /\ ready = {}
       /\ state' = "DELAYED"
       /\ lb' = ready
       /\ outMsg' = out
       /\ timer' = tmr
       /\ aborted' = (aborted \/ ~allowDelay)
       /\ UNCHANGED sentTo

(* Seeded fault: the timer goes on running. *)
LeaveActiveTimerRunning(next) ==
    /\ sentTo' = NoPipe
    /\ state' = next
    /\ UNCHANGED <<timer, lb, outMsg, aborted>>

(* The ACTIVE state is left: the timer is stopped, sent_to forgotten. *)
LeaveActive(next) ==
    /\ StopTimer
    /\ sentTo' = NoPipe
    /\ state' = next
    /\ UNCHANGED <<lb, outMsg, aborted>>

Goto(next) ==
    /\ state' = next
    /\ UNCHANGED <<sentTo, timer, lb, outMsg, aborted>>

(***************************************************************************)
(* nn_req_handler on NN_REQ_ACTION_SENT with r the request just stored.    *)
(***************************************************************************)
HandleSent(r) ==
    CASE state \in {"PASSIVE", "DONE"}             -> ActionSend(r, lb, outMsg, timer, TRUE)
      [] state \in {"DELAYED", "CANCELLING"}       -> Goto(state)
      [] state = "ACTIVE"                          -> LeaveActive("CANCELLING")
      [] state \in {"TIMED_OUT", "STOPPING_TIMER"} -> Goto("CANCELLING")
      [] OTHER                                     -> Abort

(* nn_req_csend: a new request replaces whatever the socket was doing. *)
CSend ==
    /\ sock = "ACTIVE"
    /\ taskId < MaxRequests
    /\ taskId' = taskId + 1
    /\ request' = taskId'
    /\ HandleSent(taskId + 1)
    /\ UNCHANGED <<sock, reply, up, delivered>>

(* nn_req_crecv, successful: EFSM and EAGAIN leave the socket alone. *)
CRecv ==
    /\ sock = "ACTIVE"
    /\ state = "DONE"
    /\ delivered' = [reply |-> reply, for |-> taskId]
    /\ reply' = Empty
    /\ Goto("PASSIVE")
    /\ UNCHANGED <<sock, taskId, request, up>>

-----------------------------------------------------------------------------
(* Seeded fault: the new pipe is not announced to a delayed request. *)
PipeReadyUnnoticed(p, out) ==
    /\ lb' = lb \cup {p}
    /\ outMsg' = out
    /\ UNCHANGED <<state, sentTo, timer, aborted>>

(* nn_req_out: pipe p can send (again); `out' is outMsg without p's.       *)
PipeReady(p, out) ==
    IF state = "DELAYED"
    THEN ActionSend(request, lb \cup {p}, out, timer, FALSE)
    ELSE /\ lb' = lb \cup {p}
         /\ outMsg' = out
         /\ UNCHANGED <<state, sentTo, timer, aborted>>

(* nn_xreq_add, then the pipe's first NN_PIPE_OUT (core/pipe.c:75-92). *)
PipeAdd(p) ==
    /\ sock = "ACTIVE"
    /\ p \notin up
    /\ up' = up \cup {p}
    /\ PipeReady(p, outMsg)
    /\ UNCHANGED <<sock, taskId, request, reply, delivered>>

(* NN_PIPE_OUT once the transport has passed the message on. A closing     *)
(* socket drops the event (core/sock.c:869-875).                           *)
ReqOut(p) ==
    /\ p \in up
    /\ outMsg[p] # NoRequest
    /\ LET out == [outMsg EXCEPT ![p] = NoRequest]
       IN \/ sock = "ACTIVE" /\ PipeReady(p, out)
          \/ /\ sock # "ACTIVE"
             /\ outMsg' = out
             /\ UNCHANGED <<state, sentTo, timer, lb, aborted>>
    /\ UNCHANGED <<sock, taskId, request, reply, up, delivered>>

(* nn_req_rm: the pipe broke, or the closing socket stops its endpoints. *)
PipeRm(p) ==
    /\ p \in up
    /\ up' = up \ {p}
    /\ lb' = lb \ {p}
    /\ outMsg' = [outMsg EXCEPT ![p] = NoRequest]
    /\ CASE p = sentTo /\ state = "ACTIVE" ->
              /\ StopTimer
              /\ sentTo' = NoPipe
              /\ state' = "TIMED_OUT"
              /\ UNCHANGED aborted
         [] p = sentTo /\ state # "ACTIVE" ->
              /\ aborted' = TRUE
              /\ UNCHANGED <<state, sentTo, timer>>
         [] OTHER -> UNCHANGED <<state, sentTo, timer, aborted>>
    /\ UNCHANGED <<sock, taskId, request, reply, delivered>>

-----------------------------------------------------------------------------
InProgress == state \notin {"IDLE", "PASSIVE", "STOPPING"}

(* Seeded fault: any well-formed reply will do. *)
MatchesAny(m) == m.kind = "ok"

(* nn_req_in's checks of the request ID (and xreq_recv's of the size). *)
Matches(m) == m.kind = "ok" /\ m.id = taskId

(***************************************************************************)
(* NN_PIPE_IN: nn_req_in receives straight into task.reply, then decides.  *)
(* Every pipe hands over one message per NN_PIPE_IN.                       *)
(***************************************************************************)
ReqIn(p, m) ==
    /\ sock = "ACTIVE"
    /\ p \in up
    /\ IF InProgress /\ Matches(m)
       THEN /\ reply' = m
            /\ IF state = "ACTIVE" THEN LeaveActive("STOPPING_TIMER")
                                   ELSE Goto(state)
       ELSE /\ reply' = Freed
            /\ Goto(state)
    /\ UNCHANGED <<sock, taskId, request, up, delivered>>

-----------------------------------------------------------------------------
(* The worker delivers NN_TIMER_TIMEOUT. *)
TimerTimeout ==
    /\ timer = "active"
    /\ IF state = "ACTIVE" THEN LeaveActive("TIMED_OUT") ELSE Abort
    /\ UNCHANGED <<sock, taskId, request, reply, up, delivered>>

(* Seeded fault: the socket is not told that the protocol has stopped. *)
TimerStoppedSilent ==
    /\ timer = "stopping"
    /\ CASE state \in {"TIMED_OUT", "CANCELLING"} ->
              ActionSend(request, lb, outMsg, "idle", TRUE)
         [] state = "STOPPING_TIMER" ->
              state' = "DONE" /\ timer' = "idle" /\ UNCHANGED <<sentTo, lb, outMsg, aborted>>
         [] state = "STOPPING" ->
              state' = "IDLE" /\ timer' = "idle" /\ UNCHANGED <<sentTo, lb, outMsg, aborted>>
         [] OTHER -> Abort
    /\ UNCHANGED <<sock, taskId, request, reply, up, delivered>>

(* The worker delivers NN_TIMER_STOPPED. *)
TimerStopped ==
    /\ timer = "stopping"
    /\ CASE state \in {"TIMED_OUT", "CANCELLING"} ->
              ActionSend(request, lb, outMsg, "idle", TRUE) /\ UNCHANGED sock
         [] state = "STOPPING_TIMER" ->
              /\ state' = "DONE"
              /\ timer' = "idle"
              /\ UNCHANGED <<sock, sentTo, lb, outMsg, aborted>>
         [] state = "STOPPING" ->
              /\ state' = "IDLE"
              /\ timer' = "idle"
              /\ sock' = "FINI"
              /\ UNCHANGED <<sentTo, lb, outMsg, aborted>>
         [] OTHER -> Abort /\ UNCHANGED sock
    /\ UNCHANGED <<taskId, request, reply, up, delivered>>

-----------------------------------------------------------------------------
(* nn_close: nn_sock_shutdown asks the endpoints to stop. *)
Close ==
    /\ sock = "ACTIVE"
    /\ sock' = "STOPPING_EPS"
    /\ UNCHANGED <<state, taskId, request, reply, sentTo, timer, up, lb,
                   outMsg, delivered, aborted>>

(* Seeded fault: the end of the timer is not waited for. *)
ReqStopAtOnce ==
    /\ sock = "STOPPING_EPS"
    /\ up = {}
    /\ StopTimer
    /\ state' = "IDLE"
    /\ sock' = "FINI"
    /\ UNCHANGED <<taskId, request, reply, sentTo, up, lb, outMsg, delivered,
                   aborted>>

(* The last endpoint has gone: nn_req_stop and nn_req_shutdown, and, when *)
(* the timer is idle already, the end of the socket.                      *)
ReqStop ==
    /\ sock = "STOPPING_EPS"
    /\ up = {}
    /\ StopTimer
    /\ IF timer = "idle"
       THEN state' = "IDLE" /\ sock' = "FINI"
       ELSE state' = "STOPPING" /\ sock' = "STOPPING"
    /\ UNCHANGED <<taskId, request, reply, sentTo, up, lb, outMsg, delivered,
                   aborted>>

-----------------------------------------------------------------------------
ReqNext ==
    \/ CSend
    \/ CRecv
    \/ \E p \in Pipes : PipeAdd(p)
    \/ \E p \in Pipes : ReqOut(p)
    \/ \E p \in Pipes : PipeRm(p)
    \/ \E p \in Pipes, m \in Replies : ReqIn(p, m)
    \/ TimerTimeout
    \/ TimerStopped
    \/ Close
    \/ ReqStop

ReqSpec == ReqInit /\ [][ReqNext]_reqVars

-----------------------------------------------------------------------------
(***************************************************************************)
(* Properties.                                                             *)
(***************************************************************************)

(* No assertion and no nn_fsm_bad_* of req.c is ever reached: whatever the *)
(* order of sends, replies, pipe removals, timeouts and close, the timer   *)
(* is idle when nn_timer_start runs, the pipe is not sending already when  *)
(* nn_pipe_send runs, NN_TIMER_TIMEOUT and _STOPPED find the state that    *)
(* expects them, a pipe that goes away is still the one the ACTIVE request *)
(* went to, and a delayed request finds a pipe on OUT.                     *)
NoAbort == ~aborted

(* A request is not left waiting in DELAYED while a pipe is ready for      *)
(* sending: nobody would wake it up (nn_req_out acts on new pipes only).   *)
NoForgottenRequest ==
    sock = "ACTIVE" /\ state = "DELAYED" => lb = {}

(* In ACTIVE the re-send timer is running and the pipe the request went to *)
(* is still attached, so that either a reply, the removal of the pipe or   *)
(* the timer gets the socket out of ACTIVE.                                *)
ActiveIsGuarded ==
    state = "ACTIVE" => timer = "active" /\ sentTo \in up

(* What nn_recv hands over is never an intact reply to another request     *)
(* than the last one submitted (req.c:173-182), however late, duplicated   *)
(* or malformed the replies that come in are.                              *)
NoStaleReply ==
    delivered.reply.kind = "ok" => delivered.reply.id = delivered.for

(* "In DONE state the reply is stored in 'reply' field." (req.c:223)       *)
ReplyStored ==
    state = "DONE" => reply.kind = "ok" /\ reply.id = taskId

(* A socket that reached FINI has no timer running and no pipe attached:   *)
(* nn_req_destroy frees both (nn_timer_term asserts the first).            *)
FiniIsQuiet ==
    sock = "FINI" => timer = "idle" /\ up = {} /\ state = "IDLE"
=============================================================================
