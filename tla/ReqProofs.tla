------------------------------ MODULE ReqProofs ------------------------------
(***************************************************************************)
(* What holds of the REQ socket for any set of pipes and any number of     *)
(* requests. The safety properties are not inductive by themselves: they   *)
(* rest on the correspondence between the state of the socket, the state   *)
(* of its timer and the pipe the request went to, which ReqInv states.     *)
(***************************************************************************)
EXTENDS Req, TLAPS

StoppingStates == {"TIMED_OUT", "CANCELLING", "STOPPING_TIMER", "STOPPING"}

(* The timer's state follows from the socket's. *)
TimerFollowsState ==
    /\ timer = "active" <=> state = "ACTIVE"
    /\ timer = "stopping" <=> state \in StoppingStates

(* sent_to is set in ACTIVE only, to a pipe that is attached. *)
SentToFollowsState ==
    /\ state = "ACTIVE" => sentTo \in up
    /\ state # "ACTIVE" => sentTo = NoPipe

(* Pipes in the load balancer are attached and not sending; neither are    *)
(* the pipes that are not attached.                                        *)
ReadyIsIdle ==
    /\ lb \subseteq up
    /\ \A p \in Pipes : p \in lb \/ p \notin up => outMsg[p] = NoRequest

(* How far the socket and the protocol are with closing. *)
SockFollowsState ==
    /\ sock \in {"ACTIVE", "STOPPING_EPS"} => state \notin {"IDLE", "STOPPING"}
    /\ sock = "STOPPING" => state = "STOPPING"
    /\ sock = "FINI" => state = "IDLE"
    /\ sock \in {"STOPPING", "FINI"} => up = {}

(* An intact reply held for the user is the one to the last request. *)
HeldReplyMatches ==
    state \in {"STOPPING_TIMER", "DONE"} /\ reply.kind = "ok"
        => reply.id = taskId

ReqInv ==
    /\ ReqTypeOK
    /\ NoAbort
    /\ TimerFollowsState
    /\ SentToFollowsState
    /\ ReadyIsIdle
    /\ SockFollowsState
    /\ NoForgottenRequest
    /\ HeldReplyMatches
    /\ NoStaleReply

-----------------------------------------------------------------------------
(* What nn_req_action_send leaves behind when it is called with the timer  *)
(* idle, on pipes that are not sending, and with a delay allowed or a pipe *)
(* at hand: the request is out on one of the pipes, or waits for one.      *)
LEMMA ActionSendResult ==
    ASSUME NEW r \in Ids, NEW ready \in SUBSET Pipes,
           NEW out \in [Pipes -> Ids], NEW allowDelay \in BOOLEAN,
           aborted = FALSE, allowDelay \/ ready # {},
           \A p \in ready : out[p] = NoRequest,
           ActionSend(r, ready, out, "idle", allowDelay)
    PROVE  /\ aborted' = FALSE
           /\ lb' \subseteq ready
           /\ outMsg' \in [Pipes -> Ids]
           /\ \A p \in lb' : outMsg'[p] = NoRequest
           /\ \A p \in Pipes \ ready : outMsg'[p] = out[p]
           /\ \/ state' = "ACTIVE" /\ timer' = "active" /\ sentTo' \in ready
              \/ /\ state' = "DELAYED" /\ timer' = "idle"
                 /\ sentTo' = sentTo /\ lb' = {}
<1>1. CASE \E p \in ready :
              /\ lb' = ready \ {p}
              /\ outMsg' = [out EXCEPT ![p] = r]
              /\ timer' = "active"
              /\ sentTo' = p
              /\ state' = "ACTIVE"
              /\ aborted' = (aborted \/ "idle" # "idle" \/ out[p] # NoRequest)
  BY <1>1
<1>2. CASE /\ ready = {}
           /\ state' = "DELAYED"
           /\ lb' = ready
           /\ outMsg' = out
           /\ timer' = "idle"
           /\ aborted' = (aborted \/ ~allowDelay)
           /\ UNCHANGED sentTo
  BY <1>2
<1> QED
  BY <1>1, <1>2 DEF ActionSend

(* The invariant holds of a socket nn_req_init has just set up. *)
LEMMA ReqInvInit == ReqInit => ReqInv
<1> SUFFICES ASSUME ReqInit PROVE ReqInv
  OBVIOUS
<1>1. 0 \in Ids
  BY ReqAssumption DEF ReqAssumption, Ids
<1>2. delivered \in [reply : Replies \cup {Empty, Freed}, for : Ids]
  BY <1>1 DEF ReqInit
<1>3. ReqTypeOK
  BY <1>1, <1>2 DEF ReqInit, ReqTypeOK, SockStates, ReqStates, TimerStates,
                    NoRequest
<1>4. NoStaleReply
  BY DEF ReqInit, NoStaleReply, Empty
<1> QED
  BY <1>3, <1>4
     DEF ReqInit, ReqInv, NoAbort, TimerFollowsState, SentToFollowsState,
         ReadyIsIdle, SockFollowsState, NoForgottenRequest, HeldReplyMatches,
         StoppingStates

-----------------------------------------------------------------------------
(* One lemma per action: it preserves the invariant. *)

(* nn_req_csend, in whatever state the previous request is. *)
LEMMA CSendInv == ASSUME ReqInv, CSend PROVE ReqInv'
<1>1. /\ taskId + 1 \in Ids /\ taskId' = taskId + 1 /\ request' = taskId + 1
      /\ sock = "ACTIVE"
      /\ UNCHANGED <<sock, reply, up, delivered>>
      /\ HandleSent(taskId + 1)
  BY ReqAssumption DEF ReqAssumption, ReqInv, ReqTypeOK, CSend, Ids
<1>2. /\ state \notin {"IDLE", "STOPPING"} /\ aborted = FALSE
      /\ lb \in SUBSET Pipes /\ outMsg \in [Pipes -> Ids]
      /\ \A p \in lb : outMsg[p] = NoRequest
  BY <1>1 DEF ReqInv, ReqTypeOK, NoAbort, SockFollowsState, ReadyIsIdle
<1>3. CASE state \in {"PASSIVE", "DONE"}
  <2>1. timer = "idle" /\ sentTo = NoPipe
    BY <1>3 DEF ReqInv, ReqTypeOK, TimerStates, TimerFollowsState,
                StoppingStates, SentToFollowsState
  <2>2. ActionSend(taskId + 1, lb, outMsg, "idle", TRUE)
    BY <1>1, <1>3, <2>1 DEF HandleSent
  <2>3. /\ aborted' = FALSE /\ lb' \subseteq lb /\ outMsg' \in [Pipes -> Ids]
        /\ \A p \in lb' : outMsg'[p] = NoRequest
        /\ \A p \in Pipes \ lb : outMsg'[p] = outMsg[p]
        /\ \/ state' = "ACTIVE" /\ timer' = "active" /\ sentTo' \in lb
           \/ /\ state' = "DELAYED" /\ timer' = "idle"
              /\ sentTo' = sentTo /\ lb' = {}
    BY <1>1, <1>2, <2>2, ActionSendResult
  <2> QED
    BY <1>1, <1>2, <2>1, <2>3
       DEF ReqInv, ReqTypeOK, NoAbort, TimerFollowsState, SentToFollowsState,
           ReadyIsIdle, SockFollowsState, NoForgottenRequest,
           HeldReplyMatches, NoStaleReply, SockStates, ReqStates, TimerStates,
           StoppingStates
<1>4. CASE state \in {"DELAYED", "CANCELLING", "TIMED_OUT", "STOPPING_TIMER"}
  <2>1. /\ UNCHANGED <<sentTo, timer, lb, outMsg, aborted>>
        /\ state' = IF state = "DELAYED" THEN "DELAYED" ELSE "CANCELLING"
    BY <1>1, <1>4 DEF HandleSent, Goto
  <2> QED
    BY <1>1, <1>2, <1>4, <2>1
       DEF ReqInv, ReqTypeOK, NoAbort, TimerFollowsState, SentToFollowsState,
           ReadyIsIdle, SockFollowsState, NoForgottenRequest,
           HeldReplyMatches, NoStaleReply, SockStates, ReqStates, TimerStates,
           StoppingStates
<1>5. CASE state = "ACTIVE"
  <2>1. LeaveActive("CANCELLING")
    BY <1>1, <1>5 DEF HandleSent
  <2> QED
    BY <1>1, <1>2, <1>5, <2>1
       DEF ReqInv, ReqTypeOK, NoAbort, TimerFollowsState, SentToFollowsState,
           ReadyIsIdle, SockFollowsState, NoForgottenRequest,
           HeldReplyMatches, NoStaleReply, SockStates, ReqStates, TimerStates,
           StoppingStates, LeaveActive, StopTimer
<1> QED
  BY <1>2, <1>3, <1>4, <1>5 DEF ReqInv, ReqTypeOK, ReqStates

(* nn_req_crecv, successful. *)
LEMMA CRecvInv == ASSUME ReqInv, CRecv PROVE ReqInv'
<1>1. NoStaleReply'
  BY DEF ReqInv, CRecv, NoStaleReply, HeldReplyMatches
<1>2. ReqTypeOK'
  BY DEF ReqInv, CRecv, Goto, ReqTypeOK, ReqStates
<1> QED
  BY <1>1, <1>2
     DEF ReqInv, CRecv, Goto, NoAbort, TimerFollowsState, SentToFollowsState,
         ReadyIsIdle, SockFollowsState, NoForgottenRequest, HeldReplyMatches,
         StoppingStates

(* nn_req_out: pipe p, attached and no longer sending, becomes ready. *)
LEMMA PipeReadyInv ==
    ASSUME ReqInv, sock = "ACTIVE", NEW p \in Pipes,
           NEW out \in [Pipes -> Ids], out[p] = NoRequest,
           \A q \in Pipes : q \in lb \/ q \notin up' => out[q] = NoRequest,
           PipeReady(p, out), up' \subseteq Pipes, up \subseteq up', p \in up',
           UNCHANGED <<sock, taskId, request, reply, delivered>>
    PROVE  ReqInv'
<1>1. lb \cup {p} \in SUBSET Pipes /\ request \in Ids /\ aborted = FALSE
  BY DEF ReqInv, ReqTypeOK, NoAbort
<1>2. CASE state = "DELAYED"
  <2>1. timer = "idle" /\ sentTo = NoPipe
    BY <1>2 DEF ReqInv, ReqTypeOK, TimerStates, TimerFollowsState,
                StoppingStates, SentToFollowsState
  <2>2. ActionSend(request, lb \cup {p}, out, "idle", FALSE)
    BY <1>2, <2>1 DEF PipeReady
  <2>3. /\ aborted' = FALSE /\ lb' \subseteq lb \cup {p}
        /\ outMsg' \in [Pipes -> Ids]
        /\ \A q \in lb' : outMsg'[q] = NoRequest
        /\ \A q \in Pipes \ (lb \cup {p}) : outMsg'[q] = out[q]
        /\ \/ /\ state' = "ACTIVE" /\ timer' = "active"
              /\ sentTo' \in lb \cup {p}
           \/ /\ state' = "DELAYED" /\ timer' = "idle"
              /\ sentTo' = sentTo /\ lb' = {}
    BY <1>1, <2>2, ActionSendResult
  <2> QED
    BY <1>1, <2>1, <2>3
       DEF ReqInv, ReqTypeOK, NoAbort, TimerFollowsState, SentToFollowsState,
           ReadyIsIdle, SockFollowsState, NoForgottenRequest,
           HeldReplyMatches, NoStaleReply, SockStates, ReqStates, TimerStates,
           StoppingStates
<1>3. CASE state # "DELAYED"
  BY <1>1, <1>3
     DEF PipeReady, ReqInv, ReqTypeOK, NoAbort, TimerFollowsState,
         SentToFollowsState, ReadyIsIdle, SockFollowsState,
         NoForgottenRequest, HeldReplyMatches, NoStaleReply
<1> QED
  BY <1>2, <1>3

(* A new pipe. *)
LEMMA PipeAddInv == ASSUME ReqInv, NEW p \in Pipes, PipeAdd(p) PROVE ReqInv'
<1>1. /\ outMsg \in [Pipes -> Ids] /\ outMsg[p] = NoRequest
      /\ \A q \in Pipes : q \in lb \/ q \notin up' => outMsg[q] = NoRequest
  BY DEF PipeAdd, ReqInv, ReqTypeOK, ReadyIsIdle
<1> QED
  BY <1>1, PipeReadyInv DEF PipeAdd, ReqInv, ReqTypeOK

(* NN_PIPE_OUT of a pipe that was sending. *)
LEMMA ReqOutInv == ASSUME ReqInv, NEW p \in Pipes, ReqOut(p) PROVE ReqInv'
<1> DEFINE out == [outMsg EXCEPT ![p] = NoRequest]
<1>1. /\ out \in [Pipes -> Ids] /\ out[p] = NoRequest /\ p \in up
      /\ up \subseteq Pipes
      /\ \A q \in Pipes : q \in lb \/ q \notin up => out[q] = NoRequest
      /\ UNCHANGED <<sock, taskId, request, reply, up, delivered>>
  BY ReqAssumption
     DEF ReqAssumption, ReqOut, ReqInv, ReqTypeOK, ReadyIsIdle, Ids, NoRequest
<1>2. CASE sock = "ACTIVE" /\ PipeReady(p, out)
  <2> HIDE DEF out
  <2> QED
    BY <1>1, <1>2, PipeReadyInv
<1>3. CASE /\ sock # "ACTIVE" /\ outMsg' = out
           /\ UNCHANGED <<state, sentTo, timer, lb, aborted>>
  <2> HIDE DEF out
  <2> QED
    BY <1>1, <1>3
       DEF ReqInv, ReqTypeOK, NoAbort, TimerFollowsState, SentToFollowsState,
           ReadyIsIdle, SockFollowsState, NoForgottenRequest,
           HeldReplyMatches, NoStaleReply
<1> QED
  BY <1>2, <1>3 DEF ReqOut

(* nn_req_rm. The pipe's request, if it is the current one, is re-sent     *)
(* once the timer has stopped.                                             *)
LEMMA PipeRmInv == ASSUME ReqInv, NEW p \in Pipes, PipeRm(p) PROVE ReqInv'
<1>1. /\ UNCHANGED <<sock, taskId, request, reply, delivered>>
      /\ up' = up \ {p} /\ lb' = lb \ {p} /\ p \in up
      /\ outMsg' = [outMsg EXCEPT ![p] = NoRequest]
  BY DEF PipeRm
<1>2. /\ outMsg' \in [Pipes -> Ids] /\ up' \subseteq Pipes /\ ReadyIsIdle'
  BY <1>1, ReqAssumption
     DEF ReqAssumption, ReqInv, ReqTypeOK, ReadyIsIdle, Ids, NoRequest
<1>3. p = sentTo => state = "ACTIVE"
  BY ReqAssumption DEF ReqAssumption, ReqInv, SentToFollowsState
<1>4. CASE p = sentTo
  <2>1. /\ StopTimer /\ sentTo' = NoPipe /\ state' = "TIMED_OUT"
        /\ UNCHANGED aborted
    BY <1>3, <1>4 DEF PipeRm
  <2> QED
    BY <1>1, <1>2, <1>3, <1>4, <2>1
       DEF ReqInv, ReqTypeOK, NoAbort, TimerFollowsState, SentToFollowsState,
           SockFollowsState, NoForgottenRequest, HeldReplyMatches,
           NoStaleReply, ReqStates, TimerStates, StoppingStates, StopTimer
<1>5. CASE p # sentTo
  <2>1. UNCHANGED <<state, sentTo, timer, aborted>>
    BY <1>5 DEF PipeRm
  <2> QED
    BY <1>1, <1>2, <1>5, <2>1
       DEF ReqInv, ReqTypeOK, NoAbort, TimerFollowsState, SentToFollowsState,
           SockFollowsState, NoForgottenRequest, HeldReplyMatches,
           NoStaleReply
<1> QED
  BY <1>4, <1>5

(* nn_req_in, on a reply that matches the current request or does not. *)
LEMMA ReqInInv ==
    ASSUME ReqInv, NEW p \in Pipes, NEW m \in Replies, ReqIn(p, m)
    PROVE  ReqInv'
<1>1. /\ UNCHANGED <<sock, taskId, request, up, delivered>>
      /\ sock = "ACTIVE"
  BY DEF ReqIn
<1>2. /\ reply' \in Replies \cup {Empty, Freed}
      /\ reply'.kind = "ok" => reply'.id = taskId
  BY DEF ReqIn, Matches, Freed
<1>3. CASE state = "ACTIVE" /\ LeaveActive("STOPPING_TIMER")
  BY <1>1, <1>2, <1>3
     DEF ReqInv, ReqTypeOK, NoAbort, TimerFollowsState, SentToFollowsState,
         ReadyIsIdle, SockFollowsState, NoForgottenRequest, HeldReplyMatches,
         NoStaleReply, ReqStates, TimerStates, StoppingStates, LeaveActive,
         StopTimer
<1>4. CASE Goto(state)
  BY <1>1, <1>2, <1>4
     DEF ReqInv, ReqTypeOK, NoAbort, TimerFollowsState, SentToFollowsState,
         ReadyIsIdle, SockFollowsState, NoForgottenRequest, HeldReplyMatches,
         NoStaleReply, Goto
<1> QED
  BY <1>3, <1>4 DEF ReqIn

(* NN_TIMER_TIMEOUT, which only finds the socket ACTIVE. *)
LEMMA TimerTimeoutInv == ASSUME ReqInv, TimerTimeout PROVE ReqInv'
<1>1. state = "ACTIVE" /\ LeaveActive("TIMED_OUT")
  BY DEF TimerTimeout, ReqInv, TimerFollowsState
<1> QED
  BY <1>1
     DEF TimerTimeout, ReqInv, ReqTypeOK, NoAbort, TimerFollowsState,
         SentToFollowsState, ReadyIsIdle, SockFollowsState,
         NoForgottenRequest, HeldReplyMatches, NoStaleReply, ReqStates,
         TimerStates, StoppingStates, LeaveActive, StopTimer

(* NN_TIMER_STOPPED: re-send, finish the request or finish the socket. *)
LEMMA TimerStoppedInv == ASSUME ReqInv, TimerStopped PROVE ReqInv'
<1>1. /\ timer = "stopping" /\ state \in StoppingStates
      /\ UNCHANGED <<taskId, request, reply, up, delivered>>
      /\ sentTo = NoPipe /\ aborted = FALSE
  BY DEF TimerStopped, ReqInv, TimerFollowsState, SentToFollowsState,
         StoppingStates, NoAbort, ReqTypeOK
<1>2. CASE state \in {"TIMED_OUT", "CANCELLING"}
  <2>1. ActionSend(request, lb, outMsg, "idle", TRUE) /\ UNCHANGED sock
    BY <1>2 DEF TimerStopped
  <2>2. /\ request \in Ids /\ lb \in SUBSET Pipes /\ outMsg \in [Pipes -> Ids]
        /\ \A p \in lb : outMsg[p] = NoRequest
    BY DEF ReqInv, ReqTypeOK, ReadyIsIdle
  <2>3. /\ aborted' = FALSE /\ lb' \subseteq lb /\ outMsg' \in [Pipes -> Ids]
        /\ \A p \in lb' : outMsg'[p] = NoRequest
        /\ \A p \in Pipes \ lb : outMsg'[p] = outMsg[p]
        /\ \/ state' = "ACTIVE" /\ timer' = "active" /\ sentTo' \in lb
           \/ /\ state' = "DELAYED" /\ timer' = "idle"
              /\ sentTo' = sentTo /\ lb' = {}
    BY <1>1, <2>1, <2>2, ActionSendResult
  <2> QED
    BY <1>1, <1>2, <2>1, <2>2, <2>3
       DEF ReqInv, ReqTypeOK, NoAbort, TimerFollowsState, SentToFollowsState,
           ReadyIsIdle, SockFollowsState, NoForgottenRequest,
           HeldReplyMatches, NoStaleReply, SockStates, ReqStates, TimerStates,
           StoppingStates
<1>3. CASE state = "STOPPING_TIMER"
  BY <1>1, <1>3
     DEF TimerStopped, ReqInv, ReqTypeOK, NoAbort, TimerFollowsState,
         SentToFollowsState, ReadyIsIdle, SockFollowsState,
         NoForgottenRequest, HeldReplyMatches, NoStaleReply, ReqStates,
         TimerStates, StoppingStates
<1>4. CASE state = "STOPPING"
  BY <1>1, <1>4
     DEF TimerStopped, ReqInv, ReqTypeOK, NoAbort, TimerFollowsState,
         SentToFollowsState, ReadyIsIdle, SockFollowsState,
         NoForgottenRequest, HeldReplyMatches, NoStaleReply, SockStates,
         ReqStates, TimerStates, StoppingStates
<1> QED
  BY <1>1, <1>2, <1>3, <1>4 DEF StoppingStates

(* nn_close: only nn_sock.state changes. *)
LEMMA CloseInv == ASSUME ReqInv, Close PROVE ReqInv'
BY DEF Close, ReqInv, ReqTypeOK, NoAbort, TimerFollowsState,
       SentToFollowsState, ReadyIsIdle, SockFollowsState, NoForgottenRequest,
       HeldReplyMatches, NoStaleReply, SockStates

(* nn_req_stop and nn_req_shutdown. No pipe is left, so the request is not *)
(* in ACTIVE, and the timer is idle or stopping.                           *)
LEMMA ReqStopInv == ASSUME ReqInv, ReqStop PROVE ReqInv'
<1>1. state # "ACTIVE" /\ timer \in {"idle", "stopping"} /\ timer' = timer
  BY DEF ReqStop, ReqInv, ReqTypeOK, SentToFollowsState, TimerFollowsState,
         TimerStates, StopTimer
<1> QED
  BY <1>1
     DEF ReqStop, ReqInv, ReqTypeOK, NoAbort, TimerFollowsState,
         SentToFollowsState, ReadyIsIdle, SockFollowsState,
         NoForgottenRequest, HeldReplyMatches, NoStaleReply, SockStates,
         ReqStates, TimerStates, StoppingStates

-----------------------------------------------------------------------------
(* The invariant is inductive: every handler preserves it. *)
LEMMA ReqInvStep == ReqInv /\ [ReqNext]_reqVars => ReqInv'
<1> SUFFICES ASSUME ReqInv, [ReqNext]_reqVars PROVE ReqInv'
  OBVIOUS
<1>1. CASE CSend
  BY <1>1, CSendInv
<1>2. CASE CRecv
  BY <1>2, CRecvInv
<1>3. ASSUME NEW p \in Pipes, PipeAdd(p) PROVE ReqInv'
  BY <1>3, PipeAddInv
<1>4. ASSUME NEW p \in Pipes, ReqOut(p) PROVE ReqInv'
  BY <1>4, ReqOutInv
<1>5. ASSUME NEW p \in Pipes, PipeRm(p) PROVE ReqInv'
  BY <1>5, PipeRmInv
<1>6. ASSUME NEW p \in Pipes, NEW m \in Replies, ReqIn(p, m) PROVE ReqInv'
  BY <1>6, ReqInInv
<1>7. CASE TimerTimeout
  BY <1>7, TimerTimeoutInv
<1>8. CASE TimerStopped
  BY <1>8, TimerStoppedInv
<1>9. CASE Close
  BY <1>9, CloseInv
<1>10. CASE ReqStop
  BY <1>10, ReqStopInv
<1>11. CASE UNCHANGED reqVars
  BY <1>11
     DEF reqVars, ReqInv, ReqTypeOK, NoAbort, TimerFollowsState,
         SentToFollowsState, ReadyIsIdle, SockFollowsState,
         NoForgottenRequest, HeldReplyMatches, NoStaleReply
<1> QED
  BY <1>1, <1>2, <1>3, <1>4, <1>5, <1>6, <1>7, <1>8, <1>9, <1>10, <1>11
     DEF ReqNext

(* The inductive invariant holds in every state of the REQ socket. *)
THEOREM ReqInvariant == ReqSpec => []ReqInv
BY ReqInvInit, ReqInvStep, PTL DEF ReqSpec

(* Every field of nn_req and of its socket keeps its type. *)
THEOREM ReqTypeCorrect == ReqSpec => []ReqTypeOK
<1>1. ReqInv => ReqTypeOK
  BY DEF ReqInv
<1> QED
  BY <1>1, ReqInvariant, PTL

(* No assertion and no nn_fsm_bad_* of req.c is reached, for any number of *)
(* pipes and requests.                                                     *)
THEOREM ReqNeverAborts == ReqSpec => []NoAbort
<1>1. ReqInv => NoAbort
  BY DEF ReqInv
<1> QED
  BY <1>1, ReqInvariant, PTL

(* nn_req_out and nn_req_action_send between them leave no request waiting *)
(* for a pipe while the load balancer has one.                             *)
THEOREM RequestNotForgotten == ReqSpec => []NoForgottenRequest
<1>1. ReqInv => NoForgottenRequest
  BY DEF ReqInv
<1> QED
  BY <1>1, ReqInvariant, PTL

(* In ACTIVE the re-send timer runs and nn_req_rm will see the pipe go. *)
THEOREM ActiveRequestGuarded == ReqSpec => []ActiveIsGuarded
<1>1. ReqInv => ActiveIsGuarded
  BY DEF ReqInv, ActiveIsGuarded, TimerFollowsState, SentToFollowsState
<1> QED
  BY <1>1, ReqInvariant, PTL

(* nn_req_crecv hands over no intact reply to a superseded request. *)
THEOREM ReplyNotStale == ReqSpec => []NoStaleReply
<1>1. ReqInv => NoStaleReply
  BY DEF ReqInv
<1> QED
  BY <1>1, ReqInvariant, PTL

(* A REQ socket that reached FINI can be freed. *)
THEOREM FiniQuiet == ReqSpec => []FiniIsQuiet
<1>1. ReqInv => FiniIsQuiet
  BY DEF ReqInv, ReqTypeOK, FiniIsQuiet, SockFollowsState, TimerFollowsState,
         TimerStates, StoppingStates
<1> QED
  BY <1>1, ReqInvariant, PTL
=============================================================================
