-------------------------------- MODULE ReqRep --------------------------------
(***************************************************************************)
(* A REQ socket talking to a REP socket over connections that break. The   *)
(* REP socket also serves strangers: other peers, whose requests may carry *)
(* the same IDs or be malformed.                                           *)
(*                                                                         *)
(* A connection is used once: when it breaks, either end may notice before *)
(* or after the other, and may still read what was in flight until then. A *)
(* re-connected transport shows up as another member of Pipes.             *)
(***************************************************************************)
EXTENDS Req, Rep, Sequences

CONSTANTS Strangers,  \* connections of other peers to the REP socket
          Capacity,   \* bound: replies in flight per connection
          Fragile     \* bound: the connections that may break

ASSUME ReqRepAssumption ==
    /\ Conns = Pipes \cup Strangers
    /\ Pipes \cap Strangers = {}
    /\ RequestIds = 1 .. MaxRequests
    /\ Capacity \in Nat \ {0}
    /\ Fragile \subseteq Pipes

VARIABLES
    reqSeen,  \* connections the REQ end has attached so far
    repSeen,  \* connections the REP end has attached so far
    broken,   \* connections that are down
    toReq     \* replies in flight

netVars == <<reqSeen, repSeen, broken, toReq>>
vars == <<reqVars, repVars, netVars>>

Init ==
    /\ ReqInit
    /\ RepInit
    /\ reqSeen = {}
    /\ repSeen = {}
    /\ broken = {}
    /\ toReq = [c \in Pipes |-> <<>>]

-----------------------------------------------------------------------------
(* The network. *)

Break(c) ==
    /\ c \in Fragile \ broken
    /\ broken' = broken \cup {c}
    /\ UNCHANGED <<reqVars, repVars, reqSeen, repSeen, toReq>>

(* The stranger's messages reach, and leave, the pipe at once. *)
StrangerSend(c, m) ==
    /\ RepPipeIn(c, m)
    /\ UNCHANGED <<reqVars, netVars>>

StrangerRecv(c) ==
    /\ RepPipeOut(c)
    /\ UNCHANGED <<reqVars, netVars>>

-----------------------------------------------------------------------------
(* The REQ end. *)

ReqApp == (CSend \/ CRecv \/ Close) /\ UNCHANGED <<repVars, netVars>>

ReqTimer == (TimerTimeout \/ TimerStopped) /\ UNCHANGED <<repVars, netVars>>

ReqAttach(c) ==
    /\ c \notin reqSeen \cup broken
    /\ PipeAdd(c)
    /\ reqSeen' = reqSeen \cup {c}
    /\ UNCHANGED <<repVars, repSeen, broken, toReq>>

(* The pipe is removed: its connection broke, or the socket is closing. *)
ReqDetach(c) ==
    /\ c \in broken \/ sock = "STOPPING_EPS"
    /\ PipeRm(c)
    /\ broken' = broken \cup {c}
    /\ toReq' = [toReq EXCEPT ![c] = <<>>]
    /\ UNCHANGED <<repVars, reqSeen, repSeen>>

(* A request arrives in the pipe of the other end, or is lost with the     *)
(* connection, and the REQ pipe can send again. Pushback: a REP pipe takes *)
(* no message before the socket has fetched the one it holds.              *)
ReqTransmit(c) ==
    /\ ReqOut(c)
    /\ \/ /\ c \notin broken
          /\ RepPipeIn(c, [kind |-> "ok", id |-> outMsg[c]])
       \/ c \in broken /\ UNCHANGED repVars
    /\ UNCHANGED netVars

ReqReceive(c) ==
    /\ toReq[c] # <<>>
    /\ ReqIn(c, [kind |-> "ok", id |-> Head(toReq[c]).id])
    /\ toReq' = [toReq EXCEPT ![c] = Tail(@)]
    /\ UNCHANGED <<repVars, reqSeen, repSeen, broken>>

ReqEnd == ReqStop /\ UNCHANGED <<repVars, netVars>>

-----------------------------------------------------------------------------
(* The REP end. *)

RepApp ==
    /\ (\E c \in Conns : RepRecv(c)) \/ RepRecvAgain \/ RepSend
    /\ UNCHANGED <<reqVars, netVars>>

RepAttach(c) ==
    /\ c \notin repSeen \cup broken
    /\ RepPipeAdd(c)
    /\ repSeen' = repSeen \cup {c}
    /\ UNCHANGED <<reqVars, reqSeen, broken, toReq>>

RepDetach(c) ==
    /\ c \in broken
    /\ RepPipeRm(c)
    /\ UNCHANGED <<reqVars, netVars>>

(* A reply is on its way, or lost; the REP pipe can send again. *)
RepTransmit(c) ==
    /\ RepPipeOut(c)
    /\ \/ /\ c \notin broken
          /\ Len(toReq[c]) < Capacity
          /\ toReq' = [toReq EXCEPT ![c] = Append(@, repOut[c])]
       \/ c \in broken /\ UNCHANGED toReq
    /\ UNCHANGED <<reqVars, reqSeen, repSeen, broken>>

-----------------------------------------------------------------------------
Next ==
    \/ ReqApp
    \/ ReqTimer
    \/ ReqEnd
    \/ RepApp
    \/ \E c \in Pipes : \/ Break(c)
                        \/ ReqAttach(c)
                        \/ ReqDetach(c)
                        \/ ReqTransmit(c)
                        \/ ReqReceive(c)
                        \/ RepDetach(c)
                        \/ RepTransmit(c)
    \/ \E c \in Conns : RepAttach(c)
    \/ \E c \in Strangers : \/ \E m \in Requests : StrangerSend(c, m)
                            \/ StrangerRecv(c)

Spec == Init /\ [][Next]_vars

(***************************************************************************)
(* Fairness. Each worker thread processes its timers, tasks and descriptor *)
(* events, so whatever a transport or the timer has ready is eventually    *)
(* done; lost connections are re-established. Of the REP application it is *)
(* assumed that it keeps receiving and that, of the requests it receives   *)
(* on a connection, some get answered while the pipe can take the reply.   *)
(* Of the network it is assumed that from some time on the re-send timer   *)
(* does not fire while the request or its reply is still on its way.       *)
(***************************************************************************)
AnswerOn(c) ==
    /\ backtrace.kind = "trace" /\ backtrace.from = c /\ c \in repReady
    /\ RepSend
    /\ UNCHANGED <<reqVars, netVars>>

OnItsWay(c) ==
    \/ outMsg[c] = taskId
    \/ repIn[c] # NoMsg /\ repIn[c].id = taskId
    \/ backtrace # NoTrace /\ backtrace.from = c /\ backtrace.id = taskId
    \/ repOut[c] # NoMsg /\ repOut[c].id = taskId
    \/ \E i \in DOMAIN toReq[c] : toReq[c][i].id = taskId

PrematureTimeout == TimerTimeout /\ OnItsWay(sentTo)

Fairness ==
    /\ WF_vars(ReqTimer)
    /\ WF_vars(ReqEnd)
    /\ \A c \in Pipes :
        /\ WF_vars(ReqAttach(c))
        /\ WF_vars(ReqDetach(c))
        /\ WF_vars(ReqTransmit(c))
        /\ WF_vars(ReqReceive(c))
        /\ WF_vars(RepAttach(c))
        /\ WF_vars(RepDetach(c))
        /\ WF_vars(RepTransmit(c))
        /\ WF_vars(RepRecv(c) /\ UNCHANGED <<reqVars, netVars>>)
        /\ SF_vars(AnswerOn(c))
    /\ <>[][~PrematureTimeout]_vars

FairSpec == Spec /\ Fairness

-----------------------------------------------------------------------------
(* A request the user submitted is answered, whatever is lost on the way,  *)
(* as long as a connection can be had: through re-sending, cancelling and  *)
(* waiting for a pipe the socket gets to DONE, where nn_recv succeeds,     *)
(* unless it is closed first.                                              *)
EventuallyDone ==
    InProgress ~> (state = "DONE" \/ sock # "ACTIVE")

(* Closing the REQ socket ends in FINI, wherever the request and the timer *)
(* were: nn_close waits for that (core/sock.c:195-218).                    *)
CloseCompletes ==
    sock = "STOPPING_EPS" ~> sock = "FINI"
=============================================================================
