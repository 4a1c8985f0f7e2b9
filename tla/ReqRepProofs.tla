----------------------------- MODULE ReqRepProofs -----------------------------
(***************************************************************************)
(* What holds of a REQ socket and a REP socket that talk over breaking     *)
(* connections, for any connections and any number of requests.            *)
(*                                                                         *)
(* The composition implements the REQ socket's own specification, so that  *)
(* what ReqProofs proves holds in it as well. Of the REP socket: a reply   *)
(* leaves on the connection its request came in on, and no assertion fails *)
(* while the keys of the pipes are not exhausted. RepInv is the inductive  *)
(* invariant: keys are given out in order and never again, so the key in a *)
(* backtrace names no pipe but the one the request came from, even when    *)
(* that one is gone.                                                       *)
(***************************************************************************)
EXTENDS ReqRep, ReqProofs, FiniteSetTheorems, SequenceTheorems

(* nn_xrep counts its pipes with 31 bits: fewer connections than that are  *)
(* made while the socket is open.                                          *)
EnoughKeys == IsFiniteSet(Conns) /\ Cardinality(Conns) < KeySpace

(* Every pipe attached so far has a key of its own, below the next one. *)
KeysDiffer ==
    /\ repUp \subseteq repSeen /\ repSeen \subseteq Conns
    /\ repNextKey = Cardinality(repSeen)
    /\ \A c \in repSeen : repKey[c] < repNextKey
    /\ \A c, d \in repSeen : repKey[c] = repKey[d] => c = d

(* A pipe that is sending is attached and not ready for more, and sends a  *)
(* reply to what came in on it. A pipe that holds a request is attached.   *)
PipesHoldTheirOwn ==
    \A c \in Conns :
        /\ repIn[c] # NoMsg => c \in repUp
        /\ repOut[c] # NoMsg => c \in repUp \ repReady /\ repOut[c].from = c

(* The backtrace has the key of the pipe the request came from. *)
TraceNamesItsPipe ==
    backtrace # NoTrace => /\ backtrace.from \in repSeen
                           /\ backtrace.key = repKey[backtrace.from]

RepInv ==
    /\ RepTypeOK
    /\ RepNoAbort
    /\ KeysDiffer
    /\ PipesHoldTheirOwn
    /\ TraceNamesItsPipe

(* What is in flight to the REQ socket are replies. *)
RepliesInFlight == toReq \in [Pipes -> Seq(Answers)]

-----------------------------------------------------------------------------
(* Kinds of messages are not mistaken for each other. *)
LEMMA MessageKinds ==
    /\ \A m \in Requests : m # NoMsg
    /\ \A m \in Answers : m # NoMsg /\ m.id \in RequestIds /\ m.from \in Conns
    /\ \A b \in Traces : /\ b # NoTrace /\ b.key \in 0 .. KeySpace - 1
                         /\ b.id \in RequestIds /\ b.from \in Conns
    /\ \A m \in Requests : m.kind = "ok" => m.id \in RequestIds
    /\ \A i \in RequestIds, c \in Conns :
          [kind |-> "reply", id |-> i, from |-> c] \in Answers
    /\ \A i \in RequestIds : [kind |-> "ok", id |-> i] \in Requests
<1>1. \A m \in Requests : m # NoMsg
  BY DEF Requests, NoMsg, Malformed
<1>2. \A m \in Answers : m # NoMsg /\ m.id \in RequestIds /\ m.from \in Conns
  BY DEF Answers, NoMsg
<1>3. \A b \in Traces : /\ b # NoTrace /\ b.key \in 0 .. KeySpace - 1
                        /\ b.id \in RequestIds /\ b.from \in Conns
  BY DEF Traces, NoTrace
<1>4. \A m \in Requests : m.kind = "ok" => m.id \in RequestIds
  BY DEF Requests, Malformed
<1> QED
  BY <1>1, <1>2, <1>3, <1>4 DEF Answers, Requests

LEMMA RepInvInit == RepInit /\ repSeen = {} => RepInv
<1>1. SUFFICES ASSUME RepInit, repSeen = {} PROVE RepInv
  OBVIOUS
<1>2. 0 \in 0 .. KeySpace - 1
  BY RepAssumption
<1>3. RepTypeOK
  BY <1>1, <1>2 DEF RepInit, RepTypeOK
<1>4. RepNoAbort /\ PipesHoldTheirOwn /\ TraceNamesItsPipe
  BY <1>1 DEF RepInit, RepNoAbort, PipesHoldTheirOwn, TraceNamesItsPipe
<1>5. KeysDiffer
  BY <1>1, FS_EmptySet DEF RepInit, KeysDiffer
<1> QED
  BY <1>3, <1>4, <1>5 DEF RepInv

(* A pipe that was never attached before gets a key that no other had. *)
LEMMA RepPipeAddInv ==
    ASSUME EnoughKeys, RepInv, NEW c \in Conns \ repSeen, RepPipeAdd(c),
           repSeen' = repSeen \cup {c}
    PROVE  RepInv'
<1> USE DEF RepInv
<1>1. PICK n \in Nat : n = Cardinality(repSeen)
  BY FS_Subset, FS_CardinalityType DEF EnoughKeys, KeysDiffer
<1>2. n + 1 < KeySpace /\ Cardinality(repSeen') = n + 1 /\ KeySpace \in Nat
  <2>1. IsFiniteSet(repSeen)
    BY FS_Subset DEF EnoughKeys, KeysDiffer
  <2>2. Cardinality(repSeen \cup {c}) = n + 1
    BY <1>1, <2>1, FS_AddElement
  <2>3. repSeen \cup {c} \in SUBSET Conns
    BY DEF KeysDiffer
  <2>4. Cardinality(repSeen \cup {c}) <= Cardinality(Conns) /\ Cardinality(Conns) \in Nat
    BY <2>3, FS_Subset, FS_CardinalityType DEF EnoughKeys
  <2> QED
    BY <2>2, <2>4, RepAssumption DEF EnoughKeys
<1>3. repNextKey = n /\ repNextKey' = n + 1 /\ repKey' = [repKey EXCEPT ![c] = n]
  <2>1. (n + 1) % KeySpace = n + 1
    BY <1>2
  <2> QED
    BY <1>1, <2>1 DEF RepPipeAdd, KeysDiffer
<1>4. /\ repUp' = repUp \cup {c} /\ repReady' = repReady \cup {c}
      /\ UNCHANGED <<repIn, repOut, backtrace>>
  BY DEF RepPipeAdd
<1>5. repKey'[c] = n /\ \A d \in repSeen : repKey'[d] = repKey[d] /\ repKey[d] < n /\ repKey[d] \in Nat
  BY <1>2, <1>3 DEF RepTypeOK, KeysDiffer
<1>6. RepNoAbort'
  <2>1. \A d \in repUp : d \in repSeen /\ repKey[d] < n /\ repKey[d] \in Nat
    BY <1>5 DEF KeysDiffer
  <2>2. ~ \E d \in repUp : repKey[d] = repNextKey
    BY <1>3, <2>1
  <2> QED
    BY <2>2 DEF RepPipeAdd, RepNoAbort
<1>7. KeysDiffer'
  <2>1. ASSUME NEW d \in repSeen', NEW e \in repSeen', repKey'[d] = repKey'[e] PROVE d = e
    BY <1>5, <2>1 DEF KeysDiffer
  <2>2. \A d \in repSeen' : repKey'[d] < n + 1
    BY <1>5
  <2> QED
    BY <1>2, <1>3, <1>4, <2>1, <2>2 DEF KeysDiffer
<1>8. RepTypeOK'
  <2>1. n \in 0 .. KeySpace - 1 /\ n + 1 \in 0 .. KeySpace - 1
    BY <1>2
  <2>2. repKey' \in [Conns -> 0 .. KeySpace - 1] /\ repNextKey' \in 0 .. KeySpace - 1
    BY <1>3, <2>1 DEF RepTypeOK
  <2>3. repAborted' \in BOOLEAN
    BY <1>6 DEF RepNoAbort, RepPipeAdd
  <2> QED
    BY <1>4, <2>2, <2>3 DEF RepTypeOK
<1>9. PipesHoldTheirOwn'
  BY <1>4 DEF PipesHoldTheirOwn, KeysDiffer
<1>10. TraceNamesItsPipe'
  BY <1>4, <1>5 DEF TraceNamesItsPipe
<1> QED
  BY <1>6, <1>7, <1>8, <1>9, <1>10

(* A pipe leaves, and what it held is gone. *)
LEMMA RepPipeRmInv ==
    ASSUME RepInv, NEW c \in Conns, RepPipeRm(c), repSeen' = repSeen
    PROVE  RepInv'
<1> USE DEF RepInv
<1>1. /\ repUp' = repUp \ {c} /\ repReady' = repReady \ {c}
      /\ repIn' = [repIn EXCEPT ![c] = NoMsg] /\ repOut' = [repOut EXCEPT ![c] = NoMsg]
      /\ UNCHANGED <<repKey, repNextKey, backtrace, repAborted>>
  BY DEF RepPipeRm
<1>2. RepTypeOK'
  BY <1>1 DEF RepTypeOK
<1>3. PipesHoldTheirOwn'
  BY <1>1 DEF PipesHoldTheirOwn, RepTypeOK
<1>4. RepNoAbort' /\ KeysDiffer' /\ TraceNamesItsPipe'
  BY <1>1 DEF RepNoAbort, KeysDiffer, TraceNamesItsPipe
<1> QED
  BY <1>2, <1>3, <1>4

LEMMA RepPipeInInv ==
    ASSUME RepInv, NEW c \in Conns, NEW m \in Requests, RepPipeIn(c, m), repSeen' = repSeen
    PROVE  RepInv'
<1> USE DEF RepInv
<1>1. /\ c \in repUp /\ repIn' = [repIn EXCEPT ![c] = m]
      /\ UNCHANGED <<repUp, repKey, repNextKey, repReady, repOut, backtrace, repAborted>>
  BY DEF RepPipeIn
<1>2. RepTypeOK' /\ PipesHoldTheirOwn'
  BY <1>1 DEF RepTypeOK, PipesHoldTheirOwn
<1>3. RepNoAbort' /\ KeysDiffer' /\ TraceNamesItsPipe'
  BY <1>1 DEF RepNoAbort, KeysDiffer, TraceNamesItsPipe
<1> QED
  BY <1>2, <1>3

LEMMA RepPipeOutInv ==
    ASSUME RepInv, NEW c \in Conns, RepPipeOut(c), repSeen' = repSeen
    PROVE  RepInv'
<1> USE DEF RepInv
<1>1. /\ c \in repUp /\ repOut' = [repOut EXCEPT ![c] = NoMsg]
      /\ repReady' = repReady \cup {c}
      /\ UNCHANGED <<repUp, repKey, repNextKey, repIn, backtrace, repAborted>>
  BY DEF RepPipeOut
<1>2. RepTypeOK' /\ PipesHoldTheirOwn'
  BY <1>1 DEF RepTypeOK, PipesHoldTheirOwn
<1>3. RepNoAbort' /\ KeysDiffer' /\ TraceNamesItsPipe'
  BY <1>1 DEF RepNoAbort, KeysDiffer, TraceNamesItsPipe
<1> QED
  BY <1>2, <1>3

LEMMA RepRecvInv ==
    ASSUME RepInv, NEW c \in Conns, RepRecv(c), repSeen' = repSeen
    PROVE  RepInv'
<1> USE DEF RepInv
<1>1. /\ repIn[c] # NoMsg /\ repIn' = [repIn EXCEPT ![c] = NoMsg]
      /\ UNCHANGED <<repUp, repKey, repNextKey, repReady, repOut, repAborted>>
  BY DEF RepRecv
<1>2. repIn[c] \in Requests /\ c \in repSeen /\ repKey[c] \in 0 .. KeySpace - 1
  BY <1>1 DEF RepTypeOK, PipesHoldTheirOwn, KeysDiffer
<1>3. CASE repIn[c].kind = "ok"
  <2>1. PICK i \in RequestIds : i = repIn[c].id
    BY <1>2, <1>3, MessageKinds
  <2>2. backtrace' = [kind |-> "trace", key |-> repKey[c], id |-> i, from |-> c]
    BY <1>3, <2>1 DEF RepRecv
  <2>3. backtrace' \in Traces /\ backtrace'.from = c /\ backtrace'.key = repKey[c]
    BY <1>2, <2>2 DEF Traces
  <2>4. TraceNamesItsPipe'
    BY <1>1, <1>2, <2>3 DEF TraceNamesItsPipe
  <2>5. RepTypeOK' /\ PipesHoldTheirOwn'
    BY <1>1, <2>3 DEF RepTypeOK, PipesHoldTheirOwn
  <2> QED
    BY <1>1, <2>4, <2>5 DEF RepNoAbort, KeysDiffer
<1>4. CASE repIn[c].kind # "ok"
  <2>1. backtrace' = NoTrace
    BY <1>4 DEF RepRecv
  <2>2. RepTypeOK' /\ PipesHoldTheirOwn' /\ TraceNamesItsPipe'
    BY <1>1, <2>1 DEF RepTypeOK, PipesHoldTheirOwn, TraceNamesItsPipe
  <2> QED
    BY <1>1, <2>2 DEF RepNoAbort, KeysDiffer
<1> QED
  BY <1>3, <1>4

(* The pipe under the key of the backtrace is the one the request came     *)
(* from, if any is.                                                        *)
LEMMA DestinationIsOrigin ==
    ASSUME RepInv, backtrace # NoTrace, NEW c \in Destination
    PROVE  c = backtrace.from /\ backtrace \in Traces
  BY DEF RepInv, Destination, TraceNamesItsPipe, KeysDiffer, RepTypeOK

LEMMA RepSendInv ==
    ASSUME RepInv, RepSend, repSeen' = repSeen
    PROVE  RepInv'
<1> USE DEF RepInv
<1>1. /\ backtrace # NoTrace /\ backtrace' = NoTrace
      /\ UNCHANGED <<repUp, repKey, repNextKey, repIn>>
  BY DEF RepSend
<1>2. KeysDiffer' /\ TraceNamesItsPipe'
  BY <1>1 DEF KeysDiffer, TraceNamesItsPipe
<1>3. CASE Destination \cap repReady = {}
  <2>1. UNCHANGED <<repReady, repOut, repAborted>>
    BY <1>3 DEF RepSend
  <2>2. RepTypeOK' /\ PipesHoldTheirOwn' /\ RepNoAbort'
    BY <1>1, <2>1 DEF RepTypeOK, PipesHoldTheirOwn, RepNoAbort
  <2> QED
    BY <1>2, <2>2
<1>4. CASE Destination \cap repReady # {}
  <2>1. PICK c \in Destination \cap repReady :
           /\ repReady' = repReady \ {c}
           /\ repOut' = [repOut EXCEPT ![c] = [kind |-> "reply", id |-> backtrace.id,
                                               from |-> backtrace.from]]
           /\ repAborted' = (repAborted \/ repOut[c] # NoMsg)
    BY <1>4 DEF RepSend
  <2>2. /\ c = backtrace.from /\ c \in Conns /\ c \in repUp /\ backtrace.id \in RequestIds
    BY <1>1, <2>1, DestinationIsOrigin, MessageKinds DEF Destination
  <2>3. PICK m \in Answers : m = [kind |-> "reply", id |-> backtrace.id, from |-> c]
    BY <2>2, MessageKinds
  <2>4. m.from = c /\ repOut' = [repOut EXCEPT ![c] = m]
    BY <2>1, <2>2, <2>3
  <2>5. RepTypeOK'
    <3>1. repOut[c] = NoMsg
      BY <2>1, <2>2 DEF PipesHoldTheirOwn
    <3> QED
      BY <1>1, <2>1, <2>4, <3>1 DEF RepTypeOK
  <2>6. PipesHoldTheirOwn'
    BY <1>1, <2>1, <2>2, <2>4 DEF PipesHoldTheirOwn, RepTypeOK
  <2>7. RepNoAbort'
    BY <2>1, <2>2 DEF RepNoAbort, PipesHoldTheirOwn
  <2> QED
    BY <1>2, <2>5, <2>6, <2>7
<1> QED
  BY <1>3, <1>4

LEMMA RepRecvAgainInv ==
    ASSUME RepInv, RepRecvAgain, repSeen' = repSeen
    PROVE  RepInv'
  BY DEF RepRecvAgain, RepInv, RepTypeOK, RepNoAbort, KeysDiffer, PipesHoldTheirOwn,
         TraceNamesItsPipe

-----------------------------------------------------------------------------
(* Steps of the composition. *)

(* Steps that leave the REP socket alone. *)
LEMMA RepInvStutter ==
    ASSUME RepInv, UNCHANGED repVars, repSeen' = repSeen PROVE RepInv'
  BY DEF repVars, RepInv, RepTypeOK, RepNoAbort, KeysDiffer, PipesHoldTheirOwn,
         TraceNamesItsPipe, Destination

(* The requests a REQ socket puts on the wire are well-formed. *)
LEMMA RequestOnWire ==
    ASSUME ReqInv, NEW c \in Pipes, ReqOut(c)
    PROVE  [kind |-> "ok", id |-> outMsg[c]] \in Requests
<1>1. outMsg[c] \in Ids /\ outMsg[c] # 0 /\ MaxRequests \in Nat
  BY ReqAssumption DEF ReqInv, ReqTypeOK, ReqOut, NoRequest
<1>2. outMsg[c] \in RequestIds
  BY <1>1, ReqRepAssumption DEF Ids
<1> QED
  BY <1>2, MessageKinds

LEMMA RepInvStep ==
    ASSUME EnoughKeys, ReqInv, RepInv, [Next]_vars PROVE RepInv'
<1>1. Pipes \in SUBSET Conns /\ Strangers \in SUBSET Conns
  BY ReqRepAssumption
<1>2. CASE ReqApp \/ ReqTimer \/ ReqEnd
  BY <1>2, RepInvStutter DEF ReqApp, ReqTimer, ReqEnd, netVars
<1>3. CASE RepApp
  <2>1. repSeen' = repSeen
    BY <1>3 DEF RepApp, netVars
  <2> QED
    BY <1>3, <2>1, RepRecvInv, RepRecvAgainInv, RepSendInv DEF RepApp
<1>4. ASSUME NEW c \in Pipes, Break(c) \/ ReqAttach(c) \/ ReqDetach(c) \/ ReqReceive(c)
      PROVE  RepInv'
  BY <1>4, RepInvStutter DEF Break, ReqAttach, ReqDetach, ReqReceive
<1>5. ASSUME NEW c \in Pipes, ReqTransmit(c) PROVE RepInv'
  <2>1. repSeen' = repSeen /\ ReqOut(c)
    BY <1>5 DEF ReqTransmit, netVars
  <2>2. CASE UNCHANGED repVars
    BY <2>1, <2>2, RepInvStutter
  <2>3. CASE RepPipeIn(c, [kind |-> "ok", id |-> outMsg[c]])
    BY <1>1, <2>1, <2>3, RequestOnWire, RepPipeInInv
  <2> QED
    BY <1>5, <2>2, <2>3 DEF ReqTransmit
<1>6. ASSUME NEW c \in Pipes, RepDetach(c) PROVE RepInv'
  BY <1>1, <1>6, RepPipeRmInv DEF RepDetach, netVars
<1>7. ASSUME NEW c \in Pipes, RepTransmit(c) PROVE RepInv'
  BY <1>1, <1>7, RepPipeOutInv DEF RepTransmit
<1>8. ASSUME NEW c \in Conns, RepAttach(c) PROVE RepInv'
  BY <1>8, RepPipeAddInv DEF RepAttach
<1>9. ASSUME NEW c \in Strangers, NEW m \in Requests, StrangerSend(c, m) PROVE RepInv'
  BY <1>1, <1>9, RepPipeInInv DEF StrangerSend, netVars
<1>10. ASSUME NEW c \in Strangers, StrangerRecv(c) PROVE RepInv'
  BY <1>1, <1>10, RepPipeOutInv DEF StrangerRecv, netVars
<1>11. CASE UNCHANGED vars
  BY <1>11, RepInvStutter DEF vars, netVars
<1> QED
  BY <1>2, <1>3, <1>4, <1>5, <1>6, <1>7, <1>8, <1>9, <1>10, <1>11 DEF Next

(* The replies in flight keep their type. *)
LEMMA RepliesInFlightStep ==
    ASSUME RepInv, RepliesInFlight, [Next]_vars PROVE RepliesInFlight'
<1>1. ASSUME NEW c \in Pipes, RepTransmit(c) PROVE RepliesInFlight'
  <2>1. repOut[c] \in Answers
    BY <1>1, ReqRepAssumption DEF RepTransmit, RepPipeOut, RepInv, RepTypeOK
  <2>2. CASE UNCHANGED toReq
    BY <2>2 DEF RepliesInFlight
  <2>3. CASE toReq' = [toReq EXCEPT ![c] = Append(@, repOut[c])]
    BY <2>1, <2>3 DEF RepliesInFlight
  <2> QED
    BY <1>1, <2>2, <2>3 DEF RepTransmit
<1>2. ASSUME NEW c \in Pipes, ReqReceive(c) PROVE RepliesInFlight'
  <2>1. toReq[c] # <<>> /\ toReq' = [toReq EXCEPT ![c] = Tail(@)]
    BY <1>2 DEF ReqReceive
  <2> QED
    BY <2>1 DEF RepliesInFlight
<1>3. ASSUME NEW c \in Pipes, ReqDetach(c) PROVE RepliesInFlight'
  BY <1>3 DEF ReqDetach, RepliesInFlight
<1>4. CASE UNCHANGED toReq
  BY <1>4 DEF RepliesInFlight
<1> QED
  BY <1>1, <1>2, <1>3, <1>4
     DEF Next, vars, netVars, ReqApp, ReqTimer, ReqEnd, RepApp, Break, ReqAttach,
         ReqTransmit, RepDetach, RepAttach, StrangerSend, StrangerRecv

(* Every step of the composition is a step of the REQ socket's own         *)
(* specification, or leaves the socket alone.                              *)
LEMMA StepIsReqStep ==
    ASSUME RepliesInFlight, [Next]_vars PROVE [ReqNext]_reqVars
<1>1. CASE ReqApp \/ ReqTimer \/ ReqEnd
  BY <1>1 DEF ReqApp, ReqTimer, ReqEnd, ReqNext
<1>2. ASSUME NEW c \in Pipes, ReqAttach(c) \/ ReqDetach(c) \/ ReqTransmit(c) PROVE ReqNext
  BY <1>2 DEF ReqAttach, ReqDetach, ReqTransmit, ReqNext
<1>3. ASSUME NEW c \in Pipes, ReqReceive(c) PROVE ReqNext
  <2>1. Head(toReq[c]) \in Answers
    BY <1>3 DEF ReqReceive, RepliesInFlight
  <2>2. Head(toReq[c]).id \in Ids
    BY <2>1, MessageKinds, ReqRepAssumption, ReqAssumption DEF Ids
  <2>3. [kind |-> "ok", id |-> Head(toReq[c]).id] \in Replies
    BY <2>2 DEF Replies
  <2> QED
    BY <1>3, <2>3 DEF ReqReceive, ReqNext
<1>4. CASE UNCHANGED reqVars
  BY <1>4
<1> QED
  BY <1>1, <1>2, <1>3, <1>4
     DEF Next, vars, RepApp, Break, RepDetach, RepTransmit, RepAttach, StrangerSend,
         StrangerRecv

-----------------------------------------------------------------------------
(* The invariants of both sockets hold together throughout. *)
THEOREM ReqRepInvariant ==
    ASSUME EnoughKeys PROVE Spec => [](ReqInv /\ RepInv /\ RepliesInFlight)
<1>1. Init => ReqInv /\ RepInv /\ RepliesInFlight
  <2>1. ASSUME Init PROVE RepliesInFlight
    BY <2>1 DEF Init, RepliesInFlight
  <2> QED
    BY <2>1, ReqInvInit, RepInvInit DEF Init
<1>2. ReqInv /\ RepInv /\ RepliesInFlight /\ [Next]_vars
         => (ReqInv /\ RepInv /\ RepliesInFlight)'
  <2>1. SUFFICES ASSUME ReqInv, RepInv, RepliesInFlight, [Next]_vars
                 PROVE  ReqInv' /\ RepInv' /\ RepliesInFlight'
    OBVIOUS
  <2>2. ReqInv'
    BY <2>1, StepIsReqStep, ReqInvStep
  <2> QED
    BY <2>1, <2>2, RepInvStep, RepliesInFlightStep
<1> QED
  BY <1>1, <1>2, PTL DEF Spec

(* The REQ socket in the composition behaves as its own specification      *)
(* says: everything proved of it in ReqProofs holds with a REP socket,     *)
(* strangers and breaking connections around it.                           *)
THEOREM ReqRepImplementsReq ==
    ASSUME EnoughKeys PROVE Spec => ReqSpec
<1>1. Init => ReqInit
  BY DEF Init
<1>2. RepliesInFlight /\ [Next]_vars => [ReqNext]_reqVars
  BY StepIsReqStep
<1> QED
  BY <1>1, <1>2, ReqRepInvariant, PTL DEF Spec, ReqSpec

(* nn_hash_insert never finds the key of a new pipe in use, and            *)
(* nn_pipe_send never a pipe that is still sending, as long as the keys    *)
(* last.                                                                   *)
THEOREM RepNeverAborts ==
    ASSUME EnoughKeys PROVE Spec => []RepNoAbort
<1>1. RepInv => RepNoAbort
  BY DEF RepInv
<1> QED
  BY <1>1, ReqRepInvariant, PTL

(* A reply leaves on the connection its request came in on, never on one   *)
(* that was made after that one died nor on another client's.              *)
THEOREM RepliesGoBack ==
    ASSUME EnoughKeys PROVE Spec => []ReplyGoesBack
<1>1. RepInv => ReplyGoesBack
  BY DEF RepInv, ReplyGoesBack, PipesHoldTheirOwn
<1> QED
  BY <1>1, ReqRepInvariant, PTL
=============================================================================
