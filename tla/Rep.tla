--------------------------------- MODULE Rep ---------------------------------
(***************************************************************************)
(* The REP socket: protocols/reqrep/rep.c on top of xrep.c, as a component *)
(* whose environment is the application and the transports. Every action   *)
(* is one critical section of the socket's AIO context.                    *)
(*                                                                         *)
(* A request carries the backtrace its REQ peer (or a device) put in front *)
(* of the body; the part of it that a REP socket sends back unchanged is   *)
(* abstracted to the request ID at its bottom. `from' is not in the bytes: *)
(* it records the pipe the request came in on, for the properties.         *)
(* The fair queue is abstracted to the set of pipes holding a message; any *)
(* of them may be next (module Priolist says which one the code picks).    *)
(***************************************************************************)
EXTENDS Naturals

CONSTANTS Conns,      \* the pipes that may ever be attached to the socket
          RequestIds, \* request IDs that occur on the wire
          KeySpace    \* number of pipe keys, 2^31 in the code

ASSUME RepAssumption == KeySpace \in Nat \ {0}

VARIABLES
    repUp,      \* pipes attached, i.e. in xrep.outpipes
    repKey,     \* nn_xrep_data.outitem.key of an attached pipe
    repNextKey, \* nn_xrep.next_key, relative to its random start
    repIn,      \* message received by a pipe and not yet fetched from it
    repReady,   \* pipes with the flag NN_XREP_OUT
    repOut,     \* reply handed to a pipe that has not signalled OUT since
    backtrace,  \* nn_rep.backtrace, or NoTrace without NN_REP_INPROGRESS
    repAborted  \* an assertion of the code failed

repVars == <<repUp, repKey, repNextKey, repIn, repReady, repOut, backtrace,
             repAborted>>

(* "malformed": no bottom of the stack, or more than NN_MAXTTL hops. *)
Malformed == [kind |-> "malformed"]
Requests == [kind : {"ok"}, id : RequestIds] \cup {Malformed}
NoMsg == [kind |-> "none"]

Answers == [kind : {"reply"}, id : RequestIds, from : Conns]

NoTrace == [kind |-> "none"]
Traces == [kind : {"trace"}, key : 0 .. KeySpace - 1, id : RequestIds,
           from : Conns]

RepTypeOK ==
    /\ repUp \subseteq Conns
    /\ repKey \in [Conns -> 0 .. KeySpace - 1]
    /\ repNextKey \in 0 .. KeySpace - 1
    /\ repIn \in [Conns -> Requests \cup {NoMsg}]
    /\ repReady \subseteq repUp
    /\ repOut \in [Conns -> Answers \cup {NoMsg}]
    /\ backtrace \in Traces \cup {NoTrace}
    /\ repAborted \in BOOLEAN

RepInit ==
    /\ repUp = {}
    /\ repKey = [c \in Conns |-> 0]
    /\ repNextKey = 0
    /\ repIn = [c \in Conns |-> NoMsg]
    /\ repReady = {}
    /\ repOut = [c \in Conns |-> NoMsg]
    /\ backtrace = NoTrace
    /\ repAborted = FALSE

-----------------------------------------------------------------------------
(* Seeded fault: next_key is not incremented. *)
RepPipeAddSameKey(c) ==
    /\ c \notin repUp
    /\ repUp' = repUp \cup {c}
    /\ repKey' = [repKey EXCEPT ![c] = repNextKey]
    /\ repReady' = repReady \cup {c}
    /\ repAborted' = (repAborted \/ \E d \in repUp : repKey[d] = repNextKey)
    /\ UNCHANGED <<repNextKey, repIn, repOut, backtrace>>

(* Seeded fault: the lowest key not in use is taken again. *)
RepPipeAddReusedKey(c) ==
    /\ c \notin repUp
    /\ repUp' = repUp \cup {c}
    /\ \E k \in 0 .. KeySpace - 1 :
        /\ \A j \in 0 .. k - 1 : \E d \in repUp : repKey[d] = j
        /\ \A d \in repUp : repKey[d] # k
        /\ repKey' = [repKey EXCEPT ![c] = k]
    /\ repReady' = repReady \cup {c}
    /\ UNCHANGED <<repNextKey, repIn, repOut, backtrace, repAborted>>

(* nn_xrep_add, then the pipe's first NN_PIPE_OUT. nn_hash_insert asserts  *)
(* that the key is not in use.                                             *)
RepPipeAdd(c) ==
    /\ c \notin repUp
    /\ repUp' = repUp \cup {c}
    /\ repKey' = [repKey EXCEPT ![c] = repNextKey]
    /\ repNextKey' = (repNextKey + 1) % KeySpace
    /\ repReady' = repReady \cup {c}
    /\ repAborted' = (repAborted \/ \E d \in repUp : repKey[d] = repNextKey)
    /\ UNCHANGED <<repIn, repOut, backtrace>>

(* nn_xrep_rm. The backtrace of a request being processed is not touched. *)
RepPipeRm(c) ==
    /\ c \in repUp
    /\ repUp' = repUp \ {c}
    /\ repIn' = [repIn EXCEPT ![c] = NoMsg]
    /\ repReady' = repReady \ {c}
    /\ repOut' = [repOut EXCEPT ![c] = NoMsg]
    /\ UNCHANGED <<repKey, repNextKey, backtrace, repAborted>>

(* NN_PIPE_IN: nn_xrep_in queues the pipe; the message stays in the pipe. *)
RepPipeIn(c, m) ==
    /\ c \in repUp
    /\ repIn[c] = NoMsg
    /\ repIn' = [repIn EXCEPT ![c] = m]
    /\ UNCHANGED <<repUp, repKey, repNextKey, repReady, repOut, backtrace,
                   repAborted>>

(* NN_PIPE_OUT, once the transport has passed the reply on: nn_xrep_out. *)
RepPipeOut(c) ==
    /\ c \in repUp
    /\ repOut[c] # NoMsg
    /\ repOut' = [repOut EXCEPT ![c] = NoMsg]
    /\ repReady' = repReady \cup {c}
    /\ UNCHANGED <<repUp, repKey, repNextKey, repIn, backtrace, repAborted>>

(* nn_rep_recv on a message of pipe c: a request in progress is cancelled  *)
(* first; a malformed message is dropped and nothing is in progress then.  *)
RepRecv(c) ==
    /\ repIn[c] # NoMsg
    /\ repIn' = [repIn EXCEPT ![c] = NoMsg]
    /\ backtrace' = IF repIn[c].kind = "ok"
                    THEN [kind |-> "trace", key |-> repKey[c],
                          id |-> repIn[c].id, from |-> c]
                    ELSE NoTrace
    /\ UNCHANGED <<repUp, repKey, repNextKey, repReady, repOut, repAborted>>

(* nn_rep_recv with no message waiting (-EAGAIN) cancels as well. *)
RepRecvAgain ==
    /\ \A c \in Conns : repIn[c] = NoMsg
    /\ backtrace # NoTrace
    /\ backtrace' = NoTrace
    /\ UNCHANGED <<repUp, repKey, repNextKey, repIn, repReady, repOut,
                   repAborted>>

(* The pipes nn_xrep_send finds under the key on top of the backtrace. *)
Destination == {c \in repUp : repKey[c] = backtrace.key}

(* nn_rep_send and nn_xrep_send: the reply goes to the pipe the key names, *)
(* or is dropped when that pipe is gone or not ready for sending.          *)
RepSend ==
    /\ backtrace # NoTrace
    /\ backtrace' = NoTrace
    /\ \/ \E c \in Destination \cap repReady :
            /\ repReady' = repReady \ {c}
            /\ repOut' = [repOut EXCEPT ![c] =
                             [kind |-> "reply", id |-> backtrace.id,
                              from |-> backtrace.from]]
            \* nn_pipe_send asserts that the pipe is not sending already
            /\ repAborted' = (repAborted \/ repOut[c] # NoMsg)
       \/ /\ Destination \cap repReady = {}
          /\ UNCHANGED <<repReady, repOut, repAborted>>
    /\ UNCHANGED <<repUp, repKey, repNextKey, repIn>>

-----------------------------------------------------------------------------
(***************************************************************************)
(* Properties.                                                             *)
(***************************************************************************)

(* nn_hash_insert never meets a key in use and nn_pipe_send never finds    *)
(* the pipe still sending, in whatever order pipes come, go and signal.    *)
RepNoAbort == ~repAborted

(* A reply leaves on the connection its request came in on, never on one   *)
(* that was opened after that connection died, nor on another client's.    *)
(* And the state has its type.                                             *)
ReplyGoesBack ==
    /\ RepTypeOK
    /\ \A c \in Conns : repOut[c] # NoMsg => repOut[c].from = c
=============================================================================
