-------------------------------- MODULE Survey --------------------------------
(***************************************************************************)
(* The survey protocol: a SURVEYOR socket (survey/surveyor.c, xsurveyor.c),*)
(* RESPONDENT sockets (respondent.c, xrespondent.c) and a device           *)
(* (devices/device.c) that passes surveys and responses on between its two *)
(* raw sockets. Every action of a socket is one critical section of its    *)
(* AIO context.                                                            *)
(*                                                                         *)
(* A message is its stack of 32-bit words, a pipe key or, at the bottom, a *)
(* survey ID, and what its sender wrote about: the number of the survey    *)
(* and, in a response, the connection it answers on. The last two are not  *)
(* read by the sockets.                                                    *)
(*                                                                         *)
(* A connection is used once and may break; either end may notice before   *)
(* or after the other. The fair queue is abstracted to the set of pipes    *)
(* that hold a message (module Priolist says which one is next), the       *)
(* distributor (utils/dist.c) to the set of pipes ready for sending.       *)
(***************************************************************************)
EXTENDS Naturals, Sequences

CONSTANTS Surveyor, Device, Respondents,
          Stranger,    \* another surveyor
          Conns,       \* connections
          From, To,    \* their ends: Conns -> the surveying, the responding node
          Rogues,      \* connections whose responding end sends nonsense too
          Fragile,     \* bound: the connections that may break
          KeySpace,    \* number of pipe keys, 2^31 in the code
          MaxTTL,      \* NN_MAXTTL
          MaxSurveys   \* bound on the surveys sent

ASSUME SurveyAssumption ==
    /\ From \in [Conns -> {Surveyor, Device, Stranger}]
    /\ To \in [Conns -> Respondents \cup {Device}]
    /\ Stranger # Surveyor
    /\ Device \notin Respondents \cup {Surveyor, Stranger}
    /\ Rogues \subseteq Conns
    /\ Fragile \subseteq Conns
    /\ KeySpace \in Nat \ {0} /\ MaxTTL \in Nat /\ MaxSurveys \in Nat

VARIABLES
    sock,       \* state of the surveyor's socket
    state,      \* nn_surveyor.state
    timer,      \* its deadline timer
    surveyid,   \* number of the last survey
    timedout,   \* nn_surveyor.timedout
    sUp,        \* connections attached to their surveying end
    sReady,     \* of these, the ones in nn_dist.pipes
    sOut, sIn,  \* message the pipe is sending, has received
    rUp, rReady, rOut, rIn, \* the same at the responding end
    rKey,       \* nn_xrespondent_data.outitem.key
    rNextKey,   \* nn_xrespondent.next_key of each responding node
    backtrace,  \* of each respondent; None without NN_RESPONDENT_INPROGRESS
    seen,       \* the survey the respondent's user received last
    forward, backward, \* message held by each of the device's threads
    broken,     \* connections that are down
    got,        \* responses given to the user since the survey was sent
    owed,       \* the user has not been told how the last survey ended
    aborted     \* an assertion of the code failed

surveyorVars == <<sock, state, timer, surveyid, timedout, got, owed>>
sVars == <<sUp, sReady, sOut, sIn>>
rVars == <<rUp, rReady, rOut, rIn, rKey, rNextKey>>
userVars == <<backtrace, seen>>
devVars == <<forward, backward>>
vars == <<surveyorVars, sVars, rVars, userVars, devVars, broken, aborted>>

None == [kind |-> "none"]
Key(k) == <<"key", k>>
Id(n) == <<"id", n>>
Msg(stack, re, via) == [kind |-> "msg", stack |-> stack, re |-> re, via |-> via]

Init ==
    /\ sock = "ACTIVE" /\ state = "PASSIVE" /\ timer = "idle"
    /\ surveyid = 0 /\ timedout = FALSE
    /\ sUp = {} /\ sReady = {} /\ rUp = {} /\ rReady = {}
    /\ sOut = [c \in Conns |-> None] /\ sIn = sOut /\ rOut = sOut /\ rIn = sOut
    /\ rKey = [c \in Conns |-> 0]
    /\ rNextKey = [n \in Respondents \cup {Device} |-> 0]
    /\ backtrace = [r \in Respondents |-> None]
    /\ seen = [r \in Respondents |-> None]
    /\ forward = None /\ backward = None
    /\ broken = {}
    /\ got = <<>> /\ owed = FALSE /\ aborted = FALSE

-----------------------------------------------------------------------------
(* nn_xsurveyor. *)

(* nn_xsurveyor_add, then the pipe's first NN_PIPE_OUT. *)
XSurveyorAdd(c) ==
    /\ c \notin sUp \cup broken
    /\ From[c] = Surveyor => sock = "ACTIVE"
    /\ sUp' = sUp \cup {c}
    /\ sReady' = sReady \cup {c}
    /\ UNCHANGED <<sOut, sIn>>

XSurveyorRm(c) ==
    /\ c \in sUp
    /\ sUp' = sUp \ {c}
    /\ sReady' = sReady \ {c}
    /\ sOut' = [sOut EXCEPT ![c] = None]
    /\ sIn' = [sIn EXCEPT ![c] = None]

(* nn_dist_send: a copy for every pipe that is ready. A pipe that is       *)
(* released by nn_pipe_send leaves the list until its next NN_PIPE_OUT.    *)
XSurveyorSend(n, m) ==
    LET ready == {c \in sReady : From[c] = n}
    IN /\ sReady' = sReady \ ready
       /\ sOut' = [c \in Conns |-> IF c \in ready THEN m ELSE sOut[c]]
       /\ UNCHANGED <<sUp, sIn>>
       \* nn_pipe_send wants an idle pipe
       /\ aborted' = (aborted \/ \E c \in ready : sOut[c] # None)

(* Messages that wait, whole and malformed: nn_xsurveyor_recv wants a word.*)
Waiting(n) == {c \in Conns : From[c] = n /\ sIn[c] # None}
Whole(n) == {c \in Waiting(n) : sIn[c].stack # <<>>}

Fetch(fetched) ==
    /\ sIn' = [c \in Conns |-> IF c \in fetched THEN None ELSE sIn[c]]
    /\ UNCHANGED <<sUp, sReady, sOut>>

-----------------------------------------------------------------------------
(* nn_surveyor. *)

InProgress == state \notin {"IDLE", "PASSIVE", "STOPPING"}

(* nn_timer_stop: only an active timer starts stopping. *)
StopTimer == timer' = IF timer = "active" THEN "stopping" ELSE timer

(* nn_surveyor_resend and nn_timer_start, in state PASSIVE or CANCELLING;  *)
(* nn_timer_start wants the timer to be idle.                              *)
Start(id) ==
    /\ XSurveyorSend(Surveyor, Msg(<<Id(id)>>, id, Surveyor))
    /\ timer' = "active"
    /\ state' = "ACTIVE"

(* nn_surveyor_send: the survey replaces the one in progress. *)
SurveyorSend ==
    /\ sock = "ACTIVE"
    /\ surveyid < MaxSurveys
    /\ surveyid' = surveyid + 1
    /\ got' = <<>>
    /\ owed' = TRUE
    /\ IF ~InProgress
       THEN /\ IF timer = "idle" THEN Start(surveyid')
               ELSE aborted' = TRUE /\ UNCHANGED <<state, timer, sVars>>
            /\ UNCHANGED timedout
       ELSE /\ IF state = "ACTIVE" THEN StopTimer ELSE UNCHANGED timer
            /\ state' = "CANCELLING"
            /\ UNCHANGED <<timedout, sVars, aborted>>
    /\ UNCHANGED <<sock, rVars, userVars, devVars, broken>>

(* nn_surveyor_recv without a survey in progress: ETIMEDOUT once, EFSM     *)
(* from then on.                                                           *)
SurveyorRecvTimedOut ==
    /\ sock = "ACTIVE"
    /\ ~InProgress /\ timedout
    /\ timedout' = FALSE
    /\ owed' = FALSE
    /\ UNCHANGED <<sock, state, timer, surveyid, got, sVars, rVars, userVars, devVars,
                   broken, aborted>>

(* The responses whose ID is the one of the survey. *)
Good == {c \in Whole(Surveyor) : Head(sIn[c].stack) = Id(surveyid)}

(* nn_surveyor_recv: stale responses are skipped; the first good one is    *)
(* for the user, a malformed one ends the call (EAGAIN).                   *)
SurveyorRecv ==
    /\ sock = "ACTIVE"
    /\ InProgress
    /\ \E skipped \in SUBSET (Whole(Surveyor) \ Good) :
        \/ \E c \in Good :
              /\ Fetch(skipped \cup {c})
              /\ got' = Append(got, [re |-> sIn[c].re, via |-> sIn[c].via])
        \/ \E c \in Waiting(Surveyor) \ Whole(Surveyor) :
              Fetch(skipped \cup {c}) /\ UNCHANGED got
        \/ /\ skipped = Waiting(Surveyor) /\ skipped # {}
           /\ Fetch(skipped) /\ UNCHANGED got
    /\ UNCHANGED <<sock, state, timer, surveyid, timedout, owed, rVars, userVars, devVars,
                   broken, aborted>>

(* Seeded fault: the timer is left running. *)
TimerTimeoutRunning ==
    /\ timer = "active"
    /\ state' = "STOPPING_TIMER" /\ timedout' = TRUE
    /\ UNCHANGED <<timer, aborted>>
    /\ UNCHANGED <<sock, surveyid, got, owed, sVars, rVars, userVars, devVars, broken>>

(* NN_TIMER_TIMEOUT: the deadline of the survey. *)
TimerTimeout ==
    /\ timer = "active"
    /\ IF state = "ACTIVE"
       THEN StopTimer /\ state' = "STOPPING_TIMER" /\ timedout' = TRUE /\ UNCHANGED aborted
       ELSE aborted' = TRUE /\ UNCHANGED <<timer, state, timedout>>
    /\ UNCHANGED <<sock, surveyid, got, owed, sVars, rVars, userVars, devVars, broken>>

(* Seeded fault: a survey that came while the timer was stopping is not    *)
(* sent.                                                                   *)
TimerStoppedForgets ==
    /\ timer = "stopping"
    /\ timer' = "idle"
    /\ \/ state \in {"CANCELLING", "STOPPING_TIMER"} /\ state' = "PASSIVE" /\ UNCHANGED sock
       \/ state = "STOPPING" /\ state' = "IDLE" /\ sock' = "FINI"
    /\ UNCHANGED <<surveyid, timedout, got, owed, sVars, rVars, userVars, devVars, broken,
                   aborted>>

(* NN_TIMER_STOPPED. *)
TimerStopped ==
    /\ timer = "stopping"
    /\ CASE state = "CANCELLING" -> Start(surveyid) /\ UNCHANGED sock
         [] state = "STOPPING_TIMER" ->
              /\ state' = "PASSIVE" /\ timer' = "idle"
              /\ UNCHANGED <<sock, sVars, aborted>>
         [] state = "STOPPING" ->
              /\ state' = "IDLE" /\ timer' = "idle" /\ sock' = "FINI"
              /\ UNCHANGED <<sVars, aborted>>
         [] OTHER ->
              /\ aborted' = TRUE
              /\ UNCHANGED <<state, timer, sock, sVars>>
    /\ UNCHANGED <<surveyid, timedout, got, owed, rVars, userVars, devVars, broken>>

(* nn_close: the endpoints are stopped first. *)
Close ==
    /\ sock = "ACTIVE"
    /\ sock' = "STOPPING_EPS"
    /\ UNCHANGED <<state, timer, surveyid, timedout, got, owed, sVars, rVars, userVars,
                   devVars, broken, aborted>>

(* Then nn_surveyor_stop and nn_surveyor_shutdown. *)
SurveyorStop ==
    /\ sock = "STOPPING_EPS"
    /\ \A c \in sUp : From[c] # Surveyor
    /\ StopTimer
    /\ IF timer = "idle" THEN state' = "IDLE" /\ sock' = "FINI"
                         ELSE state' = "STOPPING" /\ sock' = "STOPPING"
    /\ UNCHANGED <<surveyid, timedout, got, owed, sVars, rVars, userVars, devVars, broken,
                   aborted>>

-----------------------------------------------------------------------------
(* nn_xrespondent. *)

(* Seeded fault: next_key is not incremented. *)
XRespondentAddSameKey(c) ==
    /\ c \notin rUp \cup broken
    /\ rUp' = rUp \cup {c}
    /\ rReady' = rReady \cup {c}
    /\ rKey' = [rKey EXCEPT ![c] = rNextKey[To[c]]]
    /\ aborted' = (aborted \/ \E d \in rUp : To[d] = To[c] /\ rKey[d] = rNextKey[To[c]])
    /\ UNCHANGED <<rNextKey, rOut, rIn>>

(* nn_xrespondent_add, then the pipe's first NN_PIPE_OUT. nn_hash_insert   *)
(* asserts that the key is not in use.                                     *)
XRespondentAdd(c) ==
    /\ c \notin rUp \cup broken
    /\ rUp' = rUp \cup {c}
    /\ rReady' = rReady \cup {c}
    /\ rKey' = [rKey EXCEPT ![c] = rNextKey[To[c]]]
    /\ rNextKey' = [rNextKey EXCEPT ![To[c]] = (@ + 1) % KeySpace]
    /\ aborted' = (aborted \/ \E d \in rUp : To[d] = To[c] /\ rKey[d] = rNextKey[To[c]])
    /\ UNCHANGED <<rOut, rIn>>

XRespondentRm(c) ==
    /\ c \in rUp
    /\ rUp' = rUp \ {c}
    /\ rReady' = rReady \ {c}
    /\ rOut' = [rOut EXCEPT ![c] = None]
    /\ rIn' = [rIn EXCEPT ![c] = None]
    /\ UNCHANGED <<rKey, rNextKey>>

(* nn_xrespondent_recv drops what has no bottom or came over too many hops.*)
WellFormed(m) ==
    /\ m.stack # <<>> /\ m.stack[Len(m.stack)][1] = "id"
    /\ Len(m.stack) <= MaxTTL

(* What it hands over: the key of the pipe is put on top. *)
XRespondentRecv(c) ==
    [rIn[c] EXCEPT !.stack = <<Key(rKey[c])>> \o @, !.via = c]

(* nn_xrespondent_send: the pipe whose key is on top, if it is still there *)
(* and ready; otherwise the message is dropped.                            *)
XRespondentSend(n, m) ==
    LET dest == {c \in rReady : To[c] = n /\ Key(rKey[c]) = Head(m.stack)}
    IN /\ m.stack # <<>>
       /\ rReady' = rReady \ dest
       /\ rOut' = [c \in Conns |-> IF c \in dest THEN [m EXCEPT !.stack = Tail(@)]
                                                 ELSE rOut[c]]
       /\ aborted' = (aborted \/ \E c \in dest : rOut[c] # None)
       /\ UNCHANGED <<rUp, rIn, rKey, rNextKey>>

TakeIn(c) ==
    /\ rIn' = [rIn EXCEPT ![c] = None]
    /\ UNCHANGED <<rUp, rReady, rOut, rKey, rNextKey>>

-----------------------------------------------------------------------------
(* nn_respondent. *)

(* Seeded fault: the first survey's backtrace is kept. *)
RespondentRecvKeeps(r, c) ==
    /\ To[c] = r /\ rIn[c] # None
    /\ TakeIn(c)
    /\ IF WellFormed(rIn[c])
       THEN /\ backtrace' = [backtrace EXCEPT ![r] = IF @ = None THEN XRespondentRecv(c) ELSE @]
            /\ seen' = [seen EXCEPT ![r] = [kind |-> "survey", re |-> rIn[c].re, via |-> c]]
       ELSE UNCHANGED <<backtrace, seen>>
    /\ UNCHANGED <<surveyorVars, sVars, devVars, broken, aborted>>

(* nn_respondent_recv: the survey in progress is cancelled in any case. *)
RespondentRecv(r, c) ==
    /\ To[c] = r /\ rIn[c] # None
    /\ TakeIn(c)
    /\ IF WellFormed(rIn[c])
       THEN /\ backtrace' = [backtrace EXCEPT ![r] = XRespondentRecv(c)]
            /\ seen' = [seen EXCEPT ![r] = [kind |-> "survey", re |-> rIn[c].re, via |-> c]]
       ELSE /\ backtrace' = [backtrace EXCEPT ![r] = None]
            /\ UNCHANGED seen
    /\ UNCHANGED <<surveyorVars, sVars, devVars, broken, aborted>>

(* The same with nothing to receive, EAGAIN. *)
RespondentRecvAgain(r) ==
    /\ \A c \in Conns : To[c] = r => rIn[c] = None
    /\ backtrace[r] # None
    /\ backtrace' = [backtrace EXCEPT ![r] = None]
    /\ UNCHANGED <<surveyorVars, sVars, rVars, seen, devVars, broken, aborted>>

(* Seeded fault: the survey stays in progress after the response. *)
RespondentSendAgain(r) ==
    /\ backtrace[r] # None
    /\ XRespondentSend(r, Msg(backtrace[r].stack, seen[r].re, seen[r].via))
    /\ UNCHANGED <<surveyorVars, sVars, userVars, devVars, broken>>

(* nn_respondent_send: the user answers the survey it received last. *)
RespondentSend(r) ==
    /\ backtrace[r] # None
    /\ XRespondentSend(r, Msg(backtrace[r].stack, seen[r].re, seen[r].via))
    /\ backtrace' = [backtrace EXCEPT ![r] = None]
    /\ UNCHANGED <<surveyorVars, sVars, seen, devVars, broken>>

-----------------------------------------------------------------------------
(* nn_device_forwarder: one thread for each direction, nn_recvmsg on one   *)
(* raw socket and then nn_sendmsg on the other.                            *)

ForwardRecv(c) ==
    /\ To[c] = Device /\ rIn[c] # None /\ forward = None
    /\ TakeIn(c)
    /\ forward' = IF WellFormed(rIn[c]) THEN XRespondentRecv(c) ELSE None
    /\ UNCHANGED <<surveyorVars, sVars, userVars, backward, broken, aborted>>

ForwardSend ==
    /\ forward # None
    /\ XSurveyorSend(Device, forward)
    /\ forward' = None
    /\ UNCHANGED <<surveyorVars, rVars, userVars, backward, broken>>

(* nn_xsurveyor_recv makes a header of the first word only; the rest of    *)
(* the stack travels in the body.                                          *)
BackwardRecv(c) ==
    /\ From[c] = Device /\ sIn[c] # None /\ backward = None
    /\ Fetch({c})
    /\ backward' = IF sIn[c].stack # <<>> THEN sIn[c] ELSE None
    /\ UNCHANGED <<surveyorVars, rVars, userVars, forward, broken, aborted>>

BackwardSend ==
    /\ backward # None
    /\ XRespondentSend(Device, backward)
    /\ backward' = None
    /\ UNCHANGED <<surveyorVars, sVars, userVars, forward, broken>>

-----------------------------------------------------------------------------
(* The connections. *)

Break(c) ==
    /\ c \in Fragile \ broken
    /\ broken' = broken \cup {c}
    /\ UNCHANGED <<surveyorVars, sVars, rVars, userVars, devVars, aborted>>

SurveyingEndAdd(c) ==
    /\ From[c] # Stranger
    /\ XSurveyorAdd(c)
    /\ UNCHANGED <<surveyorVars, rVars, userVars, devVars, broken, aborted>>

(* The connection broke, or the surveyor is closing. *)
SurveyingEndRm(c) ==
    /\ c \in broken \/ (From[c] = Surveyor /\ sock = "STOPPING_EPS")
    /\ XSurveyorRm(c)
    /\ broken' = broken \cup {c}
    /\ UNCHANGED <<surveyorVars, rVars, userVars, devVars, aborted>>

RespondingEndAdd(c) ==
    /\ XRespondentAdd(c)
    /\ UNCHANGED <<surveyorVars, sVars, userVars, devVars, broken>>

RespondingEndRm(c) ==
    /\ c \in broken
    /\ XRespondentRm(c)
    /\ UNCHANGED <<surveyorVars, sVars, userVars, devVars, broken, aborted>>

(* The survey arrives, or is lost with the connection; NN_PIPE_OUT. The    *)
(* other end takes no message before the socket has fetched the last one.  *)
SurveyArrives(c) ==
    /\ sOut[c] # None
    /\ \/ c \notin broken /\ c \in rUp /\ rIn[c] = None /\ rIn' = [rIn EXCEPT ![c] = sOut[c]]
       \/ c \in broken /\ UNCHANGED rIn
    /\ sOut' = [sOut EXCEPT ![c] = None]
    /\ sReady' = sReady \cup {c}
    /\ UNCHANGED <<surveyorVars, sUp, sIn, rUp, rReady, rOut, rKey, rNextKey, userVars,
                   devVars, broken, aborted>>

ResponseArrives(c) ==
    /\ rOut[c] # None
    /\ \/ /\ c \notin broken /\ c \in sUp
          /\ sIn[c] = None /\ sIn' = [sIn EXCEPT ![c] = rOut[c]]
       \/ (c \in broken \/ From[c] = Stranger) /\ UNCHANGED sIn
    /\ rOut' = [rOut EXCEPT ![c] = None]
    /\ rReady' = rReady \cup {c}
    /\ UNCHANGED <<surveyorVars, sUp, sReady, sOut, rUp, rIn, rKey, rNextKey, userVars,
                   devVars, broken, aborted>>

(* Another surveyor asks, with the same IDs, or sends a malformed survey. *)
StrangerSurvey(c, stack) ==
    /\ From[c] = Stranger /\ c \in rUp /\ rIn[c] = None
    /\ rIn' = [rIn EXCEPT ![c] = Msg(stack, 0, Stranger)]
    /\ UNCHANGED <<surveyorVars, sVars, rUp, rReady, rOut, rKey, rNextKey, userVars,
                   devVars, broken, aborted>>

(* The application at the other end, a raw socket, sends a response that   *)
(* is too short or has another word on top.                                *)
Nonsense(c, stack) ==
    /\ c \in (Rogues \cap sUp) \ broken
    /\ sIn[c] = None
    /\ sIn' = [sIn EXCEPT ![c] = Msg(stack, 0, c)]
    /\ UNCHANGED <<surveyorVars, sUp, sReady, sOut, rVars, userVars, devVars, broken,
                   aborted>>

Deadline == TimerTimeout \/ TimerStopped

Next ==
    \/ SurveyorSend \/ SurveyorRecv \/ SurveyorRecvTimedOut
    \/ TimerTimeout \/ TimerStopped
    \/ Close \/ SurveyorStop
    \/ ForwardSend \/ BackwardSend
    \/ \E c \in Conns :
        \/ SurveyingEndAdd(c) \/ SurveyingEndRm(c)
        \/ RespondingEndAdd(c) \/ RespondingEndRm(c)
        \/ SurveyArrives(c) \/ ResponseArrives(c)
        \/ ForwardRecv(c) \/ BackwardRecv(c)
        \/ Break(c)
        \/ \E stack \in {<<Id(1)>>, <<Key(0)>>} : StrangerSurvey(c, stack)
        \/ \E stack \in {<<>>, <<Key(0)>>} : Nonsense(c, stack)
    \/ \E r \in Respondents :
        \/ RespondentSend(r) \/ RespondentRecvAgain(r)
        \/ \E c \in Conns : RespondentRecv(r, c)

(* The worker delivers the events of the timer. *)
Fairness == WF_vars(Deadline)

Spec == Init /\ [][Next]_vars /\ Fairness

-----------------------------------------------------------------------------
(* Properties. *)

(* No assertion and no nn_fsm_bad_* is reached: the timer's events find    *)
(* the state that expects them, no pipe is given a message while it sends, *)
(* no key is used twice.                                                   *)
NoAbort == ~aborted

(* What the user of the surveyor is given answers the survey it sent last, *)
(* whatever was cancelled, came late, came back through a device or was    *)
(* answered by a respondent that had received another survey meanwhile.    *)
AnswersThisSurvey == \A i \in DOMAIN got : got[i].re = surveyid

(* Nobody is heard twice: for one survey, a respondent answers at most     *)
(* once on each connection.                                                *)
HeardOnce == \A i, j \in DOMAIN got : got[i].via = got[j].via => i = j

(* One way leads from the surveyor into the device. With two of them, or   *)
(* with a loop, a survey arrives twice and is answered twice.              *)
OnePath ==
    /\ \A c \in Conns : To[c] = Device => From[c] # Device
    /\ \A c, d \in Conns :
        From[c] = Surveyor /\ To[c] = Device /\ From[d] = Surveyor /\ To[d] = Device => c = d

(* When a survey is over the user is told, once: nn_recv says ETIMEDOUT    *)
(* before it says EFSM.                                                    *)
EndIsReported == state = "PASSIVE" => timedout = owed

(* A survey comes to its end, however often it was replaced; so nn_recv    *)
(* does not wait for ever.                                                 *)
SurveyEnds == InProgress ~> (state = "PASSIVE" \/ sock # "ACTIVE")
=============================================================================
