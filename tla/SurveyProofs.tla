----------------------------- MODULE SurveyProofs -----------------------------
(***************************************************************************)
(* What holds of the survey protocol for any nodes and connections between *)
(* them, devices that are connected to themselves included, and any number *)
(* of surveys.                                                             *)
(*                                                                         *)
(* The end of a survey is reported once (from TimerFollowsState alone). No *)
(* assertion fails, and what the surveyor's user is given answers the      *)
(* survey it sent last, while the keys of the pipes are not exhausted. For *)
(* the last one the inductive invariant says of every message, wherever it *)
(* is, that its stack is a path of connections back to the node that asked *)
(* and that none of the keys in it will ever lead another way. Nobody is   *)
(* heard twice where one way leads into the device: on its way to one user *)
(* and back a survey is in one place at a time.                            *)
(***************************************************************************)
EXTENDS Survey, SequenceFacts, FiniteSetTheorems

-----------------------------------------------------------------------------
(* The deadline of the survey. *)

(* The state of the surveyor, its timer and what the user is owed move     *)
(* together.                                                               *)
TimerFollowsState ==
    /\ sock \in {"ACTIVE", "STOPPING_EPS", "STOPPING", "FINI"}
    /\ timedout \in BOOLEAN /\ owed \in BOOLEAN
    /\ \/ state = "PASSIVE" /\ timer = "idle" /\ (timedout <=> owed)
       \/ state = "ACTIVE" /\ timer = "active" /\ owed
       \/ state = "CANCELLING" /\ timer = "stopping" /\ owed
       \/ state = "STOPPING_TIMER" /\ timer = "stopping" /\ owed /\ timedout
       \/ state = "STOPPING" /\ timer = "stopping" /\ sock = "STOPPING"
       \/ state = "IDLE" /\ timer = "idle" /\ sock = "FINI"

(* The others leave the surveyor alone. *)
LEMMA OnlySurveyorMoves ==
    ASSUME [Next]_vars
    PROVE  \/ SurveyorSend \/ SurveyorRecv \/ SurveyorRecvTimedOut \/ TimerTimeout
           \/ TimerStopped \/ Close \/ SurveyorStop
           \/ UNCHANGED surveyorVars
<1>1. CASE UNCHANGED vars
  BY <1>1 DEF vars
<1>2. CASE ForwardSend \/ BackwardSend
  BY <1>2 DEF ForwardSend, BackwardSend
<1>3. ASSUME NEW c \in Conns,
             \/ SurveyingEndAdd(c) \/ SurveyingEndRm(c)
             \/ RespondingEndAdd(c) \/ RespondingEndRm(c)
             \/ SurveyArrives(c) \/ ResponseArrives(c)
             \/ ForwardRecv(c) \/ BackwardRecv(c)
             \/ Break(c)
             \/ \E stack \in {<<Id(1)>>, <<Key(0)>>} : StrangerSurvey(c, stack)
             \/ \E stack \in {<<>>, <<Key(0)>>} : Nonsense(c, stack)
      PROVE  UNCHANGED surveyorVars
  BY <1>3 DEF SurveyingEndAdd, SurveyingEndRm, RespondingEndAdd, RespondingEndRm,
              SurveyArrives, ResponseArrives, ForwardRecv, BackwardRecv, Break,
              StrangerSurvey, Nonsense
<1>4. ASSUME NEW r \in Respondents,
             \/ RespondentSend(r) \/ RespondentRecvAgain(r)
             \/ \E c \in Conns : RespondentRecv(r, c)
      PROVE  UNCHANGED surveyorVars
  BY <1>4 DEF RespondentSend, RespondentRecvAgain, RespondentRecv
<1> QED
  BY <1>1, <1>2, <1>3, <1>4 DEF Next

LEMMA TimerFollowsStateInit == Init => TimerFollowsState
  BY DEF Init, TimerFollowsState

(* The timer's events find the state that expects them. *)
LEMMA TimerFollowsStateStep ==
    ASSUME TimerFollowsState, [Next]_vars
    PROVE  TimerFollowsState'
<1>1. CASE SurveyorSend
  BY <1>1 DEF TimerFollowsState, SurveyorSend, InProgress, Start, StopTimer
<1>2. CASE SurveyorRecvTimedOut
  BY <1>2 DEF TimerFollowsState, SurveyorRecvTimedOut, InProgress
<1>3. CASE TimerTimeout
  BY <1>3 DEF TimerFollowsState, TimerTimeout, StopTimer
<1>4. CASE TimerStopped
  BY <1>4 DEF TimerFollowsState, TimerStopped, Start
<1>5. CASE Close
  BY <1>5 DEF TimerFollowsState, Close
<1>6. CASE SurveyorStop
  BY <1>6 DEF TimerFollowsState, SurveyorStop, StopTimer
<1>7. CASE SurveyorRecv \/ UNCHANGED surveyorVars
  BY <1>7 DEF TimerFollowsState, SurveyorRecv, surveyorVars
<1> QED
  BY <1>1, <1>2, <1>3, <1>4, <1>5, <1>6, <1>7, OnlySurveyorMoves

(* Without a survey in progress nn_surveyor_send finds the timer idle. *)
LEMMA SendStarts ==
    ASSUME TimerFollowsState, SurveyorSend, ~InProgress
    PROVE  Start(surveyid')
<1>1. timer = "idle"
  BY DEF TimerFollowsState, SurveyorSend, InProgress
<1> QED
  BY <1>1 DEF SurveyorSend

(* nn_surveyor_recv says ETIMEDOUT once for a survey that is over, however *)
(* often it was replaced while the timer was running or stopping.          *)
THEOREM SurveyEndReported == Spec => []EndIsReported
<1>1. TimerFollowsState => EndIsReported
  BY DEF TimerFollowsState, EndIsReported
<1>2. TimerFollowsState /\ [Next]_vars => TimerFollowsState'
  BY TimerFollowsStateStep
<1> QED
  BY <1>1, <1>2, TimerFollowsStateInit, PTL DEF Spec

-----------------------------------------------------------------------------
(* The pipes and their keys. *)

(* nn_xrespondent counts its pipes with 31 bits: fewer connections than    *)
(* that are made while the sockets are open.                               *)
EnoughKeys == IsFiniteSet(Conns) /\ Cardinality(Conns) < KeySpace

Words == {"key", "id"} \X Nat
Msgs == [kind : {"msg"}, stack : Seq(Words), re : Nat,
         via : Conns \cup {Surveyor, Stranger}]
SurveysSeen == [kind : {"survey"}, re : Nat, via : Conns]

(* The pipes of a node have keys of their own, given out in order. *)
KeysDiffer ==
    /\ rUp \subseteq Conns /\ broken \subseteq Conns
    /\ rKey \in [Conns -> Nat]
    /\ rNextKey \in [Respondents \cup {Device} -> Nat]
    /\ \A n \in Respondents \cup {Device} : rNextKey[n] <= Cardinality(rUp \cup broken)
    /\ \A c \in rUp : rKey[c] < rNextKey[To[c]]
    /\ \A c, d \in rUp : To[c] = To[d] /\ rKey[c] = rKey[d] => c = d

(* The connections whose key, at the responding end, will never lead to    *)
(* another one, whether they are still there or broken.                    *)
Settled ==
    {c \in rUp \cup broken :
        /\ rKey[c] < rNextKey[To[c]]
        /\ \A d \in rUp : To[d] = To[c] /\ rKey[d] = rKey[c] => d = c}

(* The stack, at a node, leads over settled connections back to the node   *)
(* that asked; if that one is the surveyor, the survey's ID is at the      *)
(* bottom.                                                                 *)
Before(p, node, i) == IF i = 1 THEN node ELSE From[p[i - 1]]
LeadsBack(key, settled, stack, re, node) ==
    \E p \in Seq(settled), id \in Nat :
        /\ Len(stack) = Len(p) + 1
        /\ \A i \in 1 .. Len(p) : /\ stack[i] = Key(key[p[i]])
                                  /\ To[p[i]] = Before(p, node, i)
        /\ stack[Len(p) + 1] = Id(id)
        /\ Before(p, node, Len(p) + 1) = Surveyor => re = id

KeysOnly(stack) == \A i \in 1 .. Len(stack) : stack[i][1] = "key"

(* A survey at a node, a response at a node; nonsense has no ID. *)
SurveyAt(key, settled, m, node) ==
    m # None => LeadsBack(key, settled, m.stack, m.re, node)
ResponseAt(key, settled, m, node) ==
    m # None => \/ KeysOnly(m.stack)
                \/ LeadsBack(key, settled, m.stack, m.re, node)

Slots == [Conns -> Msgs \cup {None}]

(* The surveying ends: a pipe that sends is attached and not offered       *)
(* another message; what is sent and what was received leads back.         *)
Surveying(key, settled, up, ready, out, in) ==
    /\ up \subseteq Conns /\ ready \subseteq up
    /\ out \in Slots /\ in \in Slots
    /\ \A c \in Conns : out[c] # None => c \in up /\ c \notin ready
    /\ \A c \in Conns : /\ SurveyAt(key, settled, out[c], From[c])
                        /\ ResponseAt(key, settled, in[c], From[c])

(* The responding ends, the same. What was received may be malformed. *)
Responding(key, settled, up, ready, out, in) ==
    /\ up \subseteq Conns /\ ready \subseteq up
    /\ out \in Slots /\ in \in Slots
    /\ \A c \in Conns : /\ out[c] # None => c \in up /\ c \notin ready
                        /\ in[c] # None => c \in up
    /\ \A c \in Conns :
        /\ ResponseAt(key, settled, out[c], From[c])
        /\ in[c] # None /\ WellFormed(in[c]) => SurveyAt(key, settled, in[c], From[c])

(* The respondents: each answers the survey its backtrace belongs to. *)
Users(key, settled, trace, sn) ==
    /\ trace \in [Respondents -> Msgs \cup {None}]
    /\ sn \in [Respondents -> SurveysSeen \cup {None}]
    /\ \A r \in Respondents :
        /\ SurveyAt(key, settled, trace[r], r)
        /\ trace[r] # None => sn[r] # None /\ sn[r].re = trace[r].re

(* The device. *)
Passing(key, settled, fwd, bwd) ==
    /\ fwd \in Msgs \cup {None} /\ bwd \in Msgs \cup {None}
    /\ SurveyAt(key, settled, fwd, Device)
    /\ ResponseAt(key, settled, bwd, Device)

(* What the surveyor's user was given. *)
Given(g, id) ==
    /\ id \in Nat
    /\ g \in Seq([re : Nat, via : Conns \cup {Surveyor, Stranger}])
    /\ \A i \in DOMAIN g : g[i].re = id

IInv ==
    /\ NoAbort
    /\ TimerFollowsState
    /\ KeysDiffer
    /\ Surveying(rKey, Settled, sUp, sReady, sOut, sIn)
    /\ Responding(rKey, Settled, rUp, rReady, rOut, rIn)
    /\ Users(rKey, Settled, backtrace, seen)
    /\ Passing(rKey, Settled, forward, backward)
    /\ Given(got, surveyid)

-----------------------------------------------------------------------------
(* Facts about stacks. *)

(* A path stays one when more connections settle and no key changes. *)
LEMMA LeadsBackStays ==
    ASSUME NEW key, NEW key2, NEW settled, NEW settled2, settled \subseteq settled2,
           \A c \in settled : key2[c] = key[c],
           NEW stack, NEW re, NEW node, LeadsBack(key, settled, stack, re, node)
    PROVE  LeadsBack(key2, settled2, stack, re, node)
<1>1. PICK p \in Seq(settled), id \in Nat :
        /\ Len(stack) = Len(p) + 1
        /\ \A i \in 1 .. Len(p) : /\ stack[i] = Key(key[p[i]])
                                  /\ To[p[i]] = Before(p, node, i)
        /\ stack[Len(p) + 1] = Id(id)
        /\ Before(p, node, Len(p) + 1) = Surveyor => re = id
  BY DEF LeadsBack
<1>2. p \in Seq(settled2)
  BY SeqDef, ElementOfSeq
<1>3. \A i \in 1 .. Len(p) : key2[p[i]] = key[p[i]]
  BY ElementOfSeq
<1> QED
  BY <1>1, <1>2, <1>3 DEF LeadsBack

(* A survey leaves the surveyor with its ID, or another socket. *)
LEMMA LeadsBackStarts ==
    ASSUME NEW key, NEW settled, NEW id \in Nat, NEW re, NEW node,
           node = Surveyor => re = id
    PROVE  LeadsBack(key, settled, <<Id(id)>>, re, node)
<1>1. PICK p \in Seq(settled) : Len(p) = 0
  <2>1. <<>> \in Seq(settled) /\ Len(<<>>) = 0
    OBVIOUS
  <2> QED
    BY <2>1
<1>2. PICK s : s = <<Id(id)>>
  OBVIOUS
<1>3. Len(s) = Len(p) + 1 /\ s[Len(p) + 1] = Id(id) /\ 1 .. Len(p) = {}
  BY <1>1, <1>2
<1>4. Before(p, node, Len(p) + 1) = node
  BY <1>1 DEF Before
<1>5. LeadsBack(key, settled, s, re, node)
  BY <1>3, <1>4 DEF LeadsBack
<1> QED
  BY <1>2, <1>5

(* nn_xrespondent_recv puts the key of the pipe on top: one hop more. *)
LEMMA LeadsBackPush ==
    ASSUME NEW key, NEW settled, NEW c \in settled, NEW stack \in Seq(Words), NEW re,
           key[c] \in Nat,
           LeadsBack(key, settled, stack, re, From[c])
    PROVE  LeadsBack(key, settled, <<Key(key[c])>> \o stack, re, To[c])
<1>1. PICK p \in Seq(settled), id \in Nat :
        /\ Len(stack) = Len(p) + 1
        /\ \A i \in 1 .. Len(p) : /\ stack[i] = Key(key[p[i]])
                                  /\ To[p[i]] = Before(p, From[c], i)
        /\ stack[Len(p) + 1] = Id(id)
        /\ Before(p, From[c], Len(p) + 1) = Surveyor => re = id
  BY DEF LeadsBack
<1>2. Key(key[c]) \in Words
  BY DEF Key, Words
<1>3. PICK s : s = <<Key(key[c])>> \o stack
  OBVIOUS
<1>4. PICK q : q = <<c>> \o p
  OBVIOUS
<1>5. /\ Len(s) = 1 + Len(stack) /\ s[1] = Key(key[c])
      /\ \A j \in 1 .. Len(stack) : s[1 + j] = stack[j]
  <2>1. <<Key(key[c])>> \in Seq(Words) /\ Len(<<Key(key[c])>>) = 1
        /\ <<Key(key[c])>>[1] = Key(key[c]) /\ 1 \in 1 .. 1
    BY <1>2
  <2> QED
    BY <1>3, <2>1, ConcatFacts
<1>6. /\ q \in Seq(settled) /\ Len(q) = 1 + Len(p) /\ q[1] = c
      /\ \A j \in 1 .. Len(p) : q[1 + j] = p[j]
  <2>1. <<c>> \in Seq(settled) /\ Len(<<c>>) = 1 /\ <<c>>[1] = c /\ 1 \in 1 .. 1
    OBVIOUS
  <2> QED
    BY <1>4, <2>1, ConcatFacts
<1>7. Len(p) \in Nat /\ Len(s) = Len(q) + 1
  BY <1>1, <1>5, <1>6
<1>8. \A j \in 1 .. Len(p) + 1 : Before(q, To[c], 1 + j) = Before(p, From[c], j)
  <2>1. TAKE j \in 1 .. Len(p) + 1
  <2>2. CASE j = 1
    BY <1>6, <2>2 DEF Before
  <2>3. CASE j # 1
    <3> DEFINE k == j - 1
    <3>1. k \in 1 .. Len(p) /\ 1 + j # 1 /\ (1 + j) - 1 = 1 + k
      BY <1>7, <2>3
    <3> QED
      BY <1>6, <2>3, <3>1 DEF Before
  <2> QED
    BY <2>2, <2>3
<1>9. ASSUME NEW i \in 1 .. Len(q)
      PROVE  s[i] = Key(key[q[i]]) /\ To[q[i]] = Before(q, To[c], i)
  <2>1. CASE i = 1
    BY <1>5, <1>6, <2>1 DEF Before
  <2>2. CASE i # 1
    <3>1. PICK j \in 1 .. Len(p) : i = 1 + j
      <4>1. i - 1 \in 1 .. Len(p) /\ i = 1 + (i - 1)
        BY <1>6, <1>7, <2>2
      <4> QED
        BY <4>1
    <3>2. j \in 1 .. Len(stack) /\ j \in 1 .. Len(p) + 1
      BY <1>1, <1>7
    <3> QED
      BY <1>1, <1>5, <1>6, <1>8, <3>1, <3>2
  <2> QED
    BY <2>1, <2>2
<1>10. /\ s[Len(q) + 1] = Id(id)
       /\ Before(q, To[c], Len(q) + 1) = Surveyor => re = id
  <2>1. Len(q) + 1 = 1 + (Len(p) + 1) /\ Len(p) + 1 \in 1 .. Len(p) + 1
        /\ Len(p) + 1 \in 1 .. Len(stack)
    BY <1>1, <1>6, <1>7
  <2> QED
    BY <1>1, <1>5, <1>8, <2>1
<1>11. LeadsBack(key, settled, s, re, To[c])
  BY <1>6, <1>7, <1>9, <1>10 DEF LeadsBack
<1> QED
  BY <1>3, <1>11

(* nn_xrespondent_send takes it off, and the pipe it finds by it is the    *)
(* one the survey came in on: one hop less.                                *)
LEMMA LeadsBackPop ==
    ASSUME NEW key, NEW settled \in SUBSET Conns, NEW c \in Conns,
           NEW stack \in Seq(Words), stack # <<>>, NEW re,
           Head(stack) = Key(key[c]),
           \A d \in settled : To[d] = To[c] /\ key[d] = key[c] => d = c,
           LeadsBack(key, settled, stack, re, To[c])
    PROVE  LeadsBack(key, settled, Tail(stack), re, From[c])
<1>1. PICK p \in Seq(settled), id \in Nat :
        /\ Len(stack) = Len(p) + 1
        /\ \A i \in 1 .. Len(p) : /\ stack[i] = Key(key[p[i]])
                                  /\ To[p[i]] = Before(p, To[c], i)
        /\ stack[Len(p) + 1] = Id(id)
        /\ Before(p, To[c], Len(p) + 1) = Surveyor => re = id
  BY DEF LeadsBack
<1>2. Len(p) \in Nat /\ stack[1] = Key(key[c])
  OBVIOUS
<1>3. p # <<>> /\ Len(p) >= 1
  <2>1. Key(key[c]) # Id(id)
    BY DEF Key, Id
  <2>2. Len(p) # 0
    BY <1>1, <1>2, <2>1
  <2> QED
    BY <1>2, <2>2
<1>4. p[1] = c
  <2>1. 1 \in 1 .. Len(p) /\ p[1] \in settled
    BY <1>2, <1>3, ElementOfSeq
  <2>2. To[p[1]] = To[c] /\ Key(key[p[1]]) = Key(key[c])
    BY <1>1, <1>2, <2>1 DEF Before
  <2>3. key[p[1]] = key[c]
    BY <2>2 DEF Key
  <2> QED
    BY <2>1, <2>2, <2>3
<1>5. PICK s : s = Tail(stack)
  OBVIOUS
<1>6. PICK q : q = Tail(p)
  OBVIOUS
<1>7. /\ q \in Seq(settled) /\ Len(q) = Len(p) - 1
      /\ \A j \in 1 .. Len(p) - 1 : q[j] = p[j + 1]
  BY <1>3, <1>6
<1>8. /\ Len(s) = Len(stack) - 1
      /\ \A j \in 1 .. Len(stack) - 1 : s[j] = stack[j + 1]
  BY <1>5
<1>9. \A j \in 1 .. Len(p) : Before(q, From[c], j) = Before(p, To[c], j + 1)
  <2>1. TAKE j \in 1 .. Len(p)
  <2>2. j + 1 # 1 /\ (j + 1) - 1 = j
    OBVIOUS
  <2>3. CASE j = 1
    BY <1>4, <2>2, <2>3 DEF Before
  <2>4. CASE j # 1
    <3>1. j - 1 \in 1 .. Len(p) - 1 /\ (j - 1) + 1 = j
      BY <1>2, <2>4
    <3>2. q[j - 1] = p[j]
      BY <1>7, <3>1
    <3> QED
      BY <2>2, <2>4, <3>2 DEF Before
  <2> QED
    BY <2>3, <2>4
<1>10. ASSUME NEW j \in 1 .. Len(q)
       PROVE  s[j] = Key(key[q[j]]) /\ To[q[j]] = Before(q, From[c], j)
  <2>1. j \in 1 .. Len(p) - 1 /\ j \in 1 .. Len(p) /\ j + 1 \in 1 .. Len(p)
        /\ j \in 1 .. Len(stack) - 1
    BY <1>1, <1>2, <1>7
  <2> QED
    BY <1>1, <1>7, <1>8, <1>9, <2>1
<1>11. /\ s[Len(q) + 1] = Id(id)
       /\ Before(q, From[c], Len(q) + 1) = Surveyor => re = id
  <2>1. Len(q) + 1 = Len(p) /\ Len(p) \in 1 .. Len(p) /\ Len(p) \in 1 .. Len(stack) - 1
    BY <1>1, <1>2, <1>3, <1>7
  <2> QED
    BY <1>1, <1>8, <1>9, <2>1
<1>12. Len(s) = Len(q) + 1
  BY <1>1, <1>2, <1>7, <1>8
<1>13. LeadsBack(key, settled, s, re, From[c])
  BY <1>7, <1>10, <1>11, <1>12 DEF LeadsBack
<1> QED
  BY <1>5, <1>13

(* An ID on top at the surveyor is the one of the survey answered. *)
LEMMA LeadsBackEnds ==
    ASSUME NEW key, NEW settled, NEW stack \in Seq(Words), stack # <<>>, NEW re, NEW n,
           Head(stack) = Id(n), LeadsBack(key, settled, stack, re, Surveyor)
    PROVE  re = n
<1>1. PICK p \in Seq(settled), id \in Nat :
        /\ Len(stack) = Len(p) + 1
        /\ \A i \in 1 .. Len(p) : /\ stack[i] = Key(key[p[i]])
                                  /\ To[p[i]] = Before(p, Surveyor, i)
        /\ stack[Len(p) + 1] = Id(id)
        /\ Before(p, Surveyor, Len(p) + 1) = Surveyor => re = id
  BY DEF LeadsBack
<1>2. Len(p) \in Nat /\ stack[1] = Id(n)
  OBVIOUS
<1>3. Len(p) = 0
  <2>1. Key(key[p[1]]) # Id(n)
    BY DEF Key, Id
  <2>2. 1 \notin 1 .. Len(p)
    BY <1>1, <1>2, <2>1
  <2> QED
    BY <1>2, <2>2
<1>4. re = id /\ Id(id) = Id(n)
  <2>1. Len(p) + 1 = 1
    BY <1>3
  <2> QED
    BY <1>1, <1>2, <2>1 DEF Before
<1> QED
  BY <1>4 DEF Id

(* Taking the top off a stack of keys leaves keys. *)
LEMMA KeysOnlyTail ==
    ASSUME NEW stack \in Seq(Words), stack # <<>>, KeysOnly(stack)
    PROVE  KeysOnly(Tail(stack)) /\ \A n : Head(stack) # Id(n)
<1>1. Len(Tail(stack)) = Len(stack) - 1 /\ Len(stack) \in Nat /\ Len(stack) >= 1
  OBVIOUS
<1>2. ASSUME NEW i \in 1 .. Len(stack) - 1 PROVE Tail(stack)[i] = stack[i + 1]
  BY <1>1
<1>3. \A i \in 1 .. Len(stack) - 1 : i + 1 \in 1 .. Len(stack)
  BY <1>1
<1>4. Head(stack)[1] = "key"
  BY <1>1 DEF KeysOnly
<1> QED
  BY <1>1, <1>2, <1>3, <1>4 DEF KeysOnly, Id

-----------------------------------------------------------------------------
(* The keys. *)

(* The steps that move the keys: a pipe is attached, a broken one leaves,  *)
(* connections break.                                                      *)
LEMMA KeyMoves ==
    ASSUME [Next]_vars
    PROVE  \/ \E c \in Conns : RespondingEndAdd(c)
           \/ \E c \in Conns : RespondingEndRm(c)
           \/ /\ UNCHANGED <<rUp, rKey, rNextKey>>
              /\ broken' = broken \/ \E c \in Conns : broken' = broken \cup {c}
<1> USE DEF rVars
<1>1. CASE UNCHANGED vars
  BY <1>1 DEF vars
<1>2. CASE SurveyorSend \/ SurveyorRecv \/ SurveyorRecvTimedOut
           \/ TimerTimeout \/ TimerStopped \/ Close \/ SurveyorStop
  BY <1>2 DEF SurveyorSend, SurveyorRecv, SurveyorRecvTimedOut, TimerTimeout, TimerStopped,
              Close, SurveyorStop
<1>3. CASE ForwardSend \/ BackwardSend
  BY <1>3 DEF ForwardSend, BackwardSend, XRespondentSend
<1>4. ASSUME NEW c \in Conns,
             \/ SurveyingEndAdd(c) \/ SurveyingEndRm(c)
             \/ SurveyArrives(c) \/ ResponseArrives(c)
             \/ ForwardRecv(c) \/ BackwardRecv(c)
             \/ Break(c)
             \/ \E stack \in {<<Id(1)>>, <<Key(0)>>} : StrangerSurvey(c, stack)
             \/ \E stack \in {<<>>, <<Key(0)>>} : Nonsense(c, stack)
      PROVE  /\ UNCHANGED <<rUp, rKey, rNextKey>>
             /\ broken' = broken \/ \E d \in Conns : broken' = broken \cup {d}
  BY <1>4 DEF SurveyingEndAdd, SurveyingEndRm, SurveyArrives, ResponseArrives, ForwardRecv,
              BackwardRecv, Break, StrangerSurvey, Nonsense, TakeIn
<1>5. ASSUME NEW r \in Respondents,
             \/ RespondentSend(r) \/ RespondentRecvAgain(r)
             \/ \E c \in Conns : RespondentRecv(r, c)
      PROVE  UNCHANGED <<rUp, rKey, rNextKey, broken>>
  BY <1>5 DEF RespondentSend, RespondentRecvAgain, RespondentRecv, XRespondentSend, TakeIn
<1> QED
  BY <1>1, <1>2, <1>3, <1>4, <1>5 DEF Next

(* A connection that is attached has its key for good. *)
LEMMA AttachedIsSettled ==
    KeysDiffer => /\ rUp \subseteq Settled /\ Settled \subseteq Conns
                  /\ \A c \in rUp, d \in Settled :
                        To[d] = To[c] /\ rKey[d] = rKey[c] => d = c
  BY DEF KeysDiffer, Settled

(* What RespondingEndAdd does to the keys. *)
LEMMA NewKey ==
    ASSUME EnoughKeys, KeysDiffer, NEW c \in Conns, XRespondentAdd(c)
    PROVE  /\ rNextKey' = [rNextKey EXCEPT ![To[c]] = rNextKey[To[c]] + 1]
           /\ To[c] \in Respondents \cup {Device}
           /\ Cardinality(rUp \cup broken) \in Nat
           /\ Cardinality((rUp \cup {c}) \cup broken) = Cardinality(rUp \cup broken) + 1
           /\ ~ \E d \in rUp : To[d] = To[c] /\ rKey[d] = rNextKey[To[c]]
<1>1. To[c] \in Respondents \cup {Device} /\ KeySpace \in Nat
  BY SurveyAssumption
<1>2. IsFiniteSet(rUp \cup broken) /\ c \notin rUp \cup broken
  <2>1. rUp \cup broken \in SUBSET Conns
    BY DEF KeysDiffer
  <2> QED
    BY <2>1, FS_Subset DEF EnoughKeys, XRespondentAdd
<1>3. PICK k \in Nat : k = Cardinality(rUp \cup broken)
  BY <1>2, FS_CardinalityType
<1>4. Cardinality((rUp \cup {c}) \cup broken) = k + 1
  <2>1. (rUp \cup {c}) \cup broken = (rUp \cup broken) \cup {c}
    OBVIOUS
  <2> QED
    BY <1>2, <1>3, <2>1, FS_AddElement
<1>5. k + 1 < KeySpace
  <2>1. (rUp \cup {c}) \cup broken \in SUBSET Conns
    BY DEF KeysDiffer
  <2>2. Cardinality((rUp \cup {c}) \cup broken) <= Cardinality(Conns)
        /\ Cardinality(Conns) \in Nat
    BY <2>1, FS_Subset, FS_CardinalityType DEF EnoughKeys
  <2> QED
    BY <1>1, <1>4, <2>2 DEF EnoughKeys
<1>6. PICK n \in Nat : n = rNextKey[To[c]]
  BY <1>1 DEF KeysDiffer
<1>7. n <= k
  BY <1>1, <1>3, <1>6 DEF KeysDiffer
<1>8. (n + 1) % KeySpace = n + 1
  BY <1>1, <1>5, <1>7
<1>9. rNextKey' = [rNextKey EXCEPT ![To[c]] = n + 1]
  BY <1>6, <1>8 DEF XRespondentAdd
<1>10. \A d \in rUp : rKey[d] \in Nat /\ (To[d] = To[c] => rKey[d] < n)
  BY <1>6 DEF KeysDiffer
<1> QED
  BY <1>1, <1>3, <1>4, <1>6, <1>9, <1>10

(* Keys stay different, and a settled connection stays settled. *)
LEMMA KeysStep ==
    ASSUME EnoughKeys, KeysDiffer, [Next]_vars
    PROVE  /\ KeysDiffer'
           /\ Settled \subseteq Settled'
           /\ \A c \in Settled : rKey'[c] = rKey[c]
<1>1. ASSUME NEW c \in Conns, RespondingEndAdd(c)
      PROVE  /\ KeysDiffer'
             /\ Settled \subseteq Settled'
             /\ \A d \in Settled : rKey'[d] = rKey[d]
  <2>1. XRespondentAdd(c) /\ broken' = broken
    BY <1>1 DEF RespondingEndAdd
  <2>2. /\ rNextKey' = [rNextKey EXCEPT ![To[c]] = rNextKey[To[c]] + 1]
        /\ To[c] \in Respondents \cup {Device}
        /\ Cardinality(rUp \cup broken) \in Nat
        /\ Cardinality((rUp \cup {c}) \cup broken) = Cardinality(rUp \cup broken) + 1
    BY <2>1, NewKey
  <2>3. PICK n \in Nat : n = rNextKey[To[c]]
    BY <2>2 DEF KeysDiffer
  <2>4. /\ rUp' = rUp \cup {c} /\ c \notin rUp \cup broken
        /\ rKey' = [rKey EXCEPT ![c] = n] /\ rNextKey' = [rNextKey EXCEPT ![To[c]] = n + 1]
    BY <2>1, <2>2, <2>3 DEF XRespondentAdd
  <2>5. /\ rUp' \subseteq Conns /\ broken' \subseteq Conns
        /\ rKey' \in [Conns -> Nat] /\ rNextKey' \in [Respondents \cup {Device} -> Nat]
    <3>1. rUp' \subseteq Conns /\ broken' \subseteq Conns
      BY <2>1, <2>4 DEF KeysDiffer
    <3>2. rKey' \in [Conns -> Nat]
      BY <2>4 DEF KeysDiffer
    <3>3. rNextKey' \in [Respondents \cup {Device} -> Nat]
      <4>1. PICK k \in Nat : k = n + 1
        OBVIOUS
      <4>2. rNextKey' = [rNextKey EXCEPT ![To[c]] = k]
            /\ rNextKey \in [Respondents \cup {Device} -> Nat]
        BY <2>4, <4>1 DEF KeysDiffer
      <4> QED
        BY <4>2
    <3> QED
      BY <3>1, <3>2, <3>3
  <2>6. \A m \in Respondents \cup {Device} : rNextKey'[m] <= Cardinality(rUp' \cup broken')
    BY <2>1, <2>2, <2>3, <2>4 DEF KeysDiffer
  <2>7. /\ rKey'[c] = n /\ rNextKey'[To[c]] = n + 1
        /\ \A d \in Conns \ {c} : rKey'[d] = rKey[d]
        /\ \A d \in Conns : /\ To[d] \in Respondents \cup {Device}
                            /\ rNextKey[To[d]] <= rNextKey'[To[d]]
                            /\ rNextKey[To[d]] \in Nat /\ rNextKey'[To[d]] \in Nat
                            /\ rKey[d] \in Nat
                            /\ To[d] = To[c] => rNextKey[To[d]] = n
    BY <2>2, <2>3, <2>4, <2>5, SurveyAssumption DEF KeysDiffer
  <2>8. \A d \in rUp' : rKey'[d] < rNextKey'[To[d]]
    BY <2>4, <2>7 DEF KeysDiffer
  <2>9. \A d \in rUp : To[d] = To[c] => rKey[d] < n
    BY <2>7 DEF KeysDiffer
  <2>10. \A d, e \in rUp' : To[d] = To[e] /\ rKey'[d] = rKey'[e] => d = e
    BY <2>4, <2>7, <2>9 DEF KeysDiffer
  <2>11. KeysDiffer'
    BY <2>5, <2>6, <2>8, <2>10 DEF KeysDiffer
  <2>12. ASSUME NEW d \in Settled PROVE d \in Settled' /\ rKey'[d] = rKey[d]
    <3>1. d \in rUp \cup broken /\ d \in Conns /\ d # c /\ rKey[d] < rNextKey[To[d]]
      BY <2>4, <2>12 DEF Settled, KeysDiffer
    <3>2. rKey'[d] = rKey[d] /\ rKey'[d] < rNextKey'[To[d]]
      BY <2>7, <3>1
    <3>3. \A e \in rUp : To[e] = To[d] /\ rKey[e] = rKey[d] => e = d
      BY <2>12 DEF Settled
    <3>4. To[c] = To[d] => rKey[d] < n
      BY <2>7, <3>1
    <3>5. ASSUME NEW e \in rUp', To[e] = To[d], rKey'[e] = rKey'[d] PROVE e = d
      BY <2>4, <2>7, <3>1, <3>2, <3>3, <3>4, <3>5 DEF KeysDiffer
    <3> QED
      BY <2>1, <2>4, <3>1, <3>2, <3>5 DEF Settled
  <2> QED
    BY <2>11, <2>12
<1>2. ASSUME NEW c \in Conns, RespondingEndRm(c)
      PROVE  /\ KeysDiffer'
             /\ Settled \subseteq Settled'
             /\ \A d \in Settled : rKey'[d] = rKey[d]
  <2>1. /\ rUp' = rUp \ {c} /\ c \in broken
        /\ UNCHANGED <<rKey, rNextKey, broken>> /\ rUp' \cup broken' = rUp \cup broken
    BY <1>2 DEF RespondingEndRm, XRespondentRm
  <2> QED
    BY <2>1 DEF KeysDiffer, Settled
<1>3. ASSUME UNCHANGED <<rUp, rKey, rNextKey>>,
             broken' = broken \/ \E c \in Conns : broken' = broken \cup {c}
      PROVE  /\ KeysDiffer'
             /\ Settled \subseteq Settled'
             /\ \A d \in Settled : rKey'[d] = rKey[d]
  <2>1. broken \subseteq broken' /\ broken' \subseteq Conns
    BY <1>3 DEF KeysDiffer
  <2>2. /\ Cardinality(rUp \cup broken) <= Cardinality(rUp \cup broken')
        /\ Cardinality(rUp \cup broken) \in Nat /\ Cardinality(rUp \cup broken') \in Nat
    <3>1. rUp \cup broken' \in SUBSET Conns /\ rUp \cup broken \in SUBSET (rUp \cup broken')
      BY <2>1 DEF KeysDiffer
    <3>2. IsFiniteSet(rUp \cup broken')
      BY <3>1, FS_Subset DEF EnoughKeys
    <3> QED
      BY <3>1, <3>2, FS_Subset, FS_CardinalityType
  <2>3. \A n \in Respondents \cup {Device} : rNextKey'[n] <= Cardinality(rUp' \cup broken')
    BY <1>3, <2>2 DEF KeysDiffer
  <2> QED
    BY <1>3, <2>1, <2>3 DEF KeysDiffer, Settled
<1> QED
  BY <1>1, <1>2, <1>3, KeyMoves

-----------------------------------------------------------------------------
(* The surveying ends. *)

LEMMA MessageFacts ==
    /\ \A m \in Msgs : /\ m # None /\ m.stack \in Seq(Words) /\ m.re \in Nat
                       /\ m.via \in Conns \cup {Surveyor, Stranger}
    /\ \A sn \in SurveysSeen : sn # None /\ sn.re \in Nat /\ sn.via \in Conns
    /\ \A stack \in Seq(Words), re \in Nat, via \in Conns \cup {Surveyor, Stranger} :
        /\ Msg(stack, re, via) \in Msgs
        /\ Msg(stack, re, via).stack = stack /\ Msg(stack, re, via).re = re
  BY DEF Msgs, SurveysSeen, None, Msg

LEMMA WordFacts == /\ \A n \in Nat : Id(n) \in Words /\ Key(n) \in Words
                   /\ \A k, n : Key(k) # Id(n)
  BY DEF Words, Id, Key

LEMMA ShortStacks == {<<>>, <<Id(1)>>, <<Key(0)>>} \subseteq Seq(Words)
<1>1. PICK i \in Words, k \in Words : i = Id(1) /\ k = Key(0)
  BY WordFacts
<1>2. <<>> \in Seq(Words) /\ <<i>> \in Seq(Words) /\ <<k>> \in Seq(Words)
  OBVIOUS
<1> QED
  BY <1>1, <1>2

LEMMA SurveyIsResponse ==
    ASSUME NEW key, NEW settled, NEW m, NEW n, SurveyAt(key, settled, m, n)
    PROVE  ResponseAt(key, settled, m, n)
  BY DEF SurveyAt, ResponseAt

LEMMA NothingLeads ==
    ASSUME NEW key, NEW settled, NEW n
    PROVE  SurveyAt(key, settled, None, n) /\ ResponseAt(key, settled, None, n)
  BY DEF SurveyAt, ResponseAt

(* nn_dist_send finds the pipes idle. *)
LEMMA XSurveyorSendStep ==
    ASSUME NEW key, NEW settled, Surveying(key, settled, sUp, sReady, sOut, sIn), NoAbort,
           NEW n, NEW m \in Msgs, SurveyAt(key, settled, m, n), XSurveyorSend(n, m)
    PROVE  /\ Surveying(key, settled, sUp', sReady', sOut', sIn')
           /\ NoAbort'
<1> DEFINE ready == {c \in sReady : From[c] = n}
<1>1. /\ sReady' = sReady \ ready
      /\ sOut' = [c \in Conns |-> IF c \in ready THEN m ELSE sOut[c]]
      /\ UNCHANGED <<sUp, sIn>>
  BY DEF XSurveyorSend
<1>2. ~ \E c \in ready : sOut[c] # None
  BY DEF Surveying
<1>3. NoAbort'
  BY <1>2 DEF XSurveyorSend, NoAbort
<1>4. sOut' \in Slots /\ sIn' \in Slots
  BY <1>1 DEF Surveying, Slots
<1>5. \A c \in Conns : sOut'[c] # None => c \in sUp' /\ c \notin sReady'
  BY <1>1 DEF Surveying
<1>6. \A c \in Conns : SurveyAt(key, settled, sOut'[c], From[c])
  BY <1>1 DEF Surveying
<1> QED
  BY <1>1, <1>3, <1>4, <1>5, <1>6 DEF Surveying

LEMMA FetchStep ==
    ASSUME NEW key, NEW settled, Surveying(key, settled, sUp, sReady, sOut, sIn),
           NEW fetched, Fetch(fetched)
    PROVE  Surveying(key, settled, sUp', sReady', sOut', sIn')
<1>1. /\ sIn' = [c \in Conns |-> IF c \in fetched THEN None ELSE sIn[c]]
      /\ UNCHANGED <<sUp, sReady, sOut>>
  BY DEF Fetch
<1>2. sIn' \in Slots
  BY <1>1 DEF Surveying, Slots
<1>3. \A c \in Conns : ResponseAt(key, settled, sIn'[c], From[c])
  BY <1>1, NothingLeads DEF Surveying
<1> QED
  BY <1>1, <1>2, <1>3 DEF Surveying

LEMMA XSurveyorAddStep ==
    ASSUME NEW key, NEW settled, Surveying(key, settled, sUp, sReady, sOut, sIn),
           NEW c \in Conns, XSurveyorAdd(c)
    PROVE  Surveying(key, settled, sUp', sReady', sOut', sIn')
  BY DEF XSurveyorAdd, Surveying

LEMMA XSurveyorRmStep ==
    ASSUME NEW key, NEW settled, Surveying(key, settled, sUp, sReady, sOut, sIn),
           NEW c \in Conns, XSurveyorRm(c)
    PROVE  Surveying(key, settled, sUp', sReady', sOut', sIn')
<1>1. /\ sUp' = sUp \ {c} /\ sReady' = sReady \ {c}
      /\ sOut' = [sOut EXCEPT ![c] = None] /\ sIn' = [sIn EXCEPT ![c] = None]
  BY DEF XSurveyorRm
<1>2. sOut' \in Slots /\ sIn' \in Slots
  BY <1>1 DEF Surveying, Slots
<1>3. /\ \A d \in Conns : sOut'[d] = IF d = c THEN None ELSE sOut[d]
      /\ \A d \in Conns : sIn'[d] = IF d = c THEN None ELSE sIn[d]
  BY <1>1 DEF Surveying, Slots
<1> QED
  BY <1>1, <1>2, <1>3, NothingLeads DEF Surveying

(* NN_PIPE_OUT: the pipe has sent its message. *)
LEMMA SurveyLeavesStep ==
    ASSUME NEW key, NEW settled, Surveying(key, settled, sUp, sReady, sOut, sIn),
           NEW c \in Conns, SurveyArrives(c)
    PROVE  Surveying(key, settled, sUp', sReady', sOut', sIn')
<1>1. /\ sOut[c] # None /\ sReady' = sReady \cup {c}
      /\ sOut' = [sOut EXCEPT ![c] = None] /\ UNCHANGED <<sUp, sIn>>
  BY DEF SurveyArrives
<1>2. sOut' \in Slots
  BY <1>1 DEF Surveying, Slots
<1>3. \A d \in Conns : sOut'[d] = IF d = c THEN None ELSE sOut[d]
  BY <1>1 DEF Surveying, Slots
<1> QED
  BY <1>1, <1>2, <1>3, NothingLeads DEF Surveying

(* A response comes in, from a respondent or made up. *)
LEMMA ResponseComesStep ==
    ASSUME NEW key, NEW settled, Surveying(key, settled, sUp, sReady, sOut, sIn),
           NEW c \in Conns, NEW m \in Msgs, ResponseAt(key, settled, m, From[c]),
           sIn' = [sIn EXCEPT ![c] = m], UNCHANGED <<sUp, sReady, sOut>>
    PROVE  Surveying(key, settled, sUp', sReady', sOut', sIn')
<1>1. sIn' \in Slots
  BY DEF Surveying, Slots
<1>2. \A d \in Conns : sIn'[d] = IF d = c THEN m ELSE sIn[d]
  BY DEF Surveying, Slots
<1> QED
  BY <1>1, <1>2 DEF Surveying

-----------------------------------------------------------------------------
(* The responding ends. *)

(* nn_xrespondent_send finds the pipe idle, and the pipe it finds is the   *)
(* one the survey came in on.                                              *)
LEMMA XRespondentSendStep ==
    ASSUME KeysDiffer, Responding(rKey, Settled, rUp, rReady, rOut, rIn), NoAbort,
           NEW n, NEW m \in Msgs, ResponseAt(rKey, Settled, m, n), XRespondentSend(n, m)
    PROVE  /\ Responding(rKey, Settled, rUp', rReady', rOut', rIn')
           /\ NoAbort'
<1> DEFINE dest == {c \in rReady : To[c] = n /\ Key(rKey[c]) = Head(m.stack)}
<1>1. PICK t : t = [m EXCEPT !.stack = Tail(m.stack)]
  OBVIOUS
<1>2. /\ rReady' = rReady \ dest
      /\ rOut' = [c \in Conns |-> IF c \in dest THEN t ELSE rOut[c]]
      /\ UNCHANGED <<rUp, rIn>> /\ m.stack # <<>>
  BY <1>1 DEF XRespondentSend
<1>3. m.stack \in Seq(Words) /\ Tail(m.stack) \in Seq(Words)
  BY <1>2, MessageFacts
<1>4. t \in Msgs /\ t.stack = Tail(m.stack) /\ t.re = m.re
  BY <1>1, <1>3 DEF Msgs
<1>5. ~ \E c \in dest : rOut[c] # None
  BY DEF Responding
<1>6. NoAbort'
  BY <1>5 DEF XRespondentSend, NoAbort
<1>7. rOut' \in Slots
  BY <1>2, <1>4 DEF Responding, Slots
<1>8. \A c \in Conns : rOut'[c] # None => c \in rUp' /\ c \notin rReady'
  BY <1>2 DEF Responding
<1>9. ASSUME NEW c \in dest PROVE ResponseAt(rKey, Settled, t, From[c])
  <2>1. c \in rUp /\ c \in Conns /\ To[c] = n /\ Head(m.stack) = Key(rKey[c])
    BY <1>9 DEF Responding
  <2>2. m # None
    BY MessageFacts
  <2>3. CASE KeysOnly(m.stack)
    BY <1>2, <1>3, <1>4, <2>3, KeysOnlyTail DEF ResponseAt
  <2>4. CASE LeadsBack(rKey, Settled, m.stack, m.re, n)
    <3>1. Settled \in SUBSET Conns
          /\ \A d \in Settled : To[d] = To[c] /\ rKey[d] = rKey[c] => d = c
      BY <2>1, AttachedIsSettled
    <3>2. LeadsBack(rKey, Settled, m.stack, m.re, To[c])
      BY <2>1, <2>4
    <3>3. LeadsBack(rKey, Settled, Tail(m.stack), m.re, From[c])
      BY <1>2, <1>3, <2>1, <3>1, <3>2, LeadsBackPop
    <3> QED
      BY <1>4, <3>3 DEF ResponseAt
  <2> QED
    BY <2>2, <2>3, <2>4 DEF ResponseAt
<1>10. \A c \in Conns : ResponseAt(rKey, Settled, rOut'[c], From[c])
  BY <1>2, <1>9 DEF Responding
<1> QED
  BY <1>2, <1>6, <1>7, <1>8, <1>10 DEF Responding

LEMMA TakeInStep ==
    ASSUME NEW key, NEW settled, Responding(key, settled, rUp, rReady, rOut, rIn),
           NEW c \in Conns, TakeIn(c)
    PROVE  Responding(key, settled, rUp', rReady', rOut', rIn')
<1>1. rIn' = [rIn EXCEPT ![c] = None] /\ UNCHANGED <<rUp, rReady, rOut>>
  BY DEF TakeIn
<1>2. rIn' \in Slots
  BY <1>1 DEF Responding, Slots
<1>3. \A d \in Conns : rIn'[d] = IF d = c THEN None ELSE rIn[d]
  BY <1>1 DEF Responding, Slots
<1> QED
  BY <1>1, <1>2, <1>3 DEF Responding

LEMMA XRespondentAddStep ==
    ASSUME EnoughKeys, KeysDiffer, NoAbort,
           NEW key, NEW settled, Responding(key, settled, rUp, rReady, rOut, rIn),
           NEW c \in Conns, XRespondentAdd(c)
    PROVE  Responding(key, settled, rUp', rReady', rOut', rIn') /\ NoAbort'
<1>1. ~ \E d \in rUp : To[d] = To[c] /\ rKey[d] = rNextKey[To[c]]
  BY NewKey
<1>2. NoAbort'
  BY <1>1 DEF NoAbort, XRespondentAdd
<1>3. /\ c \notin rUp /\ rUp' = rUp \cup {c} /\ rReady' = rReady \cup {c}
      /\ UNCHANGED <<rOut, rIn>>
  BY DEF XRespondentAdd
<1> QED
  BY <1>2, <1>3 DEF Responding

LEMMA XRespondentRmStep ==
    ASSUME NEW key, NEW settled, Responding(key, settled, rUp, rReady, rOut, rIn),
           NEW c \in Conns, XRespondentRm(c)
    PROVE  Responding(key, settled, rUp', rReady', rOut', rIn')
<1>1. /\ rUp' = rUp \ {c} /\ rReady' = rReady \ {c}
      /\ rOut' = [rOut EXCEPT ![c] = None] /\ rIn' = [rIn EXCEPT ![c] = None]
  BY DEF XRespondentRm
<1>2. rOut' \in Slots /\ rIn' \in Slots
  BY <1>1 DEF Responding, Slots
<1>3. /\ \A d \in Conns : rOut'[d] = IF d = c THEN None ELSE rOut[d]
      /\ \A d \in Conns : rIn'[d] = IF d = c THEN None ELSE rIn[d]
  BY <1>1 DEF Responding, Slots
<1> QED
  BY <1>1, <1>2, <1>3, NothingLeads DEF Responding

LEMMA ResponseLeavesStep ==
    ASSUME NEW key, NEW settled, Responding(key, settled, rUp, rReady, rOut, rIn),
           NEW c \in Conns, ResponseArrives(c)
    PROVE  Responding(key, settled, rUp', rReady', rOut', rIn')
<1>1. /\ rOut[c] # None /\ rReady' = rReady \cup {c}
      /\ rOut' = [rOut EXCEPT ![c] = None] /\ UNCHANGED <<rUp, rIn>>
  BY DEF ResponseArrives
<1>2. rOut' \in Slots
  BY <1>1 DEF Responding, Slots
<1>3. \A d \in Conns : rOut'[d] = IF d = c THEN None ELSE rOut[d]
  BY <1>1 DEF Responding, Slots
<1> QED
  BY <1>1, <1>2, <1>3, NothingLeads DEF Responding

(* A survey comes in, from the other end or from another surveyor. *)
LEMMA SurveyComesStep ==
    ASSUME NEW key, NEW settled, Responding(key, settled, rUp, rReady, rOut, rIn),
           NEW c \in rUp, NEW m \in Msgs,
           WellFormed(m) => SurveyAt(key, settled, m, From[c]),
           rIn' = [rIn EXCEPT ![c] = m], UNCHANGED <<rUp, rReady, rOut>>
    PROVE  Responding(key, settled, rUp', rReady', rOut', rIn')
<1>1. rIn' \in Slots
  BY DEF Responding, Slots
<1>2. \A d \in Conns : rIn'[d] = IF d = c THEN m ELSE rIn[d]
  BY DEF Responding, Slots
<1> QED
  BY <1>1, <1>2 DEF Responding

(* What nn_xrespondent_recv hands over leads back from this node. *)
LEMMA XRespondentRecvStep ==
    ASSUME KeysDiffer, Responding(rKey, Settled, rUp, rReady, rOut, rIn),
           NEW c \in Conns, rIn[c] # None, WellFormed(rIn[c])
    PROVE  /\ XRespondentRecv(c) \in Msgs
           /\ XRespondentRecv(c).re = rIn[c].re /\ rIn[c].re \in Nat
           /\ SurveyAt(rKey, Settled, XRespondentRecv(c), To[c])
<1>1. PICK m \in Msgs : m = rIn[c]
  BY DEF Responding, Slots
<1>2. PICK x : x = XRespondentRecv(c)
  OBVIOUS
<1>3. PICK s : s = <<Key(rKey[c])>> \o m.stack
  OBVIOUS
<1>4. m.stack \in Seq(Words) /\ m.re \in Nat /\ rKey[c] \in Nat
  BY MessageFacts DEF KeysDiffer
<1>5. s \in Seq(Words)
  <2>1. <<Key(rKey[c])>> \in Seq(Words)
    BY <1>4, WordFacts
  <2> QED
    BY <1>3, <1>4, <2>1, ConcatFacts
<1>6. x \in Msgs /\ x.stack = s /\ x.re = m.re
  BY <1>1, <1>2, <1>3, <1>5 DEF XRespondentRecv, Msgs
<1>7. LeadsBack(rKey, Settled, m.stack, m.re, From[c])
  BY <1>1 DEF Responding, SurveyAt
<1>8. c \in Settled
  BY AttachedIsSettled DEF Responding
<1>9. LeadsBack(rKey, Settled, s, m.re, To[c])
  BY <1>3, <1>4, <1>7, <1>8, LeadsBackPush
<1> QED
  BY <1>1, <1>2, <1>4, <1>6, <1>9 DEF SurveyAt

-----------------------------------------------------------------------------
(* The inductive invariant. *)

LEMMA IInvInit == Init => IInv
<1>1. SUFFICES ASSUME Init PROVE IInv
  OBVIOUS
<1>2. NoAbort
  BY <1>1 DEF Init, NoAbort
<1>3. TimerFollowsState
  BY <1>1, TimerFollowsStateInit
<1>4. KeysDiffer
  <2>1. rUp \cup broken = {}
    BY <1>1 DEF Init
  <2>2. Cardinality(rUp \cup broken) = 0
    BY <2>1, FS_EmptySet
  <2> QED
    BY <1>1, <2>2 DEF Init, KeysDiffer
<1>5. /\ sUp = {} /\ sReady = {} /\ rUp = {} /\ rReady = {}
      /\ sOut = [c \in Conns |-> None] /\ sIn = [c \in Conns |-> None]
      /\ rOut = [c \in Conns |-> None] /\ rIn = [c \in Conns |-> None]
  BY <1>1 DEF Init
<1>6. Surveying(rKey, Settled, sUp, sReady, sOut, sIn)
  BY <1>5, NothingLeads DEF Surveying, Slots
<1>7. Responding(rKey, Settled, rUp, rReady, rOut, rIn)
  BY <1>5, NothingLeads DEF Responding, Slots
<1>8. Users(rKey, Settled, backtrace, seen)
  BY <1>1, NothingLeads DEF Init, Users
<1>9. Passing(rKey, Settled, forward, backward)
  BY <1>1, NothingLeads DEF Init, Passing
<1>10. Given(got, surveyid)
  BY <1>1 DEF Init, Given
<1> QED
  BY <1>2, <1>3, <1>4, <1>6, <1>7, <1>8, <1>9, <1>10 DEF IInv

(* What a step leaves to show, with the keys as they were before it. *)
StepInv ==
    /\ NoAbort'
    /\ Surveying(rKey, Settled, sUp', sReady', sOut', sIn')
    /\ Responding(rKey, Settled, rUp', rReady', rOut', rIn')
    /\ Users(rKey, Settled, backtrace', seen')
    /\ Passing(rKey, Settled, forward', backward')
    /\ Given(got', surveyid')

(* nn_surveyor_send and NN_TIMER_STOPPED send the survey under its ID. *)
LEMMA StartStep ==
    ASSUME NoAbort, Surveying(rKey, Settled, sUp, sReady, sOut, sIn),
           NEW id \in Nat, Start(id)
    PROVE  Surveying(rKey, Settled, sUp', sReady', sOut', sIn') /\ NoAbort'
<1>1. <<Id(id)>> \in Seq(Words)
  BY WordFacts
<1>2. PICK m \in Msgs : /\ m = Msg(<<Id(id)>>, id, Surveyor)
                        /\ m.stack = <<Id(id)>> /\ m.re = id
  <2>1. PICK s \in Seq(Words) : s = <<Id(id)>>
    BY <1>1
  <2>2. /\ Msg(s, id, Surveyor) \in Msgs
        /\ Msg(s, id, Surveyor).stack = s /\ Msg(s, id, Surveyor).re = id
    BY MessageFacts
  <2> QED
    BY <2>1, <2>2
<1>3. XSurveyorSend(Surveyor, m)
  BY <1>2 DEF Start
<1>4. SurveyAt(rKey, Settled, m, Surveyor)
  BY <1>2, LeadsBackStarts DEF SurveyAt
<1> QED
  BY <1>3, <1>4, XSurveyorSendStep

LEMMA SurveyorStep ==
    ASSUME IInv,
           \/ SurveyorSend \/ SurveyorRecv \/ SurveyorRecvTimedOut
           \/ TimerTimeout \/ TimerStopped \/ Close \/ SurveyorStop
    PROVE  StepInv
<1> USE DEF IInv
<1>1. UNCHANGED <<rVars, userVars, devVars>>
  BY DEF SurveyorSend, SurveyorRecv, SurveyorRecvTimedOut, TimerTimeout, TimerStopped,
         Close, SurveyorStop
<1>2. /\ Responding(rKey, Settled, rUp', rReady', rOut', rIn')
      /\ Users(rKey, Settled, backtrace', seen')
      /\ Passing(rKey, Settled, forward', backward')
  <2>1. /\ rUp' = rUp /\ rReady' = rReady /\ rOut' = rOut /\ rIn' = rIn
        /\ backtrace' = backtrace /\ seen' = seen
        /\ forward' = forward /\ backward' = backward
    BY <1>1 DEF rVars, userVars, devVars
  <2> QED
    BY <2>1
<1>3. SUFFICES /\ NoAbort'
               /\ Surveying(rKey, Settled, sUp', sReady', sOut', sIn')
               /\ Given(got', surveyid')
  BY <1>2 DEF StepInv
<1>4. ASSUME UNCHANGED <<sVars, aborted>>
      PROVE  NoAbort' /\ Surveying(rKey, Settled, sUp', sReady', sOut', sIn')
  <2>1. sUp' = sUp /\ sReady' = sReady /\ sOut' = sOut /\ sIn' = sIn /\ aborted' = aborted
    BY <1>4 DEF sVars
  <2> QED
    BY <2>1 DEF NoAbort
<1>5. UNCHANGED <<got, surveyid>> => Given(got', surveyid')
  OBVIOUS
<1>6. CASE SurveyorSend
  <2>1. Given(got', surveyid') /\ surveyid' \in Nat
    <3>1. got' = <<>> /\ surveyid' = surveyid + 1 /\ surveyid \in Nat
      BY <1>6 DEF SurveyorSend, Given
    <3> QED
      BY <3>1 DEF Given
  <2>2. CASE InProgress
    BY <1>4, <1>6, <2>1, <2>2 DEF SurveyorSend
  <2>3. CASE ~InProgress
    <3>1. PICK id \in Nat : id = surveyid'
      BY <2>1
    <3>2. Start(id)
      BY <1>6, <2>3, <3>1, SendStarts
    <3> QED
      BY <2>1, <3>2, StartStep
  <2> QED
    BY <2>2, <2>3
<1>7. CASE SurveyorRecv
  <2>1. NoAbort'
    BY <1>7 DEF SurveyorRecv, NoAbort
  <2>2. surveyid' = surveyid
    BY <1>7 DEF SurveyorRecv
  <2>3. \/ \E fetched : Fetch(fetched) /\ UNCHANGED got
        \/ \E fetched : \E c \in Good :
              /\ Fetch(fetched)
              /\ got' = Append(got, [re |-> sIn[c].re, via |-> sIn[c].via])
    BY <1>7 DEF SurveyorRecv
  <2>4. Surveying(rKey, Settled, sUp', sReady', sOut', sIn')
    BY <2>3, FetchStep
  <2>5. CASE UNCHANGED got
    BY <1>5, <2>1, <2>2, <2>4, <2>5
  <2>6. ASSUME NEW c \in Good,
               got' = Append(got, [re |-> sIn[c].re, via |-> sIn[c].via])
        PROVE  Given(got', surveyid')
    <3>1. /\ c \in Conns /\ From[c] = Surveyor /\ sIn[c] # None
          /\ sIn[c].stack # <<>> /\ Head(sIn[c].stack) = Id(surveyid)
      BY DEF Good, Whole, Waiting
    <3>2. PICK m \in Msgs : m = sIn[c]
      BY <3>1 DEF Surveying, Slots
    <3>3. m.stack \in Seq(Words) /\ m.re \in Nat /\ m.via \in Conns \cup {Surveyor, Stranger}
      BY MessageFacts
    <3>4. KeysOnly(m.stack) \/ LeadsBack(rKey, Settled, m.stack, m.re, Surveyor)
      <4>1. ResponseAt(rKey, Settled, m, Surveyor)
        BY <3>1, <3>2 DEF Surveying
      <4> QED
        BY <3>1, <3>2, <4>1 DEF ResponseAt
    <3>5. PICK n \in Nat : n = surveyid
      BY DEF Given
    <3>6. m.re = n
      <4>1. Head(m.stack) = Id(n) /\ m.stack # <<>>
        BY <3>1, <3>2, <3>5
      <4>2. CASE KeysOnly(m.stack)
        BY <3>3, <4>1, <4>2, KeysOnlyTail
      <4>3. CASE LeadsBack(rKey, Settled, m.stack, m.re, Surveyor)
        BY <3>3, <4>1, <4>3, LeadsBackEnds
      <4> QED
        BY <3>4, <4>2, <4>3
    <3>7. PICK e \in [re : Nat, via : Conns \cup {Surveyor, Stranger}] :
            e = [re |-> m.re, via |-> m.via] /\ e.re = n
      <4>1. [re |-> m.re, via |-> m.via] \in [re : Nat, via : Conns \cup {Surveyor, Stranger}]
        BY <3>3
      <4>2. [re |-> m.re, via |-> m.via].re = n
        BY <3>6
      <4> QED
        BY <4>1, <4>2
    <3>8. got' = Append(got, e)
      BY <2>6, <3>2, <3>7
    <3>9. got \in Seq([re : Nat, via : Conns \cup {Surveyor, Stranger}])
          /\ \A i \in 1 .. Len(got) : got[i].re = n
      BY <3>5 DEF Given
    <3>10. /\ got' \in Seq([re : Nat, via : Conns \cup {Surveyor, Stranger}])
           /\ \A i \in 1 .. Len(got') : got'[i].re = n
      BY <3>7, <3>8, <3>9
    <3> QED
      BY <2>2, <3>5, <3>10 DEF Given
  <2> QED
    BY <2>1, <2>3, <2>4, <2>5, <2>6
<1>8. CASE SurveyorRecvTimedOut
  BY <1>4, <1>5, <1>8 DEF SurveyorRecvTimedOut
<1>9. CASE TimerTimeout
  <2>1. state = "ACTIVE"
    BY <1>9 DEF TimerTimeout, TimerFollowsState
  <2> QED
    BY <1>4, <1>5, <1>9, <2>1 DEF TimerTimeout
<1>10. CASE TimerStopped
  <2>1. state \in {"CANCELLING", "STOPPING_TIMER", "STOPPING"}
    BY <1>10 DEF TimerStopped, TimerFollowsState
  <2>2. Given(got', surveyid')
    BY <1>5, <1>10 DEF TimerStopped
  <2>3. CASE state = "CANCELLING"
    <3>1. PICK id \in Nat : id = surveyid
      BY DEF Given
    <3>2. Start(id)
      BY <1>10, <2>3, <3>1 DEF TimerStopped
    <3> QED
      BY <2>2, <3>2, StartStep
  <2>4. CASE state # "CANCELLING"
    <3>1. UNCHANGED <<sVars, aborted>>
      BY <1>10, <2>1, <2>4 DEF TimerStopped
    <3> QED
      BY <1>4, <2>2, <3>1
  <2> QED
    BY <2>3, <2>4
<1>11. CASE Close \/ SurveyorStop
  BY <1>4, <1>5, <1>11 DEF Close, SurveyorStop
<1> QED
  BY <1>6, <1>7, <1>8, <1>9, <1>10, <1>11

LEMMA RespondentStep ==
    ASSUME IInv, NEW r \in Respondents,
           \/ RespondentSend(r) \/ RespondentRecvAgain(r)
           \/ \E c \in Conns : RespondentRecv(r, c)
    PROVE  StepInv
<1> USE DEF IInv
<1>1. /\ sUp' = sUp /\ sReady' = sReady /\ sOut' = sOut /\ sIn' = sIn
      /\ forward' = forward /\ backward' = backward
      /\ got' = got /\ surveyid' = surveyid
  BY DEF RespondentSend, RespondentRecvAgain, RespondentRecv, surveyorVars, sVars, devVars
<1>2. SUFFICES /\ NoAbort'
               /\ Responding(rKey, Settled, rUp', rReady', rOut', rIn')
               /\ Users(rKey, Settled, backtrace', seen')
  BY <1>1 DEF StepInv
<1>3. (backtrace' = [backtrace EXCEPT ![r] = None] /\ seen' = seen)
        => Users(rKey, Settled, backtrace', seen')
  BY NothingLeads DEF Users
<1>4. CASE RespondentSend(r)
  <2>1. backtrace[r] # None /\ backtrace[r] \in Msgs
        /\ seen[r] # None /\ seen[r] \in SurveysSeen /\ seen[r].re = backtrace[r].re
    BY <1>4 DEF RespondentSend, Users
  <2>2. PICK b \in Msgs, sn \in SurveysSeen :
          b = backtrace[r] /\ sn = seen[r] /\ sn.re = b.re
    BY <2>1
  <2>3. b.stack \in Seq(Words) /\ b.re \in Nat /\ sn.via \in Conns
    BY MessageFacts
  <2>4. PICK m \in Msgs : /\ m = Msg(b.stack, sn.re, sn.via)
                          /\ m.stack = b.stack /\ m.re = b.re
    BY <2>2, <2>3, MessageFacts
  <2>5. XRespondentSend(r, m)
    BY <1>4, <2>2, <2>4 DEF RespondentSend
  <2>6. SurveyAt(rKey, Settled, b, r)
    BY <2>2 DEF Users
  <2>7. SurveyAt(rKey, Settled, m, r)
    BY <2>1, <2>2, <2>4, <2>6 DEF SurveyAt
  <2>8. ResponseAt(rKey, Settled, m, r)
    BY <2>7, SurveyIsResponse
  <2>9. Responding(rKey, Settled, rUp', rReady', rOut', rIn') /\ NoAbort'
    BY <2>5, <2>8, XRespondentSendStep
  <2> QED
    BY <1>3, <1>4, <2>9 DEF RespondentSend
<1>5. CASE RespondentRecvAgain(r)
  <2>1. rUp' = rUp /\ rReady' = rReady /\ rOut' = rOut /\ rIn' = rIn /\ aborted' = aborted
    BY <1>5 DEF RespondentRecvAgain, rVars
  <2> QED
    BY <1>3, <1>5, <2>1 DEF RespondentRecvAgain, NoAbort
<1>6. ASSUME NEW c \in Conns, RespondentRecv(r, c)
      PROVE  /\ NoAbort'
             /\ Responding(rKey, Settled, rUp', rReady', rOut', rIn')
             /\ Users(rKey, Settled, backtrace', seen')
  <2>1. NoAbort' /\ TakeIn(c) /\ To[c] = r /\ rIn[c] # None
    BY <1>6 DEF RespondentRecv, NoAbort
  <2>2. Responding(rKey, Settled, rUp', rReady', rOut', rIn')
    BY <2>1, TakeInStep
  <2>3. CASE ~WellFormed(rIn[c])
    BY <1>3, <1>6, <2>1, <2>2, <2>3 DEF RespondentRecv
  <2>4. CASE WellFormed(rIn[c])
    <3>1. PICK x \in Msgs : /\ x = XRespondentRecv(c) /\ x.re = rIn[c].re /\ x.re \in Nat
                            /\ SurveyAt(rKey, Settled, x, r)
      BY <2>1, <2>4, XRespondentRecvStep
    <3>2. PICK sn \in SurveysSeen :
            /\ sn = [kind |-> "survey", re |-> rIn[c].re, via |-> c]
            /\ sn.re = x.re /\ sn # None
      <4>1. PICK n \in Nat : n = rIn[c].re /\ n = x.re
        BY <3>1
      <4>2. [kind |-> "survey", re |-> n, via |-> c] \in SurveysSeen
        BY DEF SurveysSeen
      <4>3. [kind |-> "survey", re |-> n, via |-> c].re = n
        OBVIOUS
      <4> QED
        BY <4>1, <4>2, <4>3, MessageFacts
    <3>3. backtrace' = [backtrace EXCEPT ![r] = x] /\ seen' = [seen EXCEPT ![r] = sn]
      BY <1>6, <2>4, <3>1, <3>2 DEF RespondentRecv
    <3>4. Users(rKey, Settled, backtrace', seen')
      BY <3>1, <3>2, <3>3 DEF Users
    <3> QED
      BY <2>1, <2>2, <3>4
  <2> QED
    BY <2>3, <2>4
<1> QED
  BY <1>4, <1>5, <1>6

LEMMA DeviceStep ==
    ASSUME IInv,
           \/ ForwardSend \/ BackwardSend
           \/ \E c \in Conns : ForwardRecv(c) \/ BackwardRecv(c)
    PROVE  StepInv
<1> USE DEF IInv
<1>1. /\ backtrace' = backtrace /\ seen' = seen /\ got' = got /\ surveyid' = surveyid
  BY DEF ForwardSend, BackwardSend, ForwardRecv, BackwardRecv, surveyorVars, userVars
<1>2. SUFFICES /\ NoAbort'
               /\ Surveying(rKey, Settled, sUp', sReady', sOut', sIn')
               /\ Responding(rKey, Settled, rUp', rReady', rOut', rIn')
               /\ Passing(rKey, Settled, forward', backward')
  BY <1>1 DEF StepInv
<1>3. CASE ForwardSend
  <2>1. rUp' = rUp /\ rReady' = rReady /\ rOut' = rOut /\ rIn' = rIn
    BY <1>3 DEF ForwardSend, rVars
  <2>2. Passing(rKey, Settled, forward', backward')
    BY <1>3, NothingLeads DEF ForwardSend, Passing
  <2>3. PICK m \in Msgs : m = forward
    BY <1>3 DEF ForwardSend, Passing
  <2>4. XSurveyorSend(Device, m) /\ SurveyAt(rKey, Settled, m, Device)
    BY <1>3, <2>3 DEF ForwardSend, Passing
  <2> QED
    BY <2>1, <2>2, <2>4, XSurveyorSendStep
<1>4. CASE BackwardSend
  <2>1. sUp' = sUp /\ sReady' = sReady /\ sOut' = sOut /\ sIn' = sIn
    BY <1>4 DEF BackwardSend, sVars
  <2>2. Passing(rKey, Settled, forward', backward')
    BY <1>4, NothingLeads DEF BackwardSend, Passing
  <2>3. PICK m \in Msgs : m = backward
    BY <1>4 DEF BackwardSend, Passing
  <2>4. XRespondentSend(Device, m) /\ ResponseAt(rKey, Settled, m, Device)
    BY <1>4, <2>3 DEF BackwardSend, Passing
  <2> QED
    BY <2>1, <2>2, <2>4, XRespondentSendStep
<1>5. ASSUME NEW c \in Conns, ForwardRecv(c)
      PROVE  /\ NoAbort'
             /\ Surveying(rKey, Settled, sUp', sReady', sOut', sIn')
             /\ Responding(rKey, Settled, rUp', rReady', rOut', rIn')
             /\ Passing(rKey, Settled, forward', backward')
  <2>1. /\ sUp' = sUp /\ sReady' = sReady /\ sOut' = sOut /\ sIn' = sIn
        /\ aborted' = aborted /\ backward' = backward
        /\ TakeIn(c) /\ To[c] = Device /\ rIn[c] # None
        /\ forward' = IF WellFormed(rIn[c]) THEN XRespondentRecv(c) ELSE None
    BY <1>5 DEF ForwardRecv, sVars
  <2>2. Responding(rKey, Settled, rUp', rReady', rOut', rIn')
    BY <2>1, TakeInStep
  <2>3. forward' \in Msgs \cup {None} /\ SurveyAt(rKey, Settled, forward', Device)
    <3>1. CASE WellFormed(rIn[c])
      BY <2>1, <3>1, XRespondentRecvStep
    <3>2. CASE ~WellFormed(rIn[c])
      BY <2>1, <3>2, NothingLeads
    <3> QED
      BY <3>1, <3>2
  <2> QED
    BY <2>1, <2>2, <2>3 DEF Passing, NoAbort
<1>6. ASSUME NEW c \in Conns, BackwardRecv(c)
      PROVE  /\ NoAbort'
             /\ Surveying(rKey, Settled, sUp', sReady', sOut', sIn')
             /\ Responding(rKey, Settled, rUp', rReady', rOut', rIn')
             /\ Passing(rKey, Settled, forward', backward')
  <2>1. /\ rUp' = rUp /\ rReady' = rReady /\ rOut' = rOut /\ rIn' = rIn
        /\ aborted' = aborted /\ forward' = forward
        /\ Fetch({c}) /\ From[c] = Device /\ sIn[c] # None
        /\ backward' = IF sIn[c].stack # <<>> THEN sIn[c] ELSE None
    BY <1>6 DEF BackwardRecv, rVars
  <2>2. Surveying(rKey, Settled, sUp', sReady', sOut', sIn')
    BY <2>1, FetchStep
  <2>3. sIn[c] \in Msgs \cup {None} /\ ResponseAt(rKey, Settled, sIn[c], Device)
    BY <2>1 DEF Surveying, Slots
  <2>4. backward' \in Msgs \cup {None} /\ ResponseAt(rKey, Settled, backward', Device)
    BY <2>1, <2>3, NothingLeads
  <2> QED
    BY <2>1, <2>2, <2>4 DEF Passing, NoAbort
<1> QED
  BY <1>3, <1>4, <1>5, <1>6

LEMMA ConnectionStep ==
    ASSUME EnoughKeys, IInv, NEW c \in Conns,
           \/ SurveyingEndAdd(c) \/ SurveyingEndRm(c)
           \/ RespondingEndAdd(c) \/ RespondingEndRm(c)
           \/ SurveyArrives(c) \/ ResponseArrives(c)
           \/ Break(c)
           \/ \E stack \in {<<Id(1)>>, <<Key(0)>>} : StrangerSurvey(c, stack)
           \/ \E stack \in {<<>>, <<Key(0)>>} : Nonsense(c, stack)
    PROVE  StepInv
<1> USE DEF IInv
<1>1. /\ backtrace' = backtrace /\ seen' = seen /\ got' = got /\ surveyid' = surveyid
      /\ forward' = forward /\ backward' = backward
  BY DEF SurveyingEndAdd, SurveyingEndRm, RespondingEndAdd, RespondingEndRm, SurveyArrives,
         ResponseArrives, Break, StrangerSurvey, Nonsense, surveyorVars, userVars, devVars
<1>2. SUFFICES /\ NoAbort'
               /\ Surveying(rKey, Settled, sUp', sReady', sOut', sIn')
               /\ Responding(rKey, Settled, rUp', rReady', rOut', rIn')
  BY <1>1 DEF StepInv
<1>3. ASSUME UNCHANGED aborted PROVE NoAbort'
  BY <1>3 DEF NoAbort
<1>4. ASSUME UNCHANGED <<sUp, sReady, sOut, sIn>>
      PROVE  Surveying(rKey, Settled, sUp', sReady', sOut', sIn')
  BY <1>4
<1>5. ASSUME UNCHANGED <<rUp, rReady, rOut, rIn>>
      PROVE  Responding(rKey, Settled, rUp', rReady', rOut', rIn')
  BY <1>5
<1>6. CASE SurveyingEndAdd(c)
  <2>1. XSurveyorAdd(c) /\ UNCHANGED <<rUp, rReady, rOut, rIn, aborted>>
    BY <1>6 DEF SurveyingEndAdd, rVars
  <2> QED
    BY <1>3, <1>5, <2>1, XSurveyorAddStep
<1>7. CASE SurveyingEndRm(c)
  <2>1. XSurveyorRm(c) /\ UNCHANGED <<rUp, rReady, rOut, rIn, aborted>>
    BY <1>7 DEF SurveyingEndRm, rVars
  <2> QED
    BY <1>3, <1>5, <2>1, XSurveyorRmStep
<1>8. CASE RespondingEndAdd(c)
  <2>1. XRespondentAdd(c) /\ UNCHANGED <<sUp, sReady, sOut, sIn>>
    BY <1>8 DEF RespondingEndAdd, sVars
  <2> QED
    BY <1>4, <2>1, XRespondentAddStep
<1>9. CASE RespondingEndRm(c)
  <2>1. XRespondentRm(c) /\ UNCHANGED <<sUp, sReady, sOut, sIn, aborted>>
    BY <1>9 DEF RespondingEndRm, sVars
  <2> QED
    BY <1>3, <1>4, <2>1, XRespondentRmStep
<1>10. CASE SurveyArrives(c)
  <2>1. UNCHANGED aborted /\ sOut[c] # None
        /\ \/ c \in rUp /\ rIn' = [rIn EXCEPT ![c] = sOut[c]] /\ UNCHANGED <<rUp, rReady, rOut>>
           \/ UNCHANGED <<rUp, rReady, rOut, rIn>>
    BY <1>10 DEF SurveyArrives
  <2>2. PICK m \in Msgs : m = sOut[c] /\ SurveyAt(rKey, Settled, m, From[c])
    BY <2>1 DEF Surveying, Slots
  <2>3. Responding(rKey, Settled, rUp', rReady', rOut', rIn')
    BY <1>5, <2>1, <2>2, SurveyComesStep
  <2> QED
    BY <1>3, <1>10, <2>1, <2>3, SurveyLeavesStep
<1>11. CASE ResponseArrives(c)
  <2>1. UNCHANGED aborted /\ rOut[c] # None
        /\ \/ sIn' = [sIn EXCEPT ![c] = rOut[c]] /\ UNCHANGED <<sUp, sReady, sOut>>
           \/ UNCHANGED <<sUp, sReady, sOut, sIn>>
    BY <1>11 DEF ResponseArrives
  <2>2. PICK m \in Msgs : m = rOut[c] /\ ResponseAt(rKey, Settled, m, From[c])
    BY <2>1 DEF Responding, Slots
  <2>3. Surveying(rKey, Settled, sUp', sReady', sOut', sIn')
    BY <1>4, <2>1, <2>2, ResponseComesStep
  <2> QED
    BY <1>3, <1>11, <2>1, <2>3, ResponseLeavesStep
<1>12. CASE Break(c)
  BY <1>3, <1>4, <1>5, <1>12 DEF Break, sVars, rVars
<1>13. ASSUME NEW stack \in {<<Id(1)>>, <<Key(0)>>}, StrangerSurvey(c, stack)
       PROVE  /\ NoAbort'
              /\ Surveying(rKey, Settled, sUp', sReady', sOut', sIn')
              /\ Responding(rKey, Settled, rUp', rReady', rOut', rIn')
  <2>1. /\ UNCHANGED <<aborted, sUp, sReady, sOut, sIn, rUp, rReady, rOut>>
        /\ From[c] = Stranger /\ c \in rUp
        /\ rIn' = [rIn EXCEPT ![c] = Msg(stack, 0, Stranger)]
    BY <1>13 DEF StrangerSurvey, sVars
  <2>2. stack \in Seq(Words)
    BY ShortStacks
  <2>3. PICK m \in Msgs : m = Msg(stack, 0, Stranger) /\ m.stack = stack /\ m.re = 0
    <3>1. Stranger \in Conns \cup {Surveyor, Stranger} /\ 0 \in Nat
      OBVIOUS
    <3>2. LET m == Msg(stack, 0, Stranger)
          IN  m \in Msgs /\ m.stack = stack /\ m.re = 0
      BY <2>2, <3>1, MessageFacts
    <3> QED
      BY <3>2
  <2>4. WellFormed(m) => stack = <<Id(1)>>
    BY <2>3 DEF WellFormed, Key
  <2>5. WellFormed(m) => SurveyAt(rKey, Settled, m, From[c])
    BY <2>1, <2>3, <2>4, LeadsBackStarts, SurveyAssumption DEF SurveyAt
  <2> QED
    BY <1>3, <1>4, <2>1, <2>3, <2>5, SurveyComesStep
<1>14. ASSUME NEW stack \in {<<>>, <<Key(0)>>}, Nonsense(c, stack)
       PROVE  /\ NoAbort'
              /\ Surveying(rKey, Settled, sUp', sReady', sOut', sIn')
              /\ Responding(rKey, Settled, rUp', rReady', rOut', rIn')
  <2>1. /\ UNCHANGED <<aborted, sUp, sReady, sOut, rUp, rReady, rOut, rIn>>
        /\ sIn' = [sIn EXCEPT ![c] = Msg(stack, 0, c)]
    BY <1>14 DEF Nonsense, rVars
  <2>2. stack \in Seq(Words)
    BY ShortStacks
  <2>3. PICK m \in Msgs : m = Msg(stack, 0, c) /\ m.stack = stack
    <3>1. c \in Conns \cup {Surveyor, Stranger} /\ 0 \in Nat
      OBVIOUS
    <3>2. Msg(stack, 0, c) \in Msgs /\ Msg(stack, 0, c).stack = stack
      BY <2>2, <3>1, MessageFacts
    <3> QED
      BY <3>2
  <2>4. KeysOnly(stack)
    BY DEF KeysOnly, Key
  <2>5. ResponseAt(rKey, Settled, m, From[c])
    BY <2>3, <2>4 DEF ResponseAt
  <2> QED
    BY <1>3, <1>5, <2>1, <2>3, <2>5, ResponseComesStep
<1> QED
  BY <1>6, <1>7, <1>8, <1>9, <1>10, <1>11, <1>12, <1>13, <1>14

LEMMA IInvStep ==
    ASSUME EnoughKeys, IInv, [Next]_vars
    PROVE  IInv'
<1>1. StepInv
  <2>1. CASE UNCHANGED vars
    <3>1. /\ sUp' = sUp /\ sReady' = sReady /\ sOut' = sOut /\ sIn' = sIn
          /\ rUp' = rUp /\ rReady' = rReady /\ rOut' = rOut /\ rIn' = rIn
          /\ backtrace' = backtrace /\ seen' = seen /\ got' = got /\ surveyid' = surveyid
          /\ forward' = forward /\ backward' = backward /\ aborted' = aborted
      BY <2>1 DEF vars, surveyorVars, sVars, rVars, userVars, devVars
    <3> QED
      BY <3>1 DEF StepInv, IInv, NoAbort
  <2>2. CASE Next
    BY <2>2, SurveyorStep, RespondentStep, DeviceStep, ConnectionStep DEF Next
  <2> QED
    BY <2>1, <2>2
<1>2. KeysDiffer' /\ TimerFollowsState'
  BY KeysStep, TimerFollowsStateStep DEF IInv
<1>3. PICK key, settled : key = rKey /\ settled = Settled
  OBVIOUS
<1>4. /\ \A m, n : SurveyAt(key, settled, m, n) => SurveyAt(rKey', Settled', m, n)
      /\ \A m, n : ResponseAt(key, settled, m, n) => ResponseAt(rKey', Settled', m, n)
  <2>1. settled \subseteq Settled' /\ \A c \in settled : rKey'[c] = key[c]
    BY <1>3, KeysStep DEF IInv
  <2>2. \A stack, re, n : LeadsBack(key, settled, stack, re, n)
                            => LeadsBack(rKey', Settled', stack, re, n)
    BY <2>1, LeadsBackStays
  <2> QED
    BY <2>2 DEF SurveyAt, ResponseAt
<1>5. Surveying(rKey, Settled, sUp, sReady, sOut, sIn)'
  BY <1>1, <1>3, <1>4 DEF StepInv, Surveying
<1>6. Responding(rKey, Settled, rUp, rReady, rOut, rIn)'
  BY <1>1, <1>3, <1>4 DEF StepInv, Responding
<1>7. Users(rKey, Settled, backtrace, seen)' /\ Passing(rKey, Settled, forward, backward)'
  BY <1>1, <1>3, <1>4 DEF StepInv, Users, Passing
<1>8. Given(got, surveyid)' /\ NoAbort'
  BY <1>1 DEF StepInv, Given
<1> QED
  BY <1>2, <1>5, <1>6, <1>7, <1>8 DEF IInv

(* No nn_assert and no nn_fsm_bad_* of surveyor.c, xsurveyor.c and         *)
(* xrespondent.c is reached.                                               *)
THEOREM SurveyNeverAborts == ASSUME EnoughKeys PROVE Spec => []NoAbort
<1>1. IInv => NoAbort
  BY DEF IInv
<1>2. IInv /\ [Next]_vars => IInv'
  BY IInvStep
<1> QED
  BY <1>1, <1>2, IInvInit, PTL DEF Spec

(* nn_surveyor_recv gives its user answers to the survey sent last and to  *)
(* no other, through however many devices and broken connections the       *)
(* answers and those to earlier surveys come.                              *)
THEOREM SurveyAnswered == ASSUME EnoughKeys PROVE Spec => []AnswersThisSurvey
<1>1. IInv => AnswersThisSurvey
  BY DEF IInv, Given, AnswersThisSurvey
<1>2. IInv /\ [Next]_vars => IInv'
  BY IInvStep
<1> QED
  BY <1>1, <1>2, IInvInit, PTL DEF Spec

-----------------------------------------------------------------------------
(* Who is heard. *)

Vias == Conns \cup {Surveyor, Stranger}
FromDevice(v) == v \in Conns /\ From[v] = Device

(* A survey sent over c arrives over v, itself or through the device. *)
LeadsTo(c, v) == c = v \/ (FromDevice(v) /\ To[c] = Device)

(* The message is about the survey n. *)
About(n, m) == m # None /\ m.re = n

(* In the place y of kind k is the survey n, on its way to the user at the *)
(* end of v, or an answer of that user.                                    *)
Kinds == {"sOut", "rIn", "forward", "seen", "rOut", "backward", "sIn", "got"}
Places == Conns \cup Respondents \cup {Device} \cup DOMAIN got
Here(n, v, k, y) ==
    \/ k = "sOut" /\ y \in Conns /\ LeadsTo(y, v) /\ About(n, sOut[y])
    \/ k = "rIn" /\ y \in Conns /\ LeadsTo(y, v) /\ About(n, rIn[y])
    \/ k = "forward" /\ y = Device /\ FromDevice(v) /\ About(n, forward)
    \/ /\ k = "seen" /\ y \in Respondents
       /\ backtrace[y] # None /\ About(n, seen[y]) /\ seen[y].via = v
    \/ k = "rOut" /\ y \in Conns /\ About(n, rOut[y]) /\ rOut[y].via = v
    \/ k = "backward" /\ y = Device /\ About(n, backward) /\ backward.via = v
    \/ k = "sIn" /\ y \in Conns /\ About(n, sIn[y]) /\ sIn[y].via = v
    \/ k = "got" /\ y \in DOMAIN got /\ got[y].re = n /\ got[y].via = v

(* It is in one place at most. *)
OneHere(n, v) ==
    \A k, l \in Kinds, y, z \in Places : Here(n, v, k, y) /\ Here(n, v, l, z) => k = l /\ y = z

(* It is still to come, or waits for the timer to stop (CANCELLING). *)
NotSentYet(n) == n > surveyid \/ (n = surveyid /\ state = "CANCELLING")
Nowhere(n, v) == \A k \in Kinds, y \in Places : ~Here(n, v, k, y)

HeardInv ==
    /\ surveyid = 0 => ~InProgress /\ got = <<>>
    /\ \A n \in Nat \ {0}, v \in Vias :
        OneHere(n, v) /\ (NotSentYet(n) => Nowhere(n, v))

(* What is in a place, and where it went. *)
Moved(n, v, k, y, l, z) ==
    \A j \in Kinds, x \in Places' :
        Here(n, v, j, x)' => \/ Here(n, v, j, x) /\ ~(j = k /\ x = y)
                             \/ j = l /\ x = z /\ Here(n, v, k, y)

LEMMA HereIsPlace ==
    ASSUME NEW n, NEW v, NEW k, NEW y, Here(n, v, k, y)
    PROVE  k \in Kinds /\ y \in Places
  BY DEF Here, Kinds, Places

(* A step that takes the survey from one place to one other. *)
LEMMA MovedKeepsOne ==
    ASSUME NEW n, NEW v, NEW k, NEW y, NEW l, NEW z, Moved(n, v, k, y, l, z)
    PROVE  /\ OneHere(n, v) => OneHere(n, v)'
           /\ Nowhere(n, v) => Nowhere(n, v)'
<1>1. ASSUME OneHere(n, v),
             NEW i \in Kinds, NEW j \in Kinds, NEW w \in Places', NEW x \in Places',
             Here(n, v, i, w)', Here(n, v, j, x)'
      PROVE  i = j /\ w = x
  <2>1. /\ (Here(n, v, i, w) /\ ~(i = k /\ w = y)) \/ (i = l /\ w = z /\ Here(n, v, k, y))
        /\ (Here(n, v, j, x) /\ ~(j = k /\ x = y)) \/ (j = l /\ x = z /\ Here(n, v, k, y))
    BY <1>1 DEF Moved
  <2>2. ASSUME NEW a, NEW b, NEW c, NEW d, Here(n, v, a, b), Here(n, v, c, d)
        PROVE  a = c /\ b = d
    BY <1>1, <2>2, HereIsPlace DEF OneHere
  <2> QED
    BY <2>1, <2>2
<1>2. OneHere(n, v) => OneHere(n, v)'
  BY <1>1 DEF OneHere
<1>3. Nowhere(n, v) => Nowhere(n, v)'
  BY HereIsPlace DEF Moved, Nowhere
<1> QED
  BY <1>2, <1>3

(* What is in a place that the step does not touch was there before. *)
LEMMA StaysHere ==
    ASSUME NEW n, NEW v, NEW j, NEW x, Here(n, v, j, x)',
           j = "sOut" => sOut'[x] = sOut[x], j = "rIn" => rIn'[x] = rIn[x],
           j = "rOut" => rOut'[x] = rOut[x], j = "sIn" => sIn'[x] = sIn[x],
           j = "forward" => forward' = forward, j = "backward" => backward' = backward,
           j = "seen" => backtrace'[x] = backtrace[x] /\ seen'[x] = seen[x],
           j = "got" => got' = got
    PROVE  Here(n, v, j, x)
  BY DEF Here, About

(* A place that was emptied. *)
LEMMA GoneFrom ==
    ASSUME NEW n, NEW v, NEW j, NEW x, Here(n, v, j, x)'
    PROVE  /\ j = "sOut" => sOut'[x] # None
           /\ j = "rIn" => rIn'[x] # None
           /\ j = "rOut" => rOut'[x] # None
           /\ j = "sIn" => sIn'[x] # None
           /\ j = "forward" => forward' # None
           /\ j = "backward" => backward' # None
           /\ j = "seen" => backtrace'[x] # None
  BY DEF Here, About

Moves(n, v) == \E k, y, l, z : Moved(n, v, k, y, l, z)

(* Nothing comes into a place. *)
LEMMA NothingMoves ==
    ASSUME NEW n, NEW v, \A j \in Kinds, x \in Places' : Here(n, v, j, x)' => Here(n, v, j, x)
    PROVE  Moves(n, v)
<1>1. "none" \notin Kinds
  BY DEF Kinds
<1>2. Moved(n, v, "none", Device, "none", Device)
  BY <1>1 DEF Moved
<1> QED
  BY <1>2 DEF Moves

(* The last survey goes from one place to one other. *)
LEMMA MovesTo ==
    ASSUME NEW n, NEW v, NEW k, NEW y, NEW l, NEW z, Here(n, v, l, z)' => Here(n, v, k, y),
           \A j \in Kinds, x \in Places' :
               Here(n, v, j, x)' /\ ~(j = l /\ x = z) => Here(n, v, j, x) /\ ~(j = k /\ x = y)
    PROVE  Moves(n, v)
<1>1. Moved(n, v, k, y, l, z)
  BY DEF Moved
<1> QED
  BY <1>1 DEF Moves

LEMMA SurveyArrivesMoves ==
    ASSUME IInv, NEW c \in Conns, SurveyArrives(c), NEW n, NEW v
    PROVE  Moves(n, v)
<1>1. /\ got' = got /\ forward' = forward /\ backward' = backward
      /\ backtrace' = backtrace /\ seen' = seen /\ rOut' = rOut /\ sIn' = sIn
  BY DEF SurveyArrives, surveyorVars, devVars, userVars
<1>2. /\ sOut' = [sOut EXCEPT ![c] = None]
      /\ rIn' = rIn \/ rIn' = [rIn EXCEPT ![c] = sOut[c]]
      /\ sOut \in Slots /\ rIn \in Slots
  BY DEF SurveyArrives, IInv, Surveying, Responding
<1>3. ASSUME NEW j \in Kinds, NEW x \in Places', Here(n, v, j, x)', ~(j = "rIn" /\ x = c)
      PROVE  Here(n, v, j, x) /\ ~(j = "sOut" /\ x = c)
  <2>1. ~(j = "sOut" /\ x = c)
    BY <1>2, <1>3, GoneFrom DEF Slots
  <2>2. j \in {"sOut", "rIn"} => x \in Conns
    BY <1>3 DEF Here
  <2>3. (j = "sOut" => sOut'[x] = sOut[x]) /\ (j = "rIn" => rIn'[x] = rIn[x])
    BY <1>2, <1>3, <2>1, <2>2 DEF Slots
  <2> QED
    BY <1>1, <1>3, <2>1, <2>3, StaysHere
<1>4. CASE rIn' = rIn
  <2>1. Here(n, v, "rIn", c)' => Here(n, v, "rIn", c)
    BY <1>1, <1>4 DEF Here, About
  <2>2. \A j \in Kinds, x \in Places' : Here(n, v, j, x)' => Here(n, v, j, x)
    BY <1>3, <2>1
  <2> QED
    BY <2>2, NothingMoves
<1>5. CASE rIn' = [rIn EXCEPT ![c] = sOut[c]]
  <2>1. Here(n, v, "rIn", c)' => Here(n, v, "sOut", c)
    BY <1>1, <1>2, <1>5 DEF Here, About, Slots
  <2> QED
    BY <1>3, <2>1, MovesTo
<1> QED
  BY <1>2, <1>4, <1>5

LEMMA ResponseArrivesMoves ==
    ASSUME IInv, NEW c \in Conns, ResponseArrives(c), NEW n, NEW v
    PROVE  Moves(n, v)
<1>1. /\ got' = got /\ forward' = forward /\ backward' = backward
      /\ backtrace' = backtrace /\ seen' = seen /\ sOut' = sOut /\ rIn' = rIn
  BY DEF ResponseArrives, surveyorVars, devVars, userVars
<1>2. /\ rOut' = [rOut EXCEPT ![c] = None]
      /\ sIn' = sIn \/ sIn' = [sIn EXCEPT ![c] = rOut[c]]
      /\ rOut \in Slots /\ sIn \in Slots
  BY DEF ResponseArrives, IInv, Surveying, Responding
<1>3. ASSUME NEW j \in Kinds, NEW x \in Places', Here(n, v, j, x)', ~(j = "sIn" /\ x = c)
      PROVE  Here(n, v, j, x) /\ ~(j = "rOut" /\ x = c)
  <2>1. ~(j = "rOut" /\ x = c)
    BY <1>2, <1>3, GoneFrom DEF Slots
  <2>2. j \in {"rOut", "sIn"} => x \in Conns
    BY <1>3 DEF Here
  <2>3. (j = "rOut" => rOut'[x] = rOut[x]) /\ (j = "sIn" => sIn'[x] = sIn[x])
    BY <1>2, <1>3, <2>1, <2>2 DEF Slots
  <2> QED
    BY <1>1, <1>3, <2>1, <2>3, StaysHere
<1>4. CASE sIn' = sIn
  <2>1. Here(n, v, "sIn", c)' => Here(n, v, "sIn", c)
    BY <1>1, <1>4 DEF Here, About
  <2>2. \A j \in Kinds, x \in Places' : Here(n, v, j, x)' => Here(n, v, j, x)
    BY <1>3, <2>1
  <2> QED
    BY <2>2, NothingMoves
<1>5. CASE sIn' = [sIn EXCEPT ![c] = rOut[c]]
  <2>1. Here(n, v, "sIn", c)' => Here(n, v, "rOut", c)
    BY <1>1, <1>2, <1>5 DEF Here, About, Slots
  <2> QED
    BY <1>3, <2>1, MovesTo
<1> QED
  BY <1>2, <1>4, <1>5

(* nn_xrespondent_recv puts a key on the stack and leaves the rest. *)
LEMMA XRespondentRecvIsAbout ==
    ASSUME IInv, NEW c \in Conns, rIn[c] # None
    PROVE  XRespondentRecv(c).re = rIn[c].re /\ XRespondentRecv(c) # None
<1>1. rIn[c] \in Msgs
  BY DEF IInv, Responding, Slots
<1> QED
  BY <1>1 DEF XRespondentRecv, Msgs, None

LEMMA ForwardRecvMoves ==
    ASSUME IInv, NEW c \in Conns, ForwardRecv(c), NEW n, NEW v
    PROVE  Moves(n, v)
<1>1. /\ got' = got /\ backward' = backward
      /\ backtrace' = backtrace /\ seen' = seen /\ sOut' = sOut /\ rOut' = rOut /\ sIn' = sIn
  BY DEF ForwardRecv, TakeIn, surveyorVars, sVars, userVars
<1>2. /\ rIn' = [rIn EXCEPT ![c] = None] /\ rIn \in Slots /\ rIn[c] # None /\ To[c] = Device
      /\ forward' = None \/ forward' = XRespondentRecv(c)
  BY DEF ForwardRecv, TakeIn, IInv, Responding
<1>3. ASSUME NEW j \in Kinds, NEW x \in Places', Here(n, v, j, x)',
             ~(j = "forward" /\ x = Device)
      PROVE  Here(n, v, j, x) /\ ~(j = "rIn" /\ x = c)
  <2>1. ~(j = "rIn" /\ x = c)
    BY <1>2, <1>3, GoneFrom DEF Slots
  <2>2. j = "rIn" => rIn'[x] = rIn[x]
    BY <1>2, <2>1 DEF Slots
  <2>3. j # "forward"
    BY <1>3 DEF Here
  <2> QED
    BY <1>1, <1>3, <2>1, <2>2, <2>3, StaysHere
<1>4. Here(n, v, "forward", Device)' => Here(n, v, "rIn", c)
  <2>1. XRespondentRecv(c).re = rIn[c].re
    BY <1>2, XRespondentRecvIsAbout
  <2> QED
    BY <1>1, <1>2, <2>1 DEF Here, About, LeadsTo
<1> QED
  BY <1>3, <1>4, MovesTo

LEMMA BackwardRecvMoves ==
    ASSUME IInv, NEW c \in Conns, BackwardRecv(c), NEW n, NEW v
    PROVE  Moves(n, v)
<1>1. /\ got' = got /\ forward' = forward
      /\ backtrace' = backtrace /\ seen' = seen /\ sOut' = sOut /\ rOut' = rOut /\ rIn' = rIn
  BY DEF BackwardRecv, Fetch, surveyorVars, rVars, userVars
<1>2. /\ \A d \in Conns : sIn'[d] = IF d = c THEN None ELSE sIn[d]
      /\ sIn[c] # None
      /\ backward' = None \/ backward' = sIn[c]
  BY DEF BackwardRecv, Fetch
<1>3. ASSUME NEW j \in Kinds, NEW x \in Places', Here(n, v, j, x)',
             ~(j = "backward" /\ x = Device)
      PROVE  Here(n, v, j, x) /\ ~(j = "sIn" /\ x = c)
  <2>1. ~(j = "sIn" /\ x = c)
    BY <1>2, <1>3, GoneFrom
  <2>2. (j = "sIn" => x \in Conns) /\ j # "backward"
    BY <1>3 DEF Here
  <2>3. j = "sIn" => sIn'[x] = sIn[x]
    BY <1>2, <2>1, <2>2
  <2> QED
    BY <1>1, <1>3, <2>1, <2>2, <2>3, StaysHere
<1>4. Here(n, v, "backward", Device)' => Here(n, v, "sIn", c)
  BY <1>1, <1>2 DEF Here, About
<1> QED
  BY <1>3, <1>4, MovesTo

(* nn_dist_send of the device: the survey goes on over every connection    *)
(* behind it, one copy on the way to each.                                 *)
LEMMA ForwardSendMoves ==
    ASSUME IInv, OnePath, ForwardSend, NEW n, NEW v
    PROVE  Moves(n, v)
<1> DEFINE ready == {c \in sReady : From[c] = Device}
<1>1. /\ got' = got /\ backward' = backward /\ forward' = None
      /\ backtrace' = backtrace /\ seen' = seen /\ rIn' = rIn /\ rOut' = rOut /\ sIn' = sIn
  BY DEF ForwardSend, XSurveyorSend, surveyorVars, rVars, userVars
<1>2. /\ \A c \in Conns : sOut'[c] = IF c \in ready THEN forward ELSE sOut[c]
      /\ ready \subseteq Conns
  BY DEF ForwardSend, XSurveyorSend, IInv, Surveying
<1>3. ASSUME NEW j \in Kinds, NEW x \in Places', Here(n, v, j, x)',
             ~(j = "sOut" /\ x \in ready)
      PROVE  Here(n, v, j, x) /\ ~(j = "forward" /\ x = Device)
  <2>1. j # "forward"
    BY <1>1, <1>3, GoneFrom
  <2>2. j = "sOut" => x \in Conns
    BY <1>3 DEF Here
  <2>3. j = "sOut" => sOut'[x] = sOut[x]
    BY <1>2, <1>3, <2>2
  <2> QED
    BY <1>1, <1>3, <2>1, <2>3, StaysHere
<1>4. ASSUME NEW x \in ready, Here(n, v, "sOut", x)'
      PROVE  x = v /\ Here(n, v, "forward", Device)
  <2>1. /\ x \in Conns /\ From[x] = Device /\ LeadsTo(x, v)
        /\ sOut'[x] = forward /\ About(n, sOut[x])'
    BY <1>2, <1>4 DEF Here
  <2>2. x = v
    BY <2>1 DEF LeadsTo, OnePath
  <2>3. About(n, forward)
    BY <1>1, <2>1 DEF About
  <2> QED
    BY <2>1, <2>2, <2>3 DEF Here, FromDevice
<1>5. CASE v \in ready
  <2>1. \A j \in Kinds, x \in Places' :
            Here(n, v, j, x)' /\ ~(j = "sOut" /\ x = v)
                => Here(n, v, j, x) /\ ~(j = "forward" /\ x = Device)
    BY <1>3, <1>4
  <2>2. Here(n, v, "sOut", v)' => Here(n, v, "forward", Device)
    BY <1>4, <1>5
  <2> QED
    BY <2>1, <2>2, MovesTo
<1>6. CASE v \notin ready
  <2>1. \A j \in Kinds, x \in Places' : Here(n, v, j, x)' => Here(n, v, j, x)
    BY <1>3, <1>4, <1>6
  <2> QED
    BY <2>1, NothingMoves
<1> QED
  BY <1>5, <1>6

(* nn_xrespondent_send finds one pipe at most. *)
LEMMA XRespondentSendsOne ==
    ASSUME IInv, NEW n, NEW m \in Msgs, XRespondentSend(n, m)
    PROVE  \/ rOut' = rOut
           \/ \E c \in Conns, t \in Msgs :
                /\ \A d \in Conns : rOut'[d] = IF d = c THEN t ELSE rOut[d]
                /\ t.re = m.re /\ t.via = m.via
<1> DEFINE dest == {c \in rReady : To[c] = n /\ Key(rKey[c]) = Head(m.stack)}
<1>1. PICK t : t = [m EXCEPT !.stack = Tail(m.stack)]
  OBVIOUS
<1>2. rOut' = [c \in Conns |-> IF c \in dest THEN t ELSE rOut[c]] /\ m.stack # <<>>
  BY <1>1 DEF XRespondentSend
<1>3. Tail(m.stack) \in Seq(Words)
  BY <1>2, MessageFacts
<1>4. t \in Msgs /\ t.re = m.re /\ t.via = m.via
  BY <1>1, <1>3 DEF Msgs
<1>5. rReady \subseteq rUp /\ rUp \subseteq Conns /\ rOut \in Slots
  BY DEF IInv, Responding
<1>6. CASE dest = {}
  BY <1>2, <1>5, <1>6 DEF Slots
<1>7. ASSUME NEW c \in dest
      PROVE  \E e \in Conns, s \in Msgs :
                /\ \A d \in Conns : rOut'[d] = IF d = e THEN s ELSE rOut[d]
                /\ s.re = m.re /\ s.via = m.via
  <2>1. \A d \in dest : d = c
    <3>1. ASSUME NEW d \in dest PROVE rKey[d] = rKey[c]
      <4>1. Key(rKey[d]) = Key(rKey[c])
        BY <1>7, <3>1
      <4> QED
        BY <4>1 DEF Key
    <3> QED
      BY <1>5, <1>7, <3>1 DEF IInv, KeysDiffer
  <2>2. c \in Conns /\ \A d \in Conns : rOut'[d] = IF d = c THEN t ELSE rOut[d]
    BY <1>2, <1>5, <1>7, <2>1
  <2> QED
    BY <1>4, <2>2
<1> QED
  BY <1>6, <1>7

LEMMA BackwardSendMoves ==
    ASSUME IInv, BackwardSend, NEW n, NEW v
    PROVE  Moves(n, v)
<1>1. /\ got' = got /\ forward' = forward /\ backward' = None
      /\ backtrace' = backtrace /\ seen' = seen /\ rIn' = rIn /\ sOut' = sOut /\ sIn' = sIn
      /\ backward \in Msgs
  BY DEF BackwardSend, XRespondentSend, surveyorVars, sVars, userVars, IInv, Passing
<1>2. ASSUME NEW j \in Kinds, NEW x \in Places', Here(n, v, j, x)',
             j = "rOut" => rOut'[x] = rOut[x]
      PROVE  Here(n, v, j, x) /\ ~(j = "backward" /\ x = Device)
  <2>1. j # "backward"
    BY <1>1, <1>2, GoneFrom
  <2> QED
    BY <1>1, <1>2, <2>1, StaysHere
<1>3. CASE rOut' = rOut
  <2>1. \A j \in Kinds, x \in Places' : Here(n, v, j, x)' => Here(n, v, j, x)
    BY <1>2, <1>3
  <2> QED
    BY <2>1, NothingMoves
<1>4. ASSUME NEW c \in Conns, NEW t \in Msgs,
             \A d \in Conns : rOut'[d] = IF d = c THEN t ELSE rOut[d],
             t.re = backward.re, t.via = backward.via
      PROVE  Moves(n, v)
  <2>1. Here(n, v, "rOut", c)' => Here(n, v, "backward", Device)
    BY <1>1, <1>4, MessageFacts DEF Here, About
  <2>2. ASSUME NEW j \in Kinds, NEW x \in Places', Here(n, v, j, x)', ~(j = "rOut" /\ x = c)
        PROVE  j = "rOut" => rOut'[x] = rOut[x]
    <3>1. j = "rOut" => x \in Conns
      BY <2>2 DEF Here
    <3> QED
      BY <1>4, <2>2, <3>1
  <2> QED
    BY <1>2, <2>1, <2>2, MovesTo
<1> QED
  BY <1>1, <1>3, <1>4, XRespondentSendsOne DEF BackwardSend

(* The respondent's user answers once: the backtrace is gone with it. *)
LEMMA RespondentSendMoves ==
    ASSUME IInv, NEW r \in Respondents, RespondentSend(r), NEW n, NEW v
    PROVE  Moves(n, v)
<1>1. /\ got' = got /\ forward' = forward /\ backward' = backward
      /\ seen' = seen /\ rIn' = rIn /\ sOut' = sOut /\ sIn' = sIn
      /\ backtrace' = [backtrace EXCEPT ![r] = None] /\ backtrace[r] # None
  BY DEF RespondentSend, XRespondentSend, surveyorVars, sVars, devVars
<1>2. /\ backtrace \in [Respondents -> Msgs \cup {None}]
      /\ seen[r] \in SurveysSeen
  BY <1>1 DEF IInv, Users
<1>3. PICK m : m = Msg(backtrace[r].stack, seen[r].re, seen[r].via)
  OBVIOUS
<1>4. m \in Msgs /\ m.re = seen[r].re /\ m.via = seen[r].via /\ XRespondentSend(r, m)
  <2>1. backtrace[r].stack \in Seq(Words)
    BY <1>1, <1>2, MessageFacts
  <2>2. seen[r].re \in Nat /\ seen[r].via \in Conns
    BY <1>2, MessageFacts
  <2>3. m \in Msgs
    BY <1>3, <2>1, <2>2, MessageFacts
  <2>4. m.re = seen[r].re /\ m.via = seen[r].via
    BY <1>3 DEF Msg
  <2> QED
    BY <1>3, <2>3, <2>4 DEF RespondentSend
<1>5. ASSUME NEW j \in Kinds, NEW x \in Places', Here(n, v, j, x)',
             j = "rOut" => rOut'[x] = rOut[x]
      PROVE  Here(n, v, j, x) /\ ~(j = "seen" /\ x = r)
  <2>1. ~(j = "seen" /\ x = r)
    BY <1>1, <1>2, <1>5, GoneFrom
  <2>2. j = "seen" => x \in Respondents
    BY <1>5 DEF Here
  <2>3. j = "seen" => backtrace'[x] = backtrace[x]
    BY <1>1, <1>2, <2>1, <2>2
  <2> QED
    BY <1>1, <1>5, <2>1, <2>3, StaysHere
<1>6. CASE rOut' = rOut
  <2>1. \A j \in Kinds, x \in Places' : Here(n, v, j, x)' => Here(n, v, j, x)
    BY <1>5, <1>6
  <2> QED
    BY <2>1, NothingMoves
<1>7. ASSUME NEW c \in Conns, NEW t \in Msgs,
             \A d \in Conns : rOut'[d] = IF d = c THEN t ELSE rOut[d],
             t.re = m.re, t.via = m.via
      PROVE  Moves(n, v)
  <2>1. Here(n, v, "rOut", c)' => Here(n, v, "seen", r)
    BY <1>1, <1>2, <1>4, <1>7, MessageFacts DEF Here, About
  <2>2. ASSUME NEW j \in Kinds, NEW x \in Places', Here(n, v, j, x)', ~(j = "rOut" /\ x = c)
        PROVE  j = "rOut" => rOut'[x] = rOut[x]
    <3>1. j = "rOut" => x \in Conns
      BY <2>2 DEF Here
    <3> QED
      BY <1>7, <2>2, <3>1
  <2> QED
    BY <1>5, <2>1, <2>2, MovesTo
<1> QED
  BY <1>4, <1>6, <1>7, XRespondentSendsOne

(* The user is given a survey, and the one before is forgotten. *)
LEMMA RespondentRecvMoves ==
    ASSUME IInv, NEW r \in Respondents, NEW c \in Conns, RespondentRecv(r, c), NEW n, NEW v
    PROVE  Moves(n, v)
<1>1. /\ got' = got /\ forward' = forward /\ backward' = backward
      /\ rOut' = rOut /\ sOut' = sOut /\ sIn' = sIn
      /\ rIn' = [rIn EXCEPT ![c] = None] /\ rIn[c] # None /\ rIn \in Slots
  BY DEF RespondentRecv, TakeIn, surveyorVars, sVars, devVars, IInv, Responding
<1>2. /\ backtrace \in [Respondents -> Msgs \cup {None}]
      /\ seen \in [Respondents -> SurveysSeen \cup {None}]
  BY DEF IInv, Users
<1>3. /\ \A q \in Respondents \ {r} : backtrace'[q] = backtrace[q] /\ seen'[q] = seen[q]
      /\ \/ seen'[r] = [kind |-> "survey", re |-> rIn[c].re, via |-> c]
         \/ backtrace'[r] = None
  BY <1>2 DEF RespondentRecv
<1>4. ASSUME NEW j \in Kinds, NEW x \in Places', Here(n, v, j, x)', ~(j = "seen" /\ x = r)
      PROVE  Here(n, v, j, x) /\ ~(j = "rIn" /\ x = c)
  <2>1. ~(j = "rIn" /\ x = c)
    BY <1>1, <1>4, GoneFrom DEF Slots
  <2>2. j = "rIn" => rIn'[x] = rIn[x]
    BY <1>1, <2>1 DEF Slots
  <2>3. j = "seen" => x \in Respondents
    BY <1>4 DEF Here
  <2>4. j = "seen" => backtrace'[x] = backtrace[x] /\ seen'[x] = seen[x]
    BY <1>3, <1>4, <2>3
  <2> QED
    BY <1>1, <1>4, <2>1, <2>2, <2>4, StaysHere
<1>5. Here(n, v, "seen", r)' => Here(n, v, "rIn", c)
  BY <1>1, <1>3 DEF Here, About, LeadsTo
<1> QED
  BY <1>4, <1>5, MovesTo

(* nn_surveyor_recv takes a response out of its pipe and gives it to the   *)
(* user.                                                                   *)
LEMMA SurveyorRecvMoves ==
    ASSUME IInv, SurveyorRecv, NEW n, NEW v
    PROVE  Moves(n, v)
<1>1. /\ forward' = forward /\ backward' = backward
      /\ backtrace' = backtrace /\ seen' = seen /\ rIn' = rIn /\ rOut' = rOut
  BY DEF SurveyorRecv, rVars, userVars, devVars
<1>2. ASSUME NEW fetched, Fetch(fetched),
             NEW j \in Kinds, NEW x \in Places', Here(n, v, j, x)',
             j = "got" => x \in DOMAIN got /\ got'[x] = got[x]
      PROVE  Here(n, v, j, x) /\ ~(j = "sIn" /\ x \in fetched)
  <2>1. j = "sIn" => x \in Conns
    BY <1>2 DEF Here
  <2>2. j = "sIn" => x \notin fetched /\ sIn'[x] = sIn[x]
    <3>1. j = "sIn" => sIn'[x] # None
      BY <1>2, GoneFrom
    <3> QED
      BY <1>2, <2>1, <3>1 DEF Fetch
  <2>3. sOut' = sOut
    BY <1>2 DEF Fetch
  <2>4. CASE j = "got"
    BY <1>2, <2>4 DEF Here
  <2>5. CASE j # "got"
    BY <1>1, <1>2, <2>2, <2>3, <2>5, StaysHere
  <2> QED
    BY <2>2, <2>4, <2>5
<1>3. ASSUME NEW fetched, Fetch(fetched), got' = got
      PROVE  Moves(n, v)
  <2>1. ASSUME NEW j \in Kinds, NEW x \in Places', Here(n, v, j, x)'
        PROVE  j = "got" => x \in DOMAIN got /\ got'[x] = got[x]
    BY <1>3, <2>1 DEF Here
  <2>2. \A j \in Kinds, x \in Places' : Here(n, v, j, x)' => Here(n, v, j, x)
    BY <1>2, <1>3, <2>1
  <2> QED
    BY <2>2, NothingMoves
<1>4. ASSUME NEW fetched, Fetch(fetched), NEW c \in Conns, c \in fetched, sIn[c] # None,
             got' = Append(got, [re |-> sIn[c].re, via |-> sIn[c].via])
      PROVE  Moves(n, v)
  <2>1. PICK g \in [re : Nat, via : Conns \cup {Surveyor, Stranger}] :
            g = [re |-> sIn[c].re, via |-> sIn[c].via]
    <3>1. sIn[c] \in Msgs
      BY <1>4 DEF IInv, Surveying, Slots
    <3> QED
      BY <3>1, MessageFacts
  <2>2. PICK e : e = Len(got) + 1
    OBVIOUS
  <2>3. /\ got \in Seq([re : Nat, via : Conns \cup {Surveyor, Stranger}])
        /\ got' = Append(got, g)
    BY <1>4, <2>1 DEF IInv, Given
  <2>4. /\ e \in DOMAIN got' /\ got'[e] = g
        /\ \A x \in DOMAIN got' : x # e => x \in DOMAIN got /\ got'[x] = got[x]
    BY <2>2, <2>3
  <2>6. Here(n, v, "got", e)' => Here(n, v, "sIn", c)
    <3>1. Here(n, v, "got", e)' => g.re = n /\ g.via = v
      BY <2>4 DEF Here
    <3> QED
      BY <1>4, <2>1, <3>1 DEF Here, About
  <2>7. ASSUME NEW j \in Kinds, NEW x \in Places', Here(n, v, j, x)', ~(j = "got" /\ x = e)
        PROVE  Here(n, v, j, x) /\ ~(j = "sIn" /\ x = c)
    <3>1. j = "got" => x \in DOMAIN got'
      BY <2>7 DEF Here
    <3>2. j = "got" => x \in DOMAIN got /\ got'[x] = got[x]
      BY <2>4, <2>7, <3>1
    <3> QED
      BY <1>2, <1>4, <2>7, <3>2
  <2> QED
    BY <2>6, <2>7, MovesTo
<1>5. ASSUME NEW c \in Good PROVE c \in Conns /\ sIn[c] # None
  BY <1>5 DEF Good, Whole, Waiting
<1> QED
  BY <1>3, <1>4, <1>5 DEF SurveyorRecv

(* The steps that only empty places, or put in what is not about it. *)
LEMMA QuietMoves ==
    ASSUME got' = got, forward' = forward, backward' = backward,
           \A r \in Respondents :
               backtrace'[r] = None \/ (backtrace'[r] = backtrace[r] /\ seen'[r] = seen[r]),
           \A c \in Conns : /\ sOut'[c] = sOut[c] \/ sOut'[c] = None
                            /\ rIn'[c] = rIn[c] \/ rIn'[c] = None \/ rIn'[c].re = 0
                            /\ rOut'[c] = rOut[c] \/ rOut'[c] = None
                            /\ sIn'[c] = sIn[c] \/ sIn'[c] = None \/ sIn'[c].re = 0,
           NEW n, n # 0, NEW v
    PROVE  Moves(n, v)
<1>1. ASSUME NEW j \in Kinds, NEW x \in Places', Here(n, v, j, x)' PROVE Here(n, v, j, x)
  <2>1. /\ j \in {"sOut", "rIn", "rOut", "sIn"} => x \in Conns
        /\ j = "seen" => x \in Respondents
    BY <1>1 DEF Here
  <2>2. /\ j = "rIn" => rIn'[x].re # 0
        /\ j = "sIn" => sIn'[x].re # 0
    BY <1>1 DEF Here, About
  <2>3. /\ j = "sOut" => sOut'[x] = sOut[x]
        /\ j = "rOut" => rOut'[x] = rOut[x]
        /\ j = "seen" => backtrace'[x] = backtrace[x] /\ seen'[x] = seen[x]
    BY <1>1, <2>1, GoneFrom
  <2>4. /\ j = "rIn" => rIn'[x] = rIn[x]
        /\ j = "sIn" => sIn'[x] = sIn[x]
    BY <1>1, <2>1, <2>2, GoneFrom
  <2> QED
    BY <1>1, <2>3, <2>4, StaysHere
<1> QED
  BY <1>1, NothingMoves

(* Surveys are numbered and cancelled by nn_surveyor_send alone, and there *)
(* is none in progress, and no answer, before the first.                   *)
LEMMA SurveyorMoves ==
    ASSUME [Next]_vars, TimerFollowsState, surveyid \in Nat
    PROVE  /\ ~SurveyorSend => /\ surveyid' = surveyid
                               /\ state' = "CANCELLING" => state = "CANCELLING"
           /\ (surveyid = 0 => ~InProgress /\ got = <<>>)
                => (surveyid' = 0 => ~InProgress' /\ got' = <<>>)
<1>1. CASE SurveyorSend
  BY <1>1 DEF SurveyorSend
<1>2. CASE SurveyorRecv
  BY <1>2 DEF SurveyorRecv, InProgress
<1>3. CASE SurveyorRecvTimedOut \/ TimerTimeout \/ Close
  BY <1>3 DEF SurveyorRecvTimedOut, TimerTimeout, Close, InProgress, TimerFollowsState
<1>4. CASE TimerStopped
  BY <1>4 DEF TimerStopped, Start, InProgress, TimerFollowsState
<1>5. CASE SurveyorStop
  BY <1>5 DEF SurveyorStop, InProgress
<1>6. CASE UNCHANGED surveyorVars
  BY <1>6 DEF surveyorVars, InProgress
<1> QED
  BY <1>1, <1>2, <1>3, <1>4, <1>5, <1>6, OnlySurveyorMoves

LEMMA QuietSteps ==
    ASSUME IInv,
           \/ UNCHANGED vars
           \/ SurveyorRecvTimedOut \/ TimerTimeout \/ Close \/ SurveyorStop
           \/ TimerStopped /\ state # "CANCELLING"
           \/ \E c \in Conns :
                \/ SurveyingEndAdd(c) \/ SurveyingEndRm(c)
                \/ RespondingEndAdd(c) \/ RespondingEndRm(c) \/ Break(c)
                \/ \E stack \in {<<Id(1)>>, <<Key(0)>>} : StrangerSurvey(c, stack)
                \/ \E stack \in {<<>>, <<Key(0)>>} : Nonsense(c, stack)
           \/ \E r \in Respondents : RespondentRecvAgain(r),
           NEW n, n # 0, NEW v
    PROVE  Moves(n, v)
<1>1. sOut \in Slots /\ rIn \in Slots /\ rOut \in Slots /\ sIn \in Slots
  BY DEF IInv, Surveying, Responding
<1>2. backtrace \in [Respondents -> Msgs \cup {None}]
  BY DEF IInv, Users
<1>3. SUFFICES /\ got' = got /\ forward' = forward /\ backward' = backward
               /\ \A r \in Respondents : \/ backtrace'[r] = None
                                         \/ backtrace'[r] = backtrace[r] /\ seen'[r] = seen[r]
               /\ \A c \in Conns : /\ sOut'[c] = sOut[c] \/ sOut'[c] = None
                                   /\ rIn'[c] = rIn[c] \/ rIn'[c] = None \/ rIn'[c].re = 0
                                   /\ rOut'[c] = rOut[c] \/ rOut'[c] = None
                                   /\ sIn'[c] = sIn[c] \/ sIn'[c] = None \/ sIn'[c].re = 0
  BY QuietMoves
<1>4. CASE UNCHANGED vars
  BY <1>4 DEF vars, surveyorVars, sVars, rVars, userVars, devVars
<1>5. CASE SurveyorRecvTimedOut \/ TimerTimeout \/ Close \/ SurveyorStop
  BY <1>5 DEF SurveyorRecvTimedOut, TimerTimeout, Close, SurveyorStop, sVars, rVars, userVars,
              devVars
<1>6. CASE TimerStopped /\ state # "CANCELLING"
  BY <1>6 DEF TimerStopped, sVars, rVars, userVars, devVars
<1>7. ASSUME NEW c \in Conns, SurveyingEndAdd(c) \/ SurveyingEndRm(c)
      PROVE  /\ UNCHANGED <<got, forward, backward, backtrace, seen, rIn, rOut>>
             /\ sOut' = sOut \/ sOut' = [sOut EXCEPT ![c] = None]
             /\ sIn' = sIn \/ sIn' = [sIn EXCEPT ![c] = None]
  BY <1>7 DEF SurveyingEndAdd, SurveyingEndRm, XSurveyorAdd, XSurveyorRm, surveyorVars, rVars,
              userVars, devVars
<1>8. ASSUME NEW c \in Conns, RespondingEndAdd(c) \/ RespondingEndRm(c) \/ Break(c)
      PROVE  /\ UNCHANGED <<got, forward, backward, backtrace, seen, sIn, sOut>>
             /\ rOut' = rOut \/ rOut' = [rOut EXCEPT ![c] = None]
             /\ rIn' = rIn \/ rIn' = [rIn EXCEPT ![c] = None]
  BY <1>8 DEF RespondingEndAdd, RespondingEndRm, Break, XRespondentAdd, XRespondentRm,
              surveyorVars, sVars, rVars, userVars, devVars
<1>9. ASSUME NEW c \in Conns, NEW stack, StrangerSurvey(c, stack) \/ Nonsense(c, stack)
      PROVE  /\ UNCHANGED <<got, forward, backward, backtrace, seen, sOut, rOut>>
             /\ \A d \in Conns : /\ rIn'[d] = rIn[d] \/ rIn'[d].re = 0
                                 /\ sIn'[d] = sIn[d] \/ sIn'[d].re = 0
  BY <1>1, <1>9 DEF StrangerSurvey, Nonsense, Msg, Slots, surveyorVars, sVars, rVars, userVars,
                    devVars
<1>10. ASSUME NEW r \in Respondents, RespondentRecvAgain(r)
       PROVE  /\ UNCHANGED <<got, forward, backward, seen, sOut, sIn, rIn, rOut>>
              /\ backtrace' = [backtrace EXCEPT ![r] = None]
  BY <1>10 DEF RespondentRecvAgain, surveyorVars, sVars, rVars, devVars
<1> QED
  BY <1>1, <1>2, <1>4, <1>5, <1>6, <1>7, <1>8, <1>9, <1>10 DEF Slots

(* The survey leaves the surveyor, over one connection on the way to each  *)
(* user.                                                                   *)
LEMMA LeavesOnce ==
    ASSUME OnePath, NEW n, NEW v,
           \A k \in Kinds, y \in Places' :
               Here(n, v, k, y)' => k = "sOut" /\ From[y] = Surveyor
    PROVE  OneHere(n, v)'
<1>1. ASSUME NEW k \in Kinds, NEW l \in Kinds, NEW y \in Places', NEW z \in Places',
             Here(n, v, k, y)', Here(n, v, l, z)'
      PROVE  k = l /\ y = z
  <2>1. k = "sOut" /\ l = "sOut" /\ From[y] = Surveyor /\ From[z] = Surveyor
    BY <1>1
  <2>2. y \in Conns /\ z \in Conns /\ LeadsTo(y, v) /\ LeadsTo(z, v)
    BY <1>1, <2>1 DEF Here
  <2>3. y = z
    BY <2>1, <2>2, SurveyAssumption DEF LeadsTo, FromDevice, OnePath
  <2> QED
    BY <2>1, <2>3
<1> QED
  BY <1>1 DEF OneHere

LEMMA StartSends ==
    ASSUME IInv, OnePath, NEW id, Start(id), NEW n, NEW v,
           UNCHANGED <<rVars, userVars, devVars>>, got' = got \/ got' = <<>>
    PROVE  /\ n = id /\ Nowhere(n, v) => OneHere(n, v)'
           /\ n # id => Moves(n, v)
<1> DEFINE ready == {c \in sReady : From[c] = Surveyor}
<1>1. /\ forward' = forward /\ backward' = backward /\ backtrace' = backtrace /\ seen' = seen
      /\ rIn' = rIn /\ rOut' = rOut /\ sIn' = sIn
  BY DEF Start, XSurveyorSend, rVars, userVars, devVars
<1>2. PICK m : /\ m.re = id
               /\ \A c \in Conns : sOut'[c] = IF c \in ready THEN m ELSE sOut[c]
  BY DEF Start, XSurveyorSend, Msg
<1>3. ASSUME NEW k \in Kinds, NEW y \in Places', Here(n, v, k, y)'
      PROVE  Here(n, v, k, y) \/ (k = "sOut" /\ From[y] = Surveyor /\ n = id)
  <2>1. (k = "sOut" => y \in Conns /\ About(n, sOut'[y])) /\ (k = "got" => y \in DOMAIN got')
    BY <1>3 DEF Here, About
  <2>2. k = "got" => got' = got
    BY <2>1
  <2>3. CASE k = "sOut" /\ y \in ready
    BY <1>2, <2>1, <2>3 DEF About
  <2>4. CASE ~(k = "sOut" /\ y \in ready)
    <3>1. k = "sOut" => sOut'[y] = sOut[y]
      BY <1>2, <2>1, <2>4
    <3> QED
      BY <1>1, <1>3, <2>2, <3>1, StaysHere
  <2> QED
    BY <2>3, <2>4
<1>4. ASSUME n = id, Nowhere(n, v) PROVE OneHere(n, v)'
  <2>1. \A k \in Kinds, y \in Places' : Here(n, v, k, y)' => k = "sOut" /\ From[y] = Surveyor
    BY <1>3, <1>4, HereIsPlace DEF Nowhere
  <2> QED
    BY <2>1, LeavesOnce
<1>5. ASSUME n # id PROVE Moves(n, v)
  BY <1>3, <1>5, NothingMoves
<1> QED
  BY <1>4, <1>5

(* What one step does to the survey n on its way to the end of v. *)
LEMMA HeardStep ==
    ASSUME IInv, OnePath, HeardInv, [Next]_vars, NEW n \in Nat \ {0}, NEW v \in Vias
    PROVE  OneHere(n, v)' /\ (NotSentYet(n)' => Nowhere(n, v)')
<1>1. OneHere(n, v) /\ (NotSentYet(n) => Nowhere(n, v)) /\ surveyid \in Nat
  BY DEF HeardInv, IInv, Given
<1>2. ASSUME Moves(n, v), NotSentYet(n)' => NotSentYet(n)
      PROVE  OneHere(n, v)' /\ (NotSentYet(n)' => Nowhere(n, v)')
  BY <1>1, <1>2, MovedKeepsOne DEF Moves
<1>3. CASE SurveyorSend
  <2>1. /\ surveyid' = surveyid + 1 /\ got' = <<>>
        /\ UNCHANGED <<rVars, userVars, devVars>>
    BY <1>3 DEF SurveyorSend
  <2>2. CASE InProgress
    <3>1. UNCHANGED sVars
      BY <1>3, <2>2 DEF SurveyorSend
    <3>2. ASSUME NEW k \in Kinds, NEW y \in Places', Here(n, v, k, y)' PROVE Here(n, v, k, y)
      <4>1. k # "got"
        BY <2>1, <3>2 DEF Here
      <4> QED
        BY <2>1, <3>1, <3>2, <4>1, StaysHere DEF sVars, rVars, userVars, devVars
    <3>3. Moves(n, v)
      BY <3>2, NothingMoves
    <3>4. NotSentYet(n)' => NotSentYet(n)
      BY <1>1, <2>1 DEF NotSentYet
    <3> QED
      BY <1>2, <3>3, <3>4
  <2>3. CASE ~InProgress
    <3>1. Start(surveyid') /\ state' = "ACTIVE"
      BY <1>3, <2>3, SendStarts DEF IInv, Start
    <3>2. PICK id : id = surveyid'
      OBVIOUS
    <3>3. CASE n = id
      <4>1. Nowhere(n, v) /\ ~NotSentYet(n)'
        BY <1>1, <2>1, <3>1, <3>2, <3>3 DEF NotSentYet
      <4> QED
        BY <2>1, <3>1, <3>2, <3>3, <4>1, StartSends
    <3>4. CASE n # id
      <4>1. NotSentYet(n)' => NotSentYet(n)
        BY <1>1, <2>1, <3>1, <3>2 DEF NotSentYet
      <4> QED
        BY <1>2, <2>1, <3>1, <3>2, <3>4, <4>1, StartSends
    <3> QED
      BY <3>3, <3>4
  <2> QED
    BY <2>2, <2>3
<1>4. CASE TimerStopped /\ state = "CANCELLING"
  <2>1. /\ Start(surveyid) /\ state' = "ACTIVE" /\ surveyid' = surveyid /\ got' = got
        /\ UNCHANGED <<rVars, userVars, devVars>>
    BY <1>4 DEF TimerStopped, Start
  <2>2. PICK id : id = surveyid
    OBVIOUS
  <2>3. CASE n = id
    BY <1>1, <1>4, <2>1, <2>2, <2>3, StartSends DEF NotSentYet
  <2>4. CASE n # id
    BY <1>1, <1>2, <2>1, <2>2, <2>4, StartSends DEF NotSentYet
  <2> QED
    BY <2>3, <2>4
<1>5. ASSUME ~SurveyorSend PROVE NotSentYet(n)' => NotSentYet(n)
  BY <1>1, <1>5, SurveyorMoves DEF NotSentYet, IInv
<1>6. ASSUME ~SurveyorSend, ~(TimerStopped /\ state = "CANCELLING") PROVE Moves(n, v)
  <2>1. CASE SurveyorRecv \/ ForwardSend \/ BackwardSend
    BY <2>1, SurveyorRecvMoves, ForwardSendMoves, BackwardSendMoves
  <2>2. ASSUME NEW c \in Conns, \/ SurveyArrives(c) \/ ResponseArrives(c)
                                \/ ForwardRecv(c) \/ BackwardRecv(c)
        PROVE  Moves(n, v)
    BY <2>2, SurveyArrivesMoves, ResponseArrivesMoves, ForwardRecvMoves, BackwardRecvMoves
  <2>3. ASSUME NEW r \in Respondents,
               RespondentSend(r) \/ \E c \in Conns : RespondentRecv(r, c)
        PROVE  Moves(n, v)
    BY <2>3, RespondentSendMoves, RespondentRecvMoves
  <2> QED
    BY <1>6, <2>1, <2>2, <2>3, QuietSteps DEF Next
<1> QED
  BY <1>2, <1>3, <1>4, <1>5, <1>6

(* A user who answers a survey is heard once by the surveyor, if one way   *)
(* leads from the surveyor to the device: nn_respondent_send forgets the   *)
(* survey it has answered, and neither nn_dist_send, nn_xrespondent_send   *)
(* nor the device doubles a message on the way to one user.                *)
THEOREM SurveyHeardOnce ==
    ASSUME EnoughKeys, OnePath
    PROVE  Spec => []HeardOnce
<1>1. Init => HeardInv
  <2> SUFFICES ASSUME Init PROVE HeardInv
    OBVIOUS
  <2>1. ASSUME NEW n, NEW v, NEW k, NEW y PROVE ~Here(n, v, k, y)
    BY DEF Init, Here, About
  <2>2. surveyid = 0 /\ ~InProgress /\ got = <<>>
    BY DEF Init, InProgress
  <2> QED
    BY <2>1, <2>2 DEF HeardInv, OneHere, Nowhere
<1>2. IInv /\ [Next]_vars => IInv'
  BY IInvStep
<1>3. IInv /\ HeardInv /\ [Next]_vars => HeardInv'
  <2> SUFFICES ASSUME IInv, HeardInv, [Next]_vars PROVE HeardInv'
    OBVIOUS
  <2>1. (surveyid = 0 => ~InProgress /\ got = <<>>)'
    BY SurveyorMoves DEF HeardInv, IInv, Given
  <2> QED
    BY <2>1, HeardStep DEF HeardInv
<1>4. IInv /\ HeardInv => HeardOnce
  <2> SUFFICES ASSUME IInv, HeardInv, NEW i \in DOMAIN got, NEW j \in DOMAIN got,
                      got[i].via = got[j].via
               PROVE  i = j
    BY DEF HeardOnce
  <2>1. /\ got \in Seq([re : Nat, via : Vias]) /\ surveyid \in Nat
        /\ got[i].re = surveyid /\ got[j].re = surveyid
    BY DEF IInv, Given, Vias
  <2>2. surveyid # 0
    BY DEF HeardInv
  <2>3. PICK n \in Nat \ {0}, v \in Vias : n = surveyid /\ v = got[i].via
    <3>1. PICK G : G = [re : Nat, via : Vias]
      OBVIOUS
    <3>2. got \in Seq(G)
      BY <2>1, <3>1
    <3>3. got[i] \in G
      BY <3>2
    <3> QED
      BY <2>1, <2>2, <3>1, <3>3
  <2>4. Here(n, v, "got", i) /\ Here(n, v, "got", j)
    BY <2>1, <2>3 DEF Here
  <2>5. OneHere(n, v)
    BY DEF HeardInv
  <2> QED
    BY <2>4, <2>5, HereIsPlace DEF OneHere
<1> QED
  BY <1>1, <1>2, <1>3, <1>4, IInvInit, PTL DEF Spec
=============================================================================
