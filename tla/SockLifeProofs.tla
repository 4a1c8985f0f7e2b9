---------------------------- MODULE SockLifeProofs ----------------------------
(***************************************************************************)
(* What holds of the socket table and of the life of sockets for any       *)
(* number of threads, sockets and slots. Four inductive invariants:        *)
(*  - HoldInv: holds are counted right, a closing socket has one closer,   *)
(*    and the semaphores are posted once each, by the last one out;        *)
(*  - CloseInv: the descriptor follows the messages and the closing, the   *)
(*    endpoints are gone when the protocol is stopped;                     *)
(*  - TableInv: table, stack of unused slots and socket states agree;      *)
(*  - TermInv: nn_term leaves no usable socket behind it.                  *)
(* The last three rest on the first.                                       *)
(***************************************************************************)
EXTENDS SockLife, FiniteSetTheorems, TLAPS

Closing == {"STOPPING_EPS", "STOPPING", "FINI"}
Open == {"ACTIVE"} \cup Closing

ObjTypeOK ==
    /\ flags \subseteq {"TERMING", "TERMED"}
    /\ ostate \in [Objs -> ObjStates]
    /\ holds \in [Objs -> Nat]
    /\ eps \in [Objs -> Nat]
    /\ sdeps \in [Objs -> Nat]
    /\ termsem \in [Objs -> Nat]
    /\ relesem \in [Objs -> Nat]
    /\ msgs \in [Objs -> 0 .. MaxMsgs]
    /\ flagIn \in [Objs -> BOOLEAN]
    /\ rcvfd \in [Objs -> BOOLEAN]
    /\ pc \in [Threads -> {"idle", "term"} \cup InCall \cup InClose]
    /\ ref \in [Threads -> Objs \cup {NoSock}]
    /\ slot \in [Threads -> 0 .. MaxSockets]
    /\ terming \in [Threads -> BOOLEAN]
    /\ crashed \in BOOLEAN

(* A call works on a socket that exists, nn_close on one that is closing. *)
RefsAreOpen ==
    \A t \in Threads :
        /\ pc[t] \in InCall => ref[t] \in Objs /\ ostate[ref[t]] \in Open
        /\ pc[t] \in InClose => ref[t] \in Objs /\ ostate[ref[t]] \in Closing

(* A socket is closed by one thread. *)
OneCloser ==
    \A t, u \in Threads :
        pc[t] \in InClose /\ pc[u] \in InClose /\ ref[t] = ref[u] => t = u

(* What nn_close has waited for has happened. *)
CloserHasWaited ==
    \A t \in Threads :
        /\ pc[t] \in {"relesem", "closeend"} => ostate[ref[t]] = "FINI"
        /\ pc[t] = "closeend" => holds[ref[t]] = 0

(* The holds are the calls that hold, and the one of an open socket. *)
HoldsCounted ==
    \A o \in Objs :
        holds[o] = Cardinality(Holders(o))
                   + (IF ostate[o] = "ACTIVE" THEN 1 ELSE 0)

(* The semaphores are posted once, when there is nothing to wait for. *)
SemsPosted ==
    \A o \in Objs :
        /\ termsem[o] <= 1
        /\ relesem[o] <= 1
        /\ termsem[o] > 0 => ostate[o] \in {"FINI", "freed"}
        /\ relesem[o] > 0 => holds[o] = 0 /\ ostate[o] # "none"

HoldInv ==
    /\ ObjTypeOK
    /\ RefsAreOpen
    /\ OneCloser
    /\ CloserHasWaited
    /\ HoldsCounted
    /\ SemsPosted

(* The holders of a socket are finitely many threads. *)
LEMMA HoldersFinite ==
    ASSUME NEW o
    PROVE  IsFiniteSet(Holders(o)) /\ Cardinality(Holders(o)) \in Nat
<1>1. Holders(o) \in SUBSET Threads
  BY DEF Holders
<1> QED
  BY <1>1, FS_Subset, FS_CardinalityType, SockLifeAssumption DEF SockLifeAssumption

(* Before the first nn_socket nothing is held and nothing is posted. *)
LEMMA HoldInvInit == Init => HoldInv
<1> SUFFICES ASSUME Init PROVE HoldInv
  OBVIOUS
<1>1. \A o \in Objs : Holders(o) = {}
  BY DEF Init, Holders, InCall, HeldCalls
<1>2. HoldsCounted
  <2>1. Cardinality({}) = 0
    BY FS_EmptySet
  <2> SUFFICES ASSUME NEW o \in Objs
               PROVE  holds[o] = Cardinality(Holders(o))
                                 + (IF ostate[o] = "ACTIVE" THEN 1 ELSE 0)
    BY DEF HoldsCounted
  <2>2. holds[o] = 0 /\ ostate[o] # "ACTIVE"
    BY DEF Init
  <2>3. Cardinality(Holders(o)) = 0
    BY <1>1, <2>1
  <2> QED
    BY <2>2, <2>3
<1>3. ObjTypeOK
  <2>1. 0 \in 0 .. MaxMsgs /\ 0 \in 0 .. MaxSockets
    BY SockLifeAssumption DEF SockLifeAssumption
  <2>2. flagIn \in [Objs -> BOOLEAN] /\ rcvfd \in [Objs -> BOOLEAN]
        /\ terming \in [Threads -> BOOLEAN]
    BY DEF Init
  <2> QED
    BY <2>1, <2>2 DEF Init, ObjTypeOK, ObjStates
<1>4. RefsAreOpen /\ OneCloser /\ CloserHasWaited /\ SemsPosted
  BY DEF Init, RefsAreOpen, OneCloser, CloserHasWaited, SemsPosted, InCall,
         InClose, HeldCalls
<1> QED
  BY <1>2, <1>3, <1>4 DEF HoldInv

(* A socket whose holders, holds and being ACTIVE do not change stays      *)
(* counted; so does one whose holders and holds change together.           *)
LEMMA CountKept ==
    ASSUME HoldInv, NEW x \in Objs, Holders(x)' = Holders(x),
           holds'[x] = holds[x],
           ostate'[x] = "ACTIVE" <=> ostate[x] = "ACTIVE"
    PROVE  holds'[x] = Cardinality(Holders(x)')
                       + (IF ostate'[x] = "ACTIVE" THEN 1 ELSE 0)
BY DEF HoldInv, HoldsCounted

(* nn_socket: the new socket has one hold, the application's own. *)
LEMMA NnSocketHold ==
    ASSUME HoldInv, NEW t \in Threads, NEW o \in Objs, NnSocket(t, o)
    PROVE  HoldInv'
<1>1. /\ ostate[o] = "none"
      /\ ostate' = [ostate EXCEPT ![o] = "ACTIVE"]
      /\ holds' = [holds EXCEPT ![o] = 1]
      /\ UNCHANGED <<flags, eps, sdeps, termsem, relesem, msgs, flagIn, rcvfd,
                     pc, ref, slot, terming, crashed>>
  BY DEF NnSocket, Set, threadVars
<1>2. Holders(o) = {}
  BY <1>1 DEF HoldInv, RefsAreOpen, Holders, Open, Closing
<1>3. \A x \in Objs : Holders(x)' = Holders(x)
  BY <1>1 DEF Holders
<1>4. HoldsCounted'
  <2> SUFFICES ASSUME NEW x \in Objs
               PROVE  holds'[x] = Cardinality(Holders(x)')
                                  + (IF ostate'[x] = "ACTIVE" THEN 1 ELSE 0)
    BY DEF HoldsCounted
  <2>1. CASE x = o
    <3>1. Cardinality(Holders(o)') = 0
      BY <1>2, <1>3, FS_EmptySet
    <3> QED
      BY <1>1, <2>1, <3>1 DEF HoldInv, ObjTypeOK
  <2>2. CASE x # o
    BY <1>1, <1>3, <2>2, CountKept DEF HoldInv, ObjTypeOK
  <2> QED
    BY <2>1, <2>2
<1>5. ObjTypeOK'
  BY <1>1 DEF HoldInv, ObjTypeOK, ObjStates
<1>6. RefsAreOpen' /\ OneCloser'
  BY <1>1 DEF HoldInv, ObjTypeOK, RefsAreOpen, OneCloser, Open, Closing
<1>7. CloserHasWaited'
  BY <1>1 DEF HoldInv, ObjTypeOK, RefsAreOpen, CloserHasWaited, Open, Closing, InClose
<1>8. SemsPosted'
  BY <1>1 DEF HoldInv, ObjTypeOK, SemsPosted
<1> QED
  BY <1>4, <1>5, <1>6, <1>7, <1>8 DEF HoldInv

(* nn_global_hold_socket: one holder more, and one hold more. *)
LEMMA HoldHold ==
    ASSUME HoldInv, NEW t \in Threads, NEW s \in Slots, NEW call \in HeldCalls,
           Hold(t, s, call)
    PROVE  HoldInv'
<1>1. PICK o \in Objs :
        /\ ostate[o] = "ACTIVE"
        /\ holds' = [holds EXCEPT ![o] = holds[o] + 1]
        /\ ref' = [ref EXCEPT ![t] = o]
  BY DEF Hold, CanHold, Set
<1>2. /\ pc[t] = "idle"
      /\ pc' = [pc EXCEPT ![t] = call]
      /\ UNCHANGED <<flags, ostate, eps, sdeps, termsem, relesem, msgs, flagIn,
                     rcvfd, slot, terming, crashed>>
  BY DEF Hold, Set
<1>3. t \notin Holders(o) /\ Holders(o)' = Holders(o) \cup {t}
  BY <1>1, <1>2 DEF HoldInv, ObjTypeOK, Holders, InCall, HeldCalls
<1>4. \A x \in Objs \ {o} : Holders(x)' = Holders(x)
  BY <1>1, <1>2 DEF HoldInv, ObjTypeOK, Holders, InCall, HeldCalls
<1>5. HoldsCounted'
  <2> SUFFICES ASSUME NEW x \in Objs
               PROVE  holds'[x] = Cardinality(Holders(x)')
                                  + (IF ostate'[x] = "ACTIVE" THEN 1 ELSE 0)
    BY DEF HoldsCounted
  <2>1. CASE x = o
    <3>1. Cardinality(Holders(o) \cup {t}) = Cardinality(Holders(o)) + 1
      BY <1>3, HoldersFinite, FS_AddElement
    <3> QED
      BY <1>1, <1>2, <1>3, <2>1, <3>1, HoldersFinite
         DEF HoldInv, ObjTypeOK, HoldsCounted
  <2>2. CASE x # o
    BY <1>1, <1>2, <1>4, <2>2, CountKept DEF HoldInv, ObjTypeOK
  <2> QED
    BY <2>1, <2>2
<1>6. ObjTypeOK'
  BY <1>1, <1>2 DEF HoldInv, ObjTypeOK, ObjStates, InCall
<1>7. RefsAreOpen'
  BY <1>1, <1>2 DEF HoldInv, ObjTypeOK, RefsAreOpen, Open, InClose, HeldCalls
<1>8. OneCloser' /\ CloserHasWaited'
  BY <1>1, <1>2 DEF HoldInv, ObjTypeOK, RefsAreOpen, OneCloser,
                    CloserHasWaited, Closing, InClose, HeldCalls
<1>9. SemsPosted'
  <2>1. holds[o] > 0
    BY <1>1, HoldersFinite DEF HoldInv, ObjTypeOK, HoldsCounted
  <2> QED
    BY <1>1, <1>2, <2>1 DEF HoldInv, ObjTypeOK, SemsPosted
<1> QED
  BY <1>5, <1>6, <1>7, <1>8, <1>9 DEF HoldInv

(* nn_global_rele_socket: one holder less, one hold less, and relesem when *)
(* it was the last.                                                        *)
LEMMA ReleHold ==
    ASSUME HoldInv, NEW t \in Threads, Rele(t)
    PROVE  HoldInv'
<1> PICK o \in Objs : o = ref[t]
  BY DEF Rele, HoldInv, RefsAreOpen, InCall
<1>1. /\ pc[t] = "rele" /\ ref[t] = o /\ ostate[o] \in Open
      /\ holds' = [holds EXCEPT ![o] = holds[o] - 1]
      /\ relesem' = [relesem EXCEPT ![o] =
                        relesem[o] + (IF holds[o] = 1 THEN 1 ELSE 0)]
      /\ ref' = [ref EXCEPT ![t] = NoSock]
      /\ pc' = [pc EXCEPT ![t] = "idle"]
      /\ UNCHANGED <<flags, ostate, eps, sdeps, termsem, msgs, flagIn, rcvfd,
                     slot, terming, crashed>>
  BY DEF Rele, Release, Set, HoldInv, RefsAreOpen, InCall
<1>2. t \in Holders(o) /\ Holders(o)' = Holders(o) \ {t}
  BY <1>1 DEF HoldInv, ObjTypeOK, Holders, InCall, HeldCalls
<1>3. \A x \in Objs \ {o} : Holders(x)' = Holders(x)
  BY <1>1, SockLifeAssumption
     DEF HoldInv, ObjTypeOK, Holders, InCall, HeldCalls, SockLifeAssumption
<1>4. Cardinality(Holders(o) \ {t}) = Cardinality(Holders(o)) - 1
  BY <1>2, HoldersFinite, FS_RemoveElement
<1>5. Cardinality(Holders(o)) \in Nat /\ Cardinality(Holders(o)) # 0
  BY <1>2, HoldersFinite, FS_EmptySet
<1>6. holds[o] \in Nat /\ holds[o] > 0 /\ relesem[o] = 0
  BY <1>1, <1>5 DEF HoldInv, ObjTypeOK, HoldsCounted, SemsPosted
<1>7. HoldsCounted'
  <2> SUFFICES ASSUME NEW x \in Objs
               PROVE  holds'[x] = Cardinality(Holders(x)')
                                  + (IF ostate'[x] = "ACTIVE" THEN 1 ELSE 0)
    BY DEF HoldsCounted
  <2>1. CASE x = o
    <3>1. holds[o] = Cardinality(Holders(o))
                     + (IF ostate[o] = "ACTIVE" THEN 1 ELSE 0)
      BY DEF HoldInv, HoldsCounted
    <3>2. Cardinality(Holders(o)') = Cardinality(Holders(o)) - 1
      BY <1>2, <1>4
    <3>3. holds'[o] = holds[o] - 1 /\ ostate'[o] = ostate[o]
      BY <1>1 DEF HoldInv, ObjTypeOK
    <3> QED
      BY <1>5, <2>1, <3>1, <3>2, <3>3
  <2>2. CASE x # o
    BY <1>1, <1>3, <2>2, CountKept DEF HoldInv, ObjTypeOK
  <2> QED
    BY <2>1, <2>2
<1>8. ObjTypeOK'
  <2>1. holds' \in [Objs -> Nat] /\ relesem' \in [Objs -> Nat]
    BY <1>1, <1>6 DEF HoldInv, ObjTypeOK
  <2> QED
    BY <1>1, <2>1 DEF HoldInv, ObjTypeOK
<1>9. RefsAreOpen' /\ OneCloser'
  BY <1>1 DEF HoldInv, ObjTypeOK, RefsAreOpen, OneCloser, InClose, InCall,
              HeldCalls
<1>10. CloserHasWaited'
  BY <1>1, <1>6 DEF HoldInv, ObjTypeOK, CloserHasWaited
<1>11. SemsPosted'
  BY <1>1, <1>6 DEF HoldInv, ObjTypeOK, SemsPosted, Open, Closing
<1> QED
  BY <1>7, <1>8, <1>9, <1>10, <1>11 DEF HoldInv

(* nn_close up to nn_sock_term: the application's own hold is dropped, and *)
(* the thread becomes the only closer of the socket.                       *)
LEMMA CloseSlotHold ==
    ASSUME HoldInv, NEW t \in Threads, NEW s \in Slots,
           pc[t] \in {"idle", "term"}, CloseSlot(t, s)
    PROVE  HoldInv'
<1>1. PICK o \in Objs :
        /\ ostate[o] = "ACTIVE"
        /\ SockStop(o)
        /\ holds' = [holds EXCEPT ![o] = holds[o] - 1]
        /\ relesem' = [relesem EXCEPT ![o] =
                          relesem[o] + (IF holds[o] = 1 THEN 1 ELSE 0)]
        /\ ref' = [ref EXCEPT ![t] = o]
  BY DEF CloseSlot, CanHold, Release, Set
<1>2. /\ slot' = [slot EXCEPT ![t] = s]
      /\ pc' = [pc EXCEPT ![t] = "termsem"]
      /\ UNCHANGED <<flags, msgs, flagIn, terming, crashed>>
  BY DEF CloseSlot, Set
<1>3. /\ rcvfd' = [rcvfd EXCEPT ![o] = TRUE]
      /\ eps' = [eps EXCEPT ![o] = 0]
      /\ sdeps' = [sdeps EXCEPT ![o] = sdeps[o] + eps[o]]
  BY <1>1 DEF SockStop, Set
<1>4. \/ /\ \E z \in {"STOPPING_EPS", "STOPPING"} : ostate' = [ostate EXCEPT ![o] = z]
         /\ termsem' = termsem
      \/ /\ ostate' = [ostate EXCEPT ![o] = "FINI"]
         /\ termsem' = [termsem EXCEPT ![o] = termsem[o] + 1]
  BY <1>1 DEF SockStop, StopProtocol, Set
<1>5. \A x \in Objs : Holders(x)' = Holders(x)
  BY <1>1, <1>2 DEF HoldInv, ObjTypeOK, Holders, InCall, HeldCalls
<1>6. /\ holds[o] = Cardinality(Holders(o)) + 1
      /\ Cardinality(Holders(o)) \in Nat
  BY <1>1, HoldersFinite DEF HoldInv, HoldsCounted
<1>7. termsem[o] = 0 /\ relesem[o] = 0
  BY <1>1, <1>6 DEF HoldInv, ObjTypeOK, SemsPosted
<1>8. HoldsCounted'
  <2> SUFFICES ASSUME NEW x \in Objs
               PROVE  holds'[x] = Cardinality(Holders(x)')
                                  + (IF ostate'[x] = "ACTIVE" THEN 1 ELSE 0)
    BY DEF HoldsCounted
  <2>1. CASE x = o
    <3>1. holds'[o] = holds[o] - 1 /\ ostate'[o] # "ACTIVE"
      BY <1>1, <1>4 DEF HoldInv, ObjTypeOK
    <3>2. Cardinality(Holders(o)') = Cardinality(Holders(o))
      BY <1>5
    <3> QED
      BY <1>6, <2>1, <3>1, <3>2
  <2>2. CASE x # o
    BY <1>1, <1>4, <1>5, <2>2, CountKept DEF HoldInv, ObjTypeOK
  <2> QED
    BY <2>1, <2>2
<1>9. ObjTypeOK'
  <2>1. holds' \in [Objs -> Nat] /\ relesem' \in [Objs -> Nat]
    BY <1>1, <1>6 DEF HoldInv, ObjTypeOK
  <2>2. ostate' \in [Objs -> ObjStates] /\ termsem' \in [Objs -> Nat]
    BY <1>4 DEF HoldInv, ObjTypeOK, ObjStates
  <2>3. eps' \in [Objs -> Nat] /\ sdeps' \in [Objs -> Nat]
        /\ rcvfd' \in [Objs -> BOOLEAN]
    BY <1>3 DEF HoldInv, ObjTypeOK
  <2>4. slot' \in [Threads -> 0 .. MaxSockets]
        /\ ref' \in [Threads -> Objs \cup {NoSock}]
    BY <1>1, <1>2, SockLifeAssumption
       DEF HoldInv, ObjTypeOK, Slots, SockLifeAssumption
  <2>5. pc' \in [Threads -> {"idle", "term"} \cup InCall \cup InClose]
    BY <1>2 DEF HoldInv, ObjTypeOK, InClose
  <2> QED
    BY <1>2, <2>1, <2>2, <2>3, <2>4, <2>5 DEF HoldInv, ObjTypeOK
<1>10. RefsAreOpen'
  BY <1>1, <1>2, <1>4 DEF HoldInv, ObjTypeOK, RefsAreOpen, Open, Closing,
                          InCall, HeldCalls, InClose
<1>11. OneCloser'
  BY <1>1, <1>2, <1>4 DEF HoldInv, ObjTypeOK, RefsAreOpen, OneCloser, Closing,
                          InClose
<1>12. CloserHasWaited'
  BY <1>1, <1>2, <1>4 DEF HoldInv, ObjTypeOK, RefsAreOpen, CloserHasWaited,
                          Closing, InClose
<1>13. SemsPosted'
  BY <1>1, <1>4, <1>6, <1>7 DEF HoldInv, ObjTypeOK, SemsPosted
<1> QED
  BY <1>8, <1>9, <1>10, <1>11, <1>12, <1>13 DEF HoldInv

(* nn_close is past termsem only when the socket is in FINI. *)
LEMMA WaitTermHold ==
    ASSUME HoldInv, NEW t \in Threads, WaitTerm(t)
    PROVE  HoldInv'
<1> PICK o \in Objs : o = ref[t]
  BY DEF WaitTerm, HoldInv, RefsAreOpen, InClose
<1>1. /\ pc[t] = "termsem" /\ ref[t] = o /\ termsem[o] > 0
      /\ termsem' = [termsem EXCEPT ![o] = termsem[o] - 1]
      /\ pc' = [pc EXCEPT ![t] = "relesem"]
      /\ UNCHANGED <<flags, ostate, holds, eps, sdeps, relesem, msgs, flagIn,
                     rcvfd, ref, slot, terming, crashed>>
  BY DEF WaitTerm, Set
<1>2. ostate[o] = "FINI"
  BY <1>1 DEF HoldInv, ObjTypeOK, RefsAreOpen, SemsPosted, Closing, InClose
<1>3. \A x \in Objs : Holders(x)' = Holders(x)
  BY <1>1 DEF HoldInv, ObjTypeOK, Holders, InCall, HeldCalls
<1>4. HoldsCounted'
  BY <1>1, <1>3, CountKept DEF HoldsCounted
<1>5. ObjTypeOK'
  BY <1>1 DEF HoldInv, ObjTypeOK, InClose
<1>6. RefsAreOpen' /\ OneCloser'
  BY <1>1 DEF HoldInv, ObjTypeOK, RefsAreOpen, OneCloser, InClose, InCall,
              HeldCalls
<1>7. CloserHasWaited'
  BY <1>1, <1>2 DEF HoldInv, ObjTypeOK, CloserHasWaited
<1>8. SemsPosted'
  BY <1>1 DEF HoldInv, ObjTypeOK, SemsPosted
<1> QED
  BY <1>4, <1>5, <1>6, <1>7, <1>8 DEF HoldInv

(* nn_close is past relesem only when nobody holds the socket. *)
LEMMA WaitReleHold ==
    ASSUME HoldInv, NEW t \in Threads, WaitRele(t)
    PROVE  HoldInv'
<1> PICK o \in Objs : o = ref[t]
  BY DEF WaitRele, HoldInv, RefsAreOpen, InClose
<1>1. /\ pc[t] = "relesem" /\ ref[t] = o /\ relesem[o] > 0
      /\ relesem' = [relesem EXCEPT ![o] = relesem[o] - 1]
      /\ pc' = [pc EXCEPT ![t] = "closeend"]
      /\ UNCHANGED <<flags, ostate, holds, eps, sdeps, termsem, msgs, flagIn,
                     rcvfd, ref, slot, terming>>
  BY DEF WaitRele, Set
<1>2. crashed' \in BOOLEAN
  BY DEF WaitRele, Crash
<1>3. \A x \in Objs : Holders(x)' = Holders(x)
  BY <1>1 DEF HoldInv, ObjTypeOK, Holders, InCall, HeldCalls
<1>4. HoldsCounted'
  BY <1>1, <1>3, CountKept DEF HoldsCounted
<1>5. ObjTypeOK'
  BY <1>1, <1>2 DEF HoldInv, ObjTypeOK, InClose
<1>6. RefsAreOpen' /\ OneCloser'
  BY <1>1 DEF HoldInv, ObjTypeOK, RefsAreOpen, OneCloser, InClose, InCall,
              HeldCalls
<1>7. CloserHasWaited'
  BY <1>1 DEF HoldInv, ObjTypeOK, CloserHasWaited, SemsPosted
<1>8. SemsPosted'
  BY <1>1 DEF HoldInv, ObjTypeOK, SemsPosted
<1> QED
  BY <1>4, <1>5, <1>6, <1>7, <1>8 DEF HoldInv

(* The end of nn_close: nobody else refers to the socket it frees. *)
LEMMA CloseEndHold ==
    ASSUME HoldInv, NEW t \in Threads, CloseEnd(t)
    PROVE  HoldInv'
<1> PICK o \in Objs : o = ref[t]
  BY DEF CloseEnd, HoldInv, RefsAreOpen, InClose
<1>1. /\ pc[t] = "closeend" /\ ref[t] = o
      /\ ostate' = [ostate EXCEPT ![o] = "freed"]
      /\ msgs' = [msgs EXCEPT ![o] = 0]
      /\ flagIn' = [flagIn EXCEPT ![o] = FALSE]
      /\ rcvfd' = [rcvfd EXCEPT ![o] = FALSE]
      /\ ref' = [ref EXCEPT ![t] = NoSock]
      /\ slot' = [slot EXCEPT ![t] = IF terming[t] THEN slot[t] ELSE 0]
      /\ pc' = [pc EXCEPT ![t] = IF terming[t] THEN "term" ELSE "idle"]
      /\ UNCHANGED <<flags, holds, eps, sdeps, termsem, relesem, terming,
                     crashed>>
  BY DEF CloseEnd, Set
<1>2. holds[o] = 0 /\ ostate[o] = "FINI"
  BY <1>1 DEF HoldInv, CloserHasWaited
<1>3. Holders(o) = {}
  <2>1. Cardinality(Holders(o)) = 0
    BY <1>2, HoldersFinite DEF HoldInv, HoldsCounted
  <2> QED
    BY <2>1, HoldersFinite, FS_EmptySet
<1>4. \A x \in Objs : Holders(x)' = Holders(x)
  BY <1>1 DEF HoldInv, ObjTypeOK, Holders, InCall, HeldCalls
<1>5. HoldsCounted'
  <2> SUFFICES ASSUME NEW x \in Objs
               PROVE  holds'[x] = Cardinality(Holders(x)')
                                  + (IF ostate'[x] = "ACTIVE" THEN 1 ELSE 0)
    BY DEF HoldsCounted
  <2> QED
    BY <1>1, <1>2, <1>4, CountKept DEF HoldInv, ObjTypeOK
<1>6. ObjTypeOK'
  <2>1. 0 \in 0 .. MaxMsgs /\ 0 \in 0 .. MaxSockets
    BY SockLifeAssumption DEF SockLifeAssumption
  <2>2. /\ msgs' \in [Objs -> 0 .. MaxMsgs]
        /\ slot' \in [Threads -> 0 .. MaxSockets]
        /\ ref' \in [Threads -> Objs \cup {NoSock}]
    BY <1>1, <2>1 DEF HoldInv, ObjTypeOK
  <2>3. /\ flagIn' \in [Objs -> BOOLEAN]
        /\ rcvfd' \in [Objs -> BOOLEAN]
        /\ ostate' \in [Objs -> ObjStates]
        /\ pc' \in [Threads -> {"idle", "term"} \cup InCall \cup InClose]
    BY <1>1 DEF HoldInv, ObjTypeOK, ObjStates
  <2> QED
    BY <1>1, <2>2, <2>3 DEF HoldInv, ObjTypeOK
<1>7. \A u \in Threads : u # t /\ pc[u] \in InCall \cup InClose => ref[u] # o
  BY <1>1, <1>3 DEF HoldInv, OneCloser, Holders, InClose
<1>8. RefsAreOpen'
  BY <1>1, <1>7 DEF HoldInv, ObjTypeOK, RefsAreOpen, InClose, InCall, HeldCalls
<1>9. OneCloser'
  BY <1>1 DEF HoldInv, ObjTypeOK, OneCloser, InClose
<1>10. CloserHasWaited'
  BY <1>1, <1>7 DEF HoldInv, ObjTypeOK, CloserHasWaited, InClose
<1>11. SemsPosted'
  BY <1>1 DEF HoldInv, ObjTypeOK, SemsPosted
<1> QED
  BY <1>5, <1>6, <1>8, <1>9, <1>10, <1>11 DEF HoldInv

(* The other steps leave holds and semaphores alone, but for termsem when  *)
(* the socket gets to FINI, and move no thread into or out of a call.      *)
StopsOrStays(x) ==
    \/ ostate'[x] = ostate[x] /\ termsem'[x] = termsem[x]
    \/ /\ ostate[x] \in {"STOPPING_EPS", "STOPPING"}
       /\ \/ ostate'[x] = "STOPPING" /\ termsem'[x] = termsem[x]
          \/ ostate'[x] = "FINI" /\ termsem'[x] = termsem[x] + 1

(* Steps of the kind just described preserve the invariant. *)
LEMMA HoldInvKept ==
    ASSUME HoldInv, ObjTypeOK', UNCHANGED <<ref, holds, relesem>>,
           \A u \in Threads : pc'[u] \in InCall <=> pc[u] \in InCall,
           \A u \in Threads :
               pc[u] \in InClose \/ pc'[u] \in InClose => pc'[u] = pc[u],
           \A x \in Objs : StopsOrStays(x)
    PROVE  HoldInv'
<1>1. \A x \in Objs : Holders(x)' = Holders(x)
  BY DEF Holders
<1>2. HoldsCounted'
  <2> SUFFICES ASSUME NEW x \in Objs
               PROVE  holds'[x] = Cardinality(Holders(x)')
                                  + (IF ostate'[x] = "ACTIVE" THEN 1 ELSE 0)
    BY DEF HoldsCounted
  <2>1. ostate'[x] = "ACTIVE" <=> ostate[x] = "ACTIVE"
    BY DEF StopsOrStays
  <2> QED
    BY <1>1, <2>1, CountKept
<1>3. RefsAreOpen'
  BY DEF HoldInv, RefsAreOpen, StopsOrStays, Open, Closing
<1>4. OneCloser'
  BY DEF HoldInv, OneCloser
<1>5. CloserHasWaited'
  BY DEF HoldInv, RefsAreOpen, CloserHasWaited, StopsOrStays, InClose
<1>6. SemsPosted'
  <2> SUFFICES ASSUME NEW x \in Objs
               PROVE  /\ termsem'[x] <= 1
                      /\ relesem'[x] <= 1
                      /\ termsem'[x] > 0 => ostate'[x] \in {"FINI", "freed"}
                      /\ relesem'[x] > 0 => holds'[x] = 0 /\ ostate'[x] # "none"
    BY DEF SemsPosted
  <2>1. termsem[x] \in Nat /\ relesem[x] \in Nat
    BY DEF HoldInv, ObjTypeOK
  <2> QED
    BY <2>1 DEF HoldInv, SemsPosted, StopsOrStays
<1> QED
  BY <1>2, <1>3, <1>4, <1>5, <1>6 DEF HoldInv

(* nn_term passes over a slot it cannot close. *)
SkipSlot(t) ==
    /\ pc[t] = "term"
    /\ slot[t] < MaxSockets
    /\ \A o \in Objs : ~CanHold(slot[t], o)
    /\ Set(slot, t, slot[t] + 1)
    /\ UNCHANGED <<tableVars, flags, objVars, pc, ref, terming, crashed>>

(* nn_term and nn_init, but for the sockets nn_term closes. *)
LEMMA TermHold ==
    ASSUME HoldInv, NEW t \in Threads,
           NnTerm(t) \/ TermEnd(t) \/ NnInit(t) \/ SkipSlot(t)
    PROVE  HoldInv'
<1>1. /\ UNCHANGED <<objVars, ref, crashed>>
      /\ pc' = pc \/ \E z \in {"idle", "term"} :
                        /\ pc[t] \in {"idle", "term"}
                        /\ pc' = [pc EXCEPT ![t] = z]
  BY DEF NnTerm, TermEnd, NnInit, SkipSlot, Set, threadVars
<1>2. slot' \in [Threads -> 0 .. MaxSockets]
  BY SockLifeAssumption DEF SockLifeAssumption, NnTerm, TermEnd, NnInit, SkipSlot, Set,
     threadVars, HoldInv, ObjTypeOK
<1>3. terming' \in [Threads -> BOOLEAN] /\ flags' \subseteq {"TERMING", "TERMED"}
  BY DEF NnTerm, TermEnd, NnInit, SkipSlot, Set, threadVars, HoldInv, ObjTypeOK
<1>4. ObjTypeOK'
  BY <1>1, <1>2, <1>3 DEF HoldInv, ObjTypeOK, objVars
<1> QED
  BY <1>1, <1>4, HoldInvKept
     DEF HoldInv, ObjTypeOK, objVars, InCall, InClose, HeldCalls, StopsOrStays

(* The steps of a thread inside a call that holds its socket. *)
CallStep(t) ==
    RecvTry(t) \/ RecvWake(t) \/ RecvTimeout(t) \/ AddEp(t) \/ RmEp(t) \/ Option(t)

(* nn_sock_onleave keeps the types of what it updates. *)
LEMMA OnLeaveType ==
    ASSUME ObjTypeOK, NEW o \in Objs, NEW n \in 0 .. MaxMsgs, NEW f,
           OnLeave(o, n, f)
    PROVE  /\ msgs' \in [Objs -> 0 .. MaxMsgs]
           /\ flagIn' \in [Objs -> BOOLEAN]
           /\ rcvfd' \in [Objs -> BOOLEAN]
           /\ crashed' \in BOOLEAN
<1>1. (n > 0) \in BOOLEAN /\ rcvfd[o] \in BOOLEAN
  BY DEF ObjTypeOK
<1>2. (IF (n > 0) = f THEN rcvfd[o] ELSE n > 0) \in BOOLEAN
  BY <1>1
<1> QED
  BY <1>1, <1>2 DEF ObjTypeOK, OnLeave, Set, Crash

(* What one round of nn_sock_recv does to the messages and the descriptor: *)
(* nothing, or nn_sock_onleave after a message was taken or none was       *)
(* there.                                                                  *)
LEMMA RecvTryEffect ==
    ASSUME HoldInv, NEW t \in Threads, NEW o \in Objs, o = ref[t], RecvTry(t)
    PROVE  \/ UNCHANGED <<msgs, flagIn, rcvfd, crashed>>
           \/ /\ ostate[o] = "ACTIVE"
              /\ \E n \in 0 .. MaxMsgs, f \in BOOLEAN :
                    /\ n = msgs[o] - 1 \/ (n = 0 /\ msgs[o] = 0)
                    /\ f = (flagIn[o] \/ (pc[t] = "recheck" /\ rcvfd[o]))
                    /\ OnLeave(o, n, f)
<1>1. PICK f \in BOOLEAN : f = (flagIn[o] \/ (pc[t] = "recheck" /\ rcvfd[o]))
  OBVIOUS
<1>2. 0 \in 0 .. MaxMsgs /\ msgs[o] \in 0 .. MaxMsgs
  BY SockLifeAssumption DEF SockLifeAssumption, HoldInv, ObjTypeOK
<1>3. CASE ostate[o] # "ACTIVE"
  BY <1>3 DEF RecvTry
<1>4. CASE ostate[o] = "ACTIVE" /\ msgs[o] > 0
  <2>1. PICK n \in 0 .. MaxMsgs : n = msgs[o] - 1
    BY <1>2, <1>4, SockLifeAssumption DEF SockLifeAssumption
  <2>2. ~(msgs[o] = 0)
    BY <1>2, <1>4
  <2>3. OnLeave(o, msgs[o] - 1, flagIn[o] \/ (pc[t] = "recheck" /\ rcvfd[o]))
    BY <1>4, <2>2, Zenon DEF RecvTry, OnLeave, Set, Crash
  <2>4. OnLeave(o, n, f)
    BY <1>1, <2>1, <2>3, Zenon DEF OnLeave, Set, Crash
  <2> QED
    BY <1>1, <1>4, <2>1, <2>4, Zenon
<1>5. CASE ostate[o] = "ACTIVE" /\ msgs[o] = 0
  <2>1. ~(msgs[o] > 0)
    BY <1>5
  <2>2. OnLeave(o, 0, flagIn[o] \/ (pc[t] = "recheck" /\ rcvfd[o]))
    BY <1>5, <2>1, Zenon DEF RecvTry, OnLeave, Set, Crash
  <2>3. OnLeave(o, 0, f)
    BY <1>1, <2>2, Zenon DEF OnLeave, Set, Crash
  <2> QED
    BY <1>1, <1>2, <1>5, <2>3, Zenon
<1> QED
  BY <1>2, <1>3, <1>4, <1>5

(* A step inside a call that holds its socket keeps it held. *)
LEMMA CallHold ==
    ASSUME HoldInv, NEW t \in Threads, CallStep(t)
    PROVE  HoldInv'
<1>1. pc[t] \in InCall /\ ref[t] \in Objs
  BY DEF CallStep, RecvTry, RecvWake, RecvTimeout, AddEp, RmEp, Option, HoldInv,
         RefsAreOpen, InCall, HeldCalls
<1>2. /\ UNCHANGED <<flags, ostate, holds, termsem, relesem, ref, slot, terming>>
      /\ \E z \in InCall : pc' = [pc EXCEPT ![t] = z]
  BY DEF CallStep, RecvTry, RecvWake, RecvTimeout, AddEp, RmEp, Option, Set,
         objVars, InCall
<1>3. /\ eps' \in [Objs -> Nat] /\ sdeps' \in [Objs -> Nat]
  BY <1>1 DEF CallStep, RecvTry, RecvWake, RecvTimeout, AddEp, RmEp, Option, Set,
         objVars, HoldInv, ObjTypeOK
<1>4. /\ msgs' \in [Objs -> 0 .. MaxMsgs]
      /\ flagIn' \in [Objs -> BOOLEAN]
      /\ rcvfd' \in [Objs -> BOOLEAN]
      /\ crashed' \in BOOLEAN
  <2>1. CASE RecvTry(t)
    <3>1. \/ UNCHANGED <<msgs, flagIn, rcvfd, crashed>>
          \/ \E o \in Objs, n \in 0 .. MaxMsgs, f \in BOOLEAN : OnLeave(o, n, f)
      BY <1>1, <2>1, RecvTryEffect
    <3> QED
      BY <3>1, OnLeaveType DEF HoldInv, ObjTypeOK
  <2>2. CASE ~RecvTry(t)
    BY <2>2 DEF CallStep, RecvWake, RecvTimeout, AddEp, RmEp, Option, Crash,
                objVars, HoldInv, ObjTypeOK
  <2> QED
    BY <2>1, <2>2
<1>5. ObjTypeOK'
  BY <1>2, <1>3, <1>4 DEF HoldInv, ObjTypeOK
<1> QED
  BY <1>1, <1>2, <1>5, HoldInvKept
     DEF HoldInv, ObjTypeOK, InCall, InClose, HeldCalls, StopsOrStays

(* The steps of the worker threads. *)
WorkerStep(o) == Arrive(o) \/ EpStopped(o) \/ ProtocolStopped(o)

(* Worker threads post termsem once, on the way to FINI. *)
LEMMA WorkerHold ==
    ASSUME HoldInv, NEW o \in Objs, WorkerStep(o)
    PROVE  HoldInv'
<1>1. /\ UNCHANGED <<flags, holds, eps, relesem, pc, ref, slot, terming>>
      /\ \/ UNCHANGED <<ostate, termsem>>
         \/ /\ ostate[o] \in {"STOPPING_EPS", "STOPPING"}
            /\ \/ ostate' = [ostate EXCEPT ![o] = "STOPPING"] /\ termsem' = termsem
               \/ /\ ostate' = [ostate EXCEPT ![o] = "FINI"]
                  /\ termsem' = [termsem EXCEPT ![o] = termsem[o] + 1]
  BY DEF WorkerStep, Arrive, EpStopped, ProtocolStopped, StopProtocol, Set,
         threadVars
<1>2. sdeps' \in [Objs -> Nat]
  BY DEF WorkerStep, Arrive, EpStopped, ProtocolStopped, Set, HoldInv, ObjTypeOK
<1>3. /\ msgs' \in [Objs -> 0 .. MaxMsgs]
      /\ flagIn' \in [Objs -> BOOLEAN]
      /\ rcvfd' \in [Objs -> BOOLEAN]
      /\ crashed' \in BOOLEAN
  <2>1. CASE Arrive(o)
    <3>1. PICK n \in 0 .. MaxMsgs : n = msgs[o] + 1
      BY <2>1, SockLifeAssumption DEF SockLifeAssumption, Arrive, HoldInv, ObjTypeOK
    <3>2. PICK f \in BOOLEAN : f = flagIn[o]
      BY DEF HoldInv, ObjTypeOK
    <3>3. OnLeave(o, n, f)
      BY <2>1, <3>1, <3>2 DEF Arrive, OnLeave, Set, Crash
    <3> QED
      BY <3>3, OnLeaveType DEF HoldInv
  <2>2. CASE ~Arrive(o)
    BY <2>2 DEF WorkerStep, EpStopped, ProtocolStopped, Crash, HoldInv, ObjTypeOK
  <2> QED
    BY <2>1, <2>2
<1>4. ObjTypeOK'
  <2>1. ostate' \in [Objs -> ObjStates] /\ termsem' \in [Objs -> Nat]
    BY <1>1 DEF HoldInv, ObjTypeOK, ObjStates
  <2> QED
    BY <1>1, <1>2, <1>3, <2>1 DEF HoldInv, ObjTypeOK
<1>5. \A x \in Objs : StopsOrStays(x)
  BY <1>1 DEF StopsOrStays, HoldInv, ObjTypeOK
<1> QED
  BY <1>1, <1>4, <1>5, HoldInvKept

(* Every step preserves HoldInv. *)
LEMMA HoldInvStep == HoldInv /\ [Next]_vars => HoldInv'
<1> SUFFICES ASSUME HoldInv, [Next]_vars PROVE HoldInv'
  OBVIOUS
<1>1. ASSUME NEW t \in Threads, NEW o \in Objs, NnSocket(t, o) PROVE HoldInv'
  BY <1>1, NnSocketHold
<1>2. ASSUME NEW t \in Threads, NEW s \in Slots, NEW call \in HeldCalls,
             Hold(t, s, call)
      PROVE  HoldInv'
  BY <1>2, HoldHold
<1>3. ASSUME NEW t \in Threads, NEW s \in Slots, NnClose(t, s) PROVE HoldInv'
  BY <1>3, CloseSlotHold DEF NnClose
<1>4. ASSUME NEW t \in Threads, RecvTimeout(t) \/ Continue(t) PROVE HoldInv'
  <2>1. CASE TermSlot(t)
    <3>1. PICK s \in Slots : s = slot[t]
      BY <2>1, SockLifeAssumption
         DEF TermSlot, HoldInv, ObjTypeOK, Slots, SockLifeAssumption
    <3>2. CASE CloseSlot(t, slot[t])
      <4>1. CloseSlot(t, s)
        BY <3>1, <3>2 DEF CloseSlot, CanHold, Set
      <4> QED
        BY <2>1, <4>1, CloseSlotHold DEF TermSlot
    <3>3. CASE ~CloseSlot(t, slot[t])
      BY <2>1, <3>3, TermHold DEF TermSlot, SkipSlot
    <3> QED
      BY <3>2, <3>3
  <2>2. CASE ~TermSlot(t)
    BY <1>4, <2>2, ReleHold, WaitTermHold, WaitReleHold, CloseEndHold, TermHold,
       CallHold DEF Continue, CallStep
  <2> QED
    BY <2>1, <2>2
<1>5. ASSUME NEW t \in Terminators, NnTerm(t) \/ NnInit(t) PROVE HoldInv'
  BY <1>5, TermHold, SockLifeAssumption DEF SockLifeAssumption
<1>6. ASSUME NEW o \in Objs, Arrive(o) \/ EpStopped(o) \/ ProtocolStopped(o)
      PROVE  HoldInv'
  BY <1>6, WorkerHold DEF WorkerStep
<1>7. CASE UNCHANGED vars
  <2>1. ObjTypeOK'
    BY <1>7 DEF HoldInv, ObjTypeOK, vars, objVars, threadVars
  <2> QED
    BY <1>7, <2>1, HoldInvKept DEF vars, objVars, threadVars, StopsOrStays
<1> QED
  BY <1>1, <1>2, <1>3, <1>4, <1>5, <1>6, <1>7 DEF Next

-----------------------------------------------------------------------------
(* The descriptor. *)

(* The descriptor is readable when there is a message or the end. *)
DescriptorInv ==
    \A o \in Objs :
        /\ flagIn[o] <=> msgs[o] > 0
        /\ flagIn[o] => rcvfd[o]
        /\ ostate[o] \in Closing => rcvfd[o]

(* Unraced calls work on an ACTIVE socket. Without nn_bind and nn_connect  *)
(* racing with nn_close, a closing socket gets no new endpoint.            *)
UnracedOnActive ==
    \A t \in Threads : pc[t] \in Unraced => ostate[ref[t]] = "ACTIVE"

(* A closing socket has no endpoint, then none that is stopping either. *)
EndpointsGone ==
    \A o \in Objs :
        /\ ostate[o] \in Closing => eps[o] = 0
        /\ ostate[o] \in {"STOPPING", "FINI"} => sdeps[o] = 0

CloseInv ==
    /\ DescriptorInv
    /\ UnracedOnActive
    /\ "addep" \notin Races => EndpointsGone
    /\ Races = {} => NoCrash

(* Initially there is no message, no endpoint and no failure. *)
LEMMA CloseInvInit == Init => CloseInv
<1> SUFFICES ASSUME Init PROVE CloseInv
  OBVIOUS
<1>1. DescriptorInv
  BY DEF Init, DescriptorInv, Closing
<1> QED
  BY <1>1 DEF Init, CloseInv, UnracedOnActive, EndpointsGone, NoCrash, Unraced,
              Closing

(* nn_sock_onleave keeps descriptor and messages in step, and              *)
(* nn_efd_unsignal finds the descriptor readable, whenever the flag it     *)
(* starts from is set for a good reason.                                   *)
LEMMA OnLeaveDescriptor ==
    ASSUME HoldInv, DescriptorInv, NEW o \in Objs, NEW n \in 0 .. MaxMsgs,
           NEW f \in BOOLEAN, ostate[o] = "ACTIVE", UNCHANGED ostate,
           flagIn[o] => f, f => rcvfd[o], OnLeave(o, n, f)
    PROVE  DescriptorInv' /\ crashed' = crashed
<1>1. /\ msgs' = [msgs EXCEPT ![o] = n]
      /\ flagIn' = [flagIn EXCEPT ![o] = n > 0]
      /\ rcvfd' = [rcvfd EXCEPT ![o] = IF (n > 0) = f THEN rcvfd[o] ELSE n > 0]
      /\ crashed' = (crashed \/ (f /\ n = 0 /\ ~rcvfd[o]))
  BY DEF OnLeave, Set, Crash
<1>2. crashed' = crashed
  BY <1>1 DEF HoldInv, ObjTypeOK
<1>3. ASSUME NEW x \in Objs
      PROVE  /\ flagIn'[x] <=> msgs'[x] > 0
             /\ flagIn'[x] => rcvfd'[x]
             /\ ostate'[x] \in Closing => rcvfd'[x]
  <2>1. CASE x = o
    <3>1. msgs'[x] = n /\ flagIn'[x] = (n > 0) /\ ostate'[x] = "ACTIVE"
      BY <1>1, <2>1 DEF HoldInv, ObjTypeOK
    <3>2. rcvfd'[x] = IF (n > 0) = f THEN rcvfd[o] ELSE n > 0
      BY <1>1, <2>1 DEF HoldInv, ObjTypeOK
    <3>3. n > 0 => rcvfd'[x]
      BY <3>2
    <3> QED
      BY <3>1, <3>3 DEF Closing
  <2>2. CASE x # o
    <3>1. msgs'[x] = msgs[x] /\ flagIn'[x] = flagIn[x] /\ rcvfd'[x] = rcvfd[x]
      BY <1>1, <2>2 DEF HoldInv, ObjTypeOK
    <3> QED
      BY <3>1 DEF DescriptorInv
  <2> QED
    BY <2>1, <2>2
<1> QED
  BY <1>2, <1>3 DEF DescriptorInv

(* A new socket is ACTIVE and has nothing to be closed yet. *)
LEMMA NnSocketClose ==
    ASSUME HoldInv, CloseInv, NEW t \in Threads, NEW o \in Objs, NnSocket(t, o)
    PROVE  CloseInv'
<1>1. /\ ostate' = [ostate EXCEPT ![o] = "ACTIVE"]
      /\ UNCHANGED <<eps, sdeps, msgs, flagIn, rcvfd, pc, ref, crashed>>
  BY DEF NnSocket, Set, threadVars
<1>2. DescriptorInv'
  BY <1>1 DEF HoldInv, ObjTypeOK, CloseInv, DescriptorInv, Closing
<1>3. UnracedOnActive'
  BY <1>1 DEF HoldInv, ObjTypeOK, CloseInv, UnracedOnActive, RefsAreOpen, Unraced,
              InCall, HeldCalls
<1>4. "addep" \notin Races => EndpointsGone'
  BY <1>1 DEF HoldInv, ObjTypeOK, CloseInv, EndpointsGone, Closing
<1> QED
  BY <1>1, <1>2, <1>3, <1>4 DEF CloseInv, NoCrash

(* A call starts on an ACTIVE socket only. *)
LEMMA HoldClose ==
    ASSUME HoldInv, CloseInv, NEW t \in Threads, NEW s \in Slots,
           NEW call \in HeldCalls, Hold(t, s, call)
    PROVE  CloseInv'
<1>1. PICK o \in Objs : ostate[o] = "ACTIVE" /\ ref' = [ref EXCEPT ![t] = o]
  BY DEF Hold, CanHold, Set
<1>2. /\ pc' = [pc EXCEPT ![t] = call]
      /\ UNCHANGED <<ostate, eps, sdeps, msgs, flagIn, rcvfd, crashed>>
  BY DEF Hold, Set
<1>3. UnracedOnActive'
  BY <1>1, <1>2 DEF HoldInv, ObjTypeOK, CloseInv, UnracedOnActive
<1> QED
  BY <1>2, <1>3 DEF CloseInv, DescriptorInv, EndpointsGone, NoCrash

(* The end of a call changes neither descriptor nor endpoints. *)
LEMMA ReleClose ==
    ASSUME HoldInv, CloseInv, NEW t \in Threads, Rele(t)
    PROVE  CloseInv'
<1>1. /\ pc' = [pc EXCEPT ![t] = "idle"]
      /\ ref' = [ref EXCEPT ![t] = NoSock]
      /\ UNCHANGED <<ostate, eps, sdeps, msgs, flagIn, rcvfd, crashed>>
  BY DEF Rele, Set
<1>2. UnracedOnActive'
  BY <1>1 DEF HoldInv, ObjTypeOK, CloseInv, UnracedOnActive, Unraced
<1> QED
  BY <1>1, <1>2 DEF CloseInv, DescriptorInv, EndpointsGone, NoCrash

(* nn_close makes the descriptor readable, moves the endpoints to sdeps    *)
(* and finds no unraced call on the socket.                                *)
LEMMA CloseSlotClose ==
    ASSUME HoldInv, CloseInv, NEW t \in Threads, NEW s \in Slots,
           pc[t] \in {"idle", "term"}, CloseSlot(t, s)
    PROVE  CloseInv'
<1>1. PICK o \in Objs :
        /\ ostate[o] = "ACTIVE"
        /\ NoneUnraced(o)
        /\ SockStop(o)
        /\ ref' = [ref EXCEPT ![t] = o]
  BY DEF CloseSlot, CanHold, Set
<1>2. /\ pc' = [pc EXCEPT ![t] = "termsem"]
      /\ UNCHANGED <<msgs, flagIn, crashed>>
  BY DEF CloseSlot, Set
<1>3. /\ rcvfd' = [rcvfd EXCEPT ![o] = TRUE]
      /\ eps' = [eps EXCEPT ![o] = 0]
      /\ sdeps' = [sdeps EXCEPT ![o] = sdeps[o] + eps[o]]
  BY <1>1 DEF SockStop, Set
<1>4. /\ \E z \in Closing : ostate' = [ostate EXCEPT ![o] = z]
      /\ ostate'[o] \in {"STOPPING", "FINI"} => sdeps[o] + eps[o] = 0
  BY <1>1 DEF SockStop, StopProtocol, Set, Closing, HoldInv, ObjTypeOK
<1>5. DescriptorInv'
  BY <1>2, <1>3, <1>4 DEF HoldInv, ObjTypeOK, CloseInv, DescriptorInv
<1>6. UnracedOnActive'
  <2> SUFFICES ASSUME NEW u \in Threads, pc'[u] \in Unraced
               PROVE  ostate'[ref'[u]] = "ACTIVE"
    BY DEF UnracedOnActive
  <2>1. u # t /\ pc'[u] = pc[u] /\ ref'[u] = ref[u]
    BY <1>1, <1>2 DEF HoldInv, ObjTypeOK, Unraced
  <2>2. ref[u] \in Objs /\ ref[u] # o /\ ostate[ref[u]] = "ACTIVE"
    BY <1>1, <2>1 DEF HoldInv, RefsAreOpen, CloseInv, UnracedOnActive, Unraced,
                      NoneUnraced, InCall, HeldCalls
  <2> QED
    BY <1>4, <2>1, <2>2 DEF HoldInv, ObjTypeOK
<1>7. "addep" \notin Races => EndpointsGone'
  BY <1>3, <1>4 DEF HoldInv, ObjTypeOK, CloseInv, EndpointsGone
<1> QED
  BY <1>2, <1>5, <1>6, <1>7 DEF CloseInv, NoCrash

(* Passing termsem changes neither descriptor nor endpoints. *)
LEMMA WaitTermClose ==
    ASSUME HoldInv, CloseInv, NEW t \in Threads, WaitTerm(t)
    PROVE  CloseInv'
<1>1. /\ pc' = [pc EXCEPT ![t] = "relesem"]
      /\ UNCHANGED <<ostate, eps, sdeps, msgs, flagIn, rcvfd, ref, crashed>>
  BY DEF WaitTerm, Set
<1>2. UnracedOnActive'
  BY <1>1 DEF HoldInv, ObjTypeOK, CloseInv, UnracedOnActive, Unraced
<1> QED
  BY <1>1, <1>2 DEF CloseInv, DescriptorInv, EndpointsGone, NoCrash

(* When the socket is taken apart its endpoints are gone. *)
LEMMA WaitReleClose ==
    ASSUME HoldInv, CloseInv, NEW t \in Threads, WaitRele(t)
    PROVE  CloseInv'
<1>1. /\ pc[t] = "relesem"
      /\ pc' = [pc EXCEPT ![t] = "closeend"]
      /\ crashed' = (crashed \/ eps[ref[t]] + sdeps[ref[t]] > 0)
      /\ UNCHANGED <<ostate, eps, sdeps, msgs, flagIn, rcvfd, ref>>
  BY DEF WaitRele, Set, Crash
<1>2. UnracedOnActive'
  BY <1>1 DEF HoldInv, ObjTypeOK, CloseInv, UnracedOnActive, Unraced
<1>3. Races = {} => NoCrash'
  <2> SUFFICES ASSUME Races = {} PROVE NoCrash'
    OBVIOUS
  <2>1. ostate[ref[t]] = "FINI" /\ ref[t] \in Objs
    BY <1>1 DEF HoldInv, RefsAreOpen, CloserHasWaited, InClose
  <2>2. eps[ref[t]] = 0 /\ sdeps[ref[t]] = 0
    BY <2>1 DEF CloseInv, EndpointsGone, Closing
  <2>3. ~(eps[ref[t]] + sdeps[ref[t]] > 0)
    BY <2>2
  <2> QED
    BY <1>1, <2>3 DEF CloseInv, NoCrash
<1> QED
  BY <1>1, <1>2, <1>3 DEF CloseInv, DescriptorInv, EndpointsGone

(* The freed socket has no message; the others are untouched. *)
LEMMA CloseEndClose ==
    ASSUME HoldInv, CloseInv, NEW t \in Threads, CloseEnd(t)
    PROVE  CloseInv'
<1> PICK o \in Objs : o = ref[t]
  BY DEF CloseEnd, HoldInv, RefsAreOpen, InClose
<1>1. /\ pc[t] = "closeend" /\ ref[t] = o
      /\ ostate' = [ostate EXCEPT ![o] = "freed"]
      /\ msgs' = [msgs EXCEPT ![o] = 0]
      /\ flagIn' = [flagIn EXCEPT ![o] = FALSE]
      /\ rcvfd' = [rcvfd EXCEPT ![o] = FALSE]
      /\ ref' = [ref EXCEPT ![t] = NoSock]
      /\ pc' = [pc EXCEPT ![t] = IF terming[t] THEN "term" ELSE "idle"]
      /\ UNCHANGED <<eps, sdeps, crashed>>
  BY DEF CloseEnd, Set
<1>2. ostate[o] = "FINI"
  BY <1>1 DEF HoldInv, CloserHasWaited
<1>3. DescriptorInv'
  BY <1>1 DEF HoldInv, ObjTypeOK, CloseInv, DescriptorInv, Closing
<1>4. UnracedOnActive'
  BY <1>1, <1>2 DEF HoldInv, ObjTypeOK, RefsAreOpen, CloseInv, UnracedOnActive,
                    Unraced, InCall, HeldCalls
<1>5. "addep" \notin Races => EndpointsGone'
  BY <1>1 DEF HoldInv, ObjTypeOK, CloseInv, EndpointsGone, Closing
<1> QED
  BY <1>1, <1>3, <1>4, <1>5 DEF CloseInv, NoCrash

(* nn_term and nn_init touch neither descriptors nor endpoints. *)
LEMMA TermClose ==
    ASSUME HoldInv, CloseInv, NEW t \in Threads,
           NnTerm(t) \/ TermEnd(t) \/ NnInit(t) \/ SkipSlot(t)
    PROVE  CloseInv'
<1>1. /\ UNCHANGED <<objVars, ref, crashed>>
      /\ pc' = pc \/ \E z \in {"idle", "term"} : pc' = [pc EXCEPT ![t] = z]
  BY DEF NnTerm, TermEnd, NnInit, SkipSlot, Set, threadVars
<1>2. UnracedOnActive'
  BY <1>1 DEF HoldInv, ObjTypeOK, objVars, CloseInv, UnracedOnActive, Unraced
<1> QED
  BY <1>1, <1>2 DEF CloseInv, DescriptorInv, EndpointsGone, NoCrash, objVars

(* A step inside a call: nn_recv keeps the descriptor in step, and without *)
(* races the others find their socket ACTIVE.                              *)
LEMMA CallClose ==
    ASSUME HoldInv, CloseInv, NEW t \in Threads, CallStep(t)
    PROVE  CloseInv'
<1> PICK o \in Objs : o = ref[t]
  BY DEF CallStep, RecvTry, RecvWake, RecvTimeout, AddEp, RmEp, Option, HoldInv,
         RefsAreOpen, InCall, HeldCalls
<1>1. /\ UNCHANGED <<ostate, ref>>
      /\ \E z \in {"wait", "recheck", "rele"} : pc' = [pc EXCEPT ![t] = z]
  BY DEF CallStep, RecvTry, RecvWake, RecvTimeout, AddEp, RmEp, Option, Set,
         objVars
<1>2. UnracedOnActive'
  BY <1>1 DEF HoldInv, ObjTypeOK, CloseInv, UnracedOnActive, Unraced
<1>3. CASE RecvTry(t)
  <2>1. DescriptorInv' /\ crashed' = crashed
    <3>1. CASE UNCHANGED <<msgs, flagIn, rcvfd, crashed>>
      BY <1>1, <3>1 DEF CloseInv, DescriptorInv
    <3>2. CASE \E n \in 0 .. MaxMsgs, f \in BOOLEAN :
                  /\ ostate[o] = "ACTIVE"
                  /\ f = (flagIn[o] \/ (pc[t] = "recheck" /\ rcvfd[o]))
                  /\ OnLeave(o, n, f)
      <4>1. PICK n \in 0 .. MaxMsgs, f \in BOOLEAN :
                  /\ ostate[o] = "ACTIVE"
                  /\ f = (flagIn[o] \/ (pc[t] = "recheck" /\ rcvfd[o]))
                  /\ OnLeave(o, n, f)
        BY <3>2
      <4>2. (flagIn[o] => f) /\ (f => rcvfd[o])
        BY <4>1, Zenon DEF CloseInv, DescriptorInv
      <4> QED
        BY <1>1, <4>1, <4>2, OnLeaveDescriptor DEF CloseInv
    <3> QED
      BY <1>3, <3>1, <3>2, RecvTryEffect
  <2>2. UNCHANGED <<eps, sdeps>>
    BY <1>3 DEF RecvTry
  <2> QED
    BY <1>1, <1>2, <2>1, <2>2 DEF CloseInv, EndpointsGone, NoCrash
<1>4. CASE RecvWake(t) \/ RecvTimeout(t)
  <2>1. UNCHANGED <<objVars, crashed>>
    BY <1>4 DEF RecvWake, RecvTimeout
  <2> QED
    BY <1>2, <2>1 DEF CloseInv, DescriptorInv, EndpointsGone, NoCrash, objVars
<1>5. CASE AddEp(t)
  <2>1. /\ pc[t] = "addep" /\ UNCHANGED <<sdeps, msgs, flagIn, rcvfd, crashed>>
        /\ eps' = eps \/ eps' = [eps EXCEPT ![o] = eps[o] + 1]
    BY <1>5 DEF AddEp, Set
  <2>2. "addep" \notin Races => EndpointsGone'
    BY <1>1, <2>1 DEF CloseInv, UnracedOnActive, Unraced, EndpointsGone, Closing,
                      HoldInv, ObjTypeOK
  <2> QED
    BY <1>1, <1>2, <2>1, <2>2 DEF CloseInv, DescriptorInv, NoCrash
<1>6. CASE RmEp(t)
  <2>1. /\ UNCHANGED <<msgs, flagIn, rcvfd, crashed>>
        /\ eps' = [eps EXCEPT ![o] = eps[o] - (IF eps[o] > 0 THEN 1 ELSE 0)]
        /\ sdeps' = [sdeps EXCEPT ![o] = sdeps[o] + (IF eps[o] > 0 THEN 1 ELSE 0)]
    BY <1>6 DEF RmEp, Set
  <2>2. "addep" \notin Races => EndpointsGone'
    BY <1>1, <2>1 DEF CloseInv, EndpointsGone, Closing, HoldInv, ObjTypeOK
  <2> QED
    BY <1>1, <1>2, <2>1, <2>2 DEF CloseInv, DescriptorInv, NoCrash
<1>7. CASE Option(t)
  <2>1. pc[t] = "option" /\ UNCHANGED objVars
        /\ crashed' = (crashed \/ ostate[o] = "FINI")
    BY <1>7 DEF Option, Crash
  <2>2. Races = {} => ostate[o] # "FINI"
    BY <2>1 DEF CloseInv, UnracedOnActive, Unraced
  <2> QED
    BY <1>2, <2>1, <2>2 DEF CloseInv, DescriptorInv, EndpointsGone, NoCrash, objVars
<1> QED
  BY <1>3, <1>4, <1>5, <1>6, <1>7 DEF CallStep

(* Arriving messages and stopping endpoints: the last endpoint to stop is  *)
(* the last one there is.                                                  *)
LEMMA WorkerClose ==
    ASSUME HoldInv, CloseInv, NEW o \in Objs, WorkerStep(o)
    PROVE  CloseInv'
<1>1. CASE Arrive(o)
  <2>1. /\ ostate[o] = "ACTIVE" /\ msgs[o] < MaxMsgs
        /\ OnLeave(o, msgs[o] + 1, flagIn[o])
        /\ UNCHANGED <<ostate, eps, sdeps, pc, ref>>
    BY <1>1 DEF Arrive, threadVars
  <2>2. PICK n \in 0 .. MaxMsgs : n = msgs[o] + 1
    BY <2>1, SockLifeAssumption DEF SockLifeAssumption, HoldInv, ObjTypeOK
  <2>3. PICK f \in BOOLEAN : f = flagIn[o]
    BY DEF HoldInv, ObjTypeOK
  <2>4. OnLeave(o, n, f)
    BY <2>1, <2>2, <2>3 DEF OnLeave, Set, Crash
  <2>5. f => rcvfd[o]
    BY <2>3 DEF CloseInv, DescriptorInv
  <2>6. DescriptorInv' /\ crashed' = crashed
    BY <2>1, <2>3, <2>4, <2>5, OnLeaveDescriptor DEF CloseInv
  <2> QED
    BY <2>1, <2>6 DEF CloseInv, UnracedOnActive, EndpointsGone, NoCrash
<1>2. CASE EpStopped(o) \/ ProtocolStopped(o)
  <2>1. /\ UNCHANGED <<eps, msgs, flagIn, rcvfd, pc, ref>>
        /\ \/ ostate' = ostate
           \/ /\ ostate[o] \in {"STOPPING_EPS", "STOPPING"}
              /\ \E z \in {"STOPPING", "FINI"} : ostate' = [ostate EXCEPT ![o] = z]
    BY <1>2 DEF EpStopped, ProtocolStopped, StopProtocol, Set, threadVars
  <2>2. DescriptorInv'
    BY <2>1 DEF HoldInv, ObjTypeOK, CloseInv, DescriptorInv, Closing
  <2>3. UnracedOnActive'
    BY <2>1 DEF HoldInv, ObjTypeOK, RefsAreOpen, CloseInv, UnracedOnActive,
                Unraced, InCall, HeldCalls
  <2>4. CASE ProtocolStopped(o)
    <3>1. /\ ostate[o] = "STOPPING" /\ UNCHANGED <<sdeps, crashed>>
          /\ ostate' = [ostate EXCEPT ![o] = "FINI"]
      BY <2>4 DEF ProtocolStopped, Set
    <3>2. "addep" \notin Races => EndpointsGone'
      BY <2>1, <3>1 DEF HoldInv, ObjTypeOK, CloseInv, EndpointsGone, Closing
    <3> QED
      BY <2>2, <2>3, <3>1, <3>2 DEF CloseInv, NoCrash
  <2>5. CASE EpStopped(o)
    <3>1. /\ sdeps[o] > 0
          /\ sdeps' = [sdeps EXCEPT ![o] = sdeps[o] - 1]
      BY <2>5 DEF EpStopped, Set
    <3>2. CASE ostate[o] = "STOPPING_EPS" /\ sdeps[o] = 1
      <4>1. crashed' = (crashed \/ eps[o] > 0)
        BY <2>5, <3>2 DEF EpStopped, Crash
      <4>2. "addep" \notin Races => EndpointsGone'
        BY <2>1, <3>1, <3>2 DEF HoldInv, ObjTypeOK, CloseInv, EndpointsGone, Closing
      <4>3. "addep" \notin Races => ~(eps[o] > 0)
        BY <3>2 DEF CloseInv, EndpointsGone, Closing
      <4> QED
        BY <2>2, <2>3, <4>1, <4>2, <4>3 DEF CloseInv, NoCrash
    <3>3. CASE ~(ostate[o] = "STOPPING_EPS" /\ sdeps[o] = 1)
      <4>1. /\ crashed' = (crashed \/ ostate[o] \in {"STOPPING", "FINI"})
            /\ ostate' = ostate
        BY <2>5, <3>3 DEF EpStopped, Crash
      <4>2. "addep" \notin Races => EndpointsGone'
        BY <2>1, <3>1, <4>1 DEF HoldInv, ObjTypeOK, CloseInv, EndpointsGone, Closing
      <4>3. "addep" \notin Races => ostate[o] \notin {"STOPPING", "FINI"}
        BY <3>1 DEF CloseInv, EndpointsGone
      <4> QED
        BY <2>2, <2>3, <4>1, <4>2, <4>3 DEF CloseInv, NoCrash
    <3> QED
      BY <3>2, <3>3
  <2> QED
    BY <1>2, <2>4, <2>5
<1> QED
  BY <1>1, <1>2 DEF WorkerStep

-----------------------------------------------------------------------------
(* The table. *)

TableTypeOK ==
    /\ inited \in BOOLEAN
    /\ socks \in [Slots -> Objs \cup {NoSock}]
    /\ unused \in [Slots -> Slots]
    /\ nsocks \in 0 .. MaxSockets

Taken == {s \in Slots : socks[s] # NoSock}

(* The entries 0 .. n - 1 of a stack are the empty slots, each once. *)
IsStack(stack, n) ==
    /\ stack \in [Slots -> Slots]
    /\ \A i \in 0 .. n - 1 : socks[stack[i]] = NoSock
    /\ \A s \in Slots : socks[s] = NoSock => \E i \in 0 .. n - 1 : stack[i] = s
    /\ \A i, j \in 0 .. n - 1 : stack[i] = stack[j] => i = j

(* The sockets in the table are the open ones, each in one slot. *)
SlotsAreOpen ==
    /\ \A s \in Slots : socks[s] # NoSock => ostate[socks[s]] \in Open
    /\ \A s, r \in Slots : socks[s] # NoSock /\ socks[s] = socks[r] => s = r
    /\ \A o \in Objs : ostate[o] \in Open => \E s \in Slots : socks[s] = o

(* The slot nn_close is working on is still its own. *)
CloserHasSlot ==
    \A t \in Threads :
        pc[t] \in InClose => slot[t] \in Slots /\ socks[slot[t]] = ref[t]

TableInv ==
    /\ TableTypeOK
    /\ inited <=> nsocks > 0
    /\ Cardinality(Taken) = nsocks
    /\ inited => IsStack(unused, MaxSockets - nsocks)
    /\ SlotsAreOpen
    /\ CloserHasSlot

(* The slots in use are finitely many. *)
LEMMA TakenFinite == IsFiniteSet(Taken) /\ Cardinality(Taken) \in Nat
<1>1. IsFiniteSet(Slots)
  BY FS_Interval, SockLifeAssumption DEF Slots, SockLifeAssumption
<1>2. Taken \in SUBSET Slots
  BY DEF Taken
<1> QED
  BY <1>1, <1>2, FS_Subset, FS_CardinalityType

(* The empty table is consistent. *)
LEMMA TableInvInit == Init => TableInv
<1> SUFFICES ASSUME Init PROVE TableInv
  OBVIOUS
<1>1. Taken = {}
  BY DEF Init, Taken
<1>2. Cardinality(Taken) = 0
  BY <1>1, FS_EmptySet
<1>3. TableTypeOK
  <2>1. FreshUnused \in [Slots -> Slots] /\ 0 \in 0 .. MaxSockets
    BY SockLifeAssumption DEF FreshUnused, Slots, SockLifeAssumption
  <2> QED
    BY <2>1 DEF Init, TableTypeOK
<1>4. SlotsAreOpen /\ CloserHasSlot
  BY DEF Init, SlotsAreOpen, CloserHasSlot, Open, Closing, InClose
<1> QED
  BY <1>2, <1>3, <1>4 DEF Init, TableInv

(* While the library is not initialised the table is empty, and the stack  *)
(* nn_global_init makes fits it.                                           *)
LEMMA FreshIsStack ==
    ASSUME TableInv, ~inited
    PROVE  IsStack(FreshUnused, MaxSockets - nsocks)
<1>1. nsocks = 0 /\ Taken = {}
  BY TakenFinite, FS_EmptySet DEF TableInv, TableTypeOK
<1>2. \A s \in Slots : socks[s] = NoSock
  BY <1>1 DEF Taken
<1>3. /\ FreshUnused \in [Slots -> Slots]
      /\ \A i \in Slots : FreshUnused[i] = MaxSockets - i - 1
  BY SockLifeAssumption DEF FreshUnused, Slots, SockLifeAssumption
<1>4. MaxSockets \in Nat /\ Slots = 0 .. MaxSockets - 1
      /\ MaxSockets - nsocks = MaxSockets
  BY <1>1, SockLifeAssumption DEF Slots, SockLifeAssumption
<1>5. \A i, j \in 0 .. MaxSockets - 1 :
         FreshUnused[i] = FreshUnused[j] => i = j
  BY <1>3, <1>4
<1>6. \A s \in Slots : \E i \in 0 .. MaxSockets - 1 : FreshUnused[i] = s
  <2> SUFFICES ASSUME NEW s \in Slots
               PROVE  \E i \in 0 .. MaxSockets - 1 : FreshUnused[i] = s
    OBVIOUS
  <2>1. /\ MaxSockets - s - 1 \in 0 .. MaxSockets - 1
        /\ MaxSockets - (MaxSockets - s - 1) - 1 = s
    BY <1>4
  <2> QED
    BY <1>3, <1>4, <2>1
<1> QED
  BY <1>2, <1>3, <1>4, <1>5, <1>6 DEF IsStack

(* nn_socket takes the top of the stack, which is an empty slot. *)
LEMMA NnSocketTable ==
    ASSUME HoldInv, TableInv, NEW t \in Threads, NEW o \in Objs, NnSocket(t, o)
    PROVE  TableInv'
<1>1. /\ ostate[o] = "none" /\ nsocks < MaxSockets
      /\ ostate' = [ostate EXCEPT ![o] = "ACTIVE"]
      /\ nsocks' = nsocks + 1
      /\ inited' = TRUE
      /\ UNCHANGED <<pc, ref, slot>>
  BY DEF NnSocket, Set, threadVars
<1>2. PICK stack \in [Slots -> Slots] :
        /\ IsStack(stack, MaxSockets - nsocks)
        /\ unused' = stack
        /\ socks' = [socks EXCEPT ![stack[MaxSockets - nsocks - 1]] = o]
  <2>1. CASE inited
    BY <2>1 DEF NnSocket, Set, TableInv, TableTypeOK
  <2>2. CASE ~inited
    BY <2>2, FreshIsStack DEF NnSocket, Set, TableInv, TableTypeOK, IsStack
  <2> QED
    BY <2>1, <2>2
<1>3. PICK n \in Nat : n = nsocks
  BY DEF TableInv, TableTypeOK
<1>4. PICK k \in Slots : k = MaxSockets - n - 1
  BY <1>1, <1>3, SockLifeAssumption DEF Slots, SockLifeAssumption
<1>5. PICK a \in Slots : a = stack[k]
  OBVIOUS
<1>6. /\ MaxSockets \in Nat /\ n < MaxSockets /\ k \in Nat
      /\ 0 .. MaxSockets - nsocks - 1 = 0 .. k
      /\ 0 .. MaxSockets - nsocks' - 1 = 0 .. k - 1
  BY <1>1, <1>3, <1>4, SockLifeAssumption DEF Slots, SockLifeAssumption
<1> DEFINE free == 0 .. k
           left == 0 .. k - 1
<1>s. /\ \A i \in free : socks[stack[i]] = NoSock
      /\ \A s \in Slots : socks[s] = NoSock => \E i \in free : stack[i] = s
      /\ \A i, j \in free : stack[i] = stack[j] => i = j
  BY <1>2, <1>6, Zenon DEF IsStack
<1>i. k \in free /\ left = free \ {k} /\ free \subseteq Slots
  <2>1. k \in Int /\ 0 <= k /\ k <= MaxSockets - 1
    BY <1>6 DEF Slots
  <2>2. k \in free
    BY <2>1
  <2>3. \A i : i \in left <=> i \in free \ {k}
    BY <2>1
  <2>4. free \subseteq Slots
    BY <1>6, <2>1 DEF Slots
  <2> QED
    BY <2>2, <2>3, <2>4
<1> HIDE DEF free, left
<1>7. socks[a] = NoSock /\ NoSock \notin Objs
  BY <1>5, <1>s, <1>i, SockLifeAssumption DEF SockLifeAssumption
<1>8. socks' = [socks EXCEPT ![a] = o]
  BY <1>2, <1>3, <1>4, <1>5
<1>9. TableTypeOK'
  BY <1>1, <1>2, <1>3, <1>6, <1>8 DEF TableInv, TableTypeOK
<1>10. Cardinality(Taken)' = nsocks'
  <2>1. Taken' = Taken \cup {a} /\ a \notin Taken
    BY <1>7, <1>8 DEF Taken, TableInv, TableTypeOK
  <2> QED
    BY <1>1, <2>1, TakenFinite, FS_AddElement DEF TableInv
<1>11. IsStack(unused, MaxSockets - nsocks)'
  <2>1. /\ \A i \in left : socks'[stack[i]] = NoSock
        /\ \A s \in Slots : socks'[s] = NoSock => \E i \in left : stack[i] = s
        /\ \A i, j \in left : stack[i] = stack[j] => i = j
    BY <1>5, <1>s, <1>i, <1>7, <1>8 DEF TableInv, TableTypeOK
  <2> QED
    BY <1>2, <1>6, <2>1 DEF IsStack, left
<1>12. SlotsAreOpen'
  BY <1>1, <1>7, <1>8
     DEF HoldInv, ObjTypeOK, TableInv, TableTypeOK, SlotsAreOpen, Open, Closing
<1>13. CloserHasSlot'
  BY <1>1, <1>7, <1>8
     DEF HoldInv, RefsAreOpen, TableInv, TableTypeOK, CloserHasSlot
<1> QED
  BY <1>1, <1>3, <1>9, <1>10, <1>11, <1>12, <1>13 DEF TableInv

(* The end of nn_close pushes the slot it empties. *)
LEMMA CloseEndTable ==
    ASSUME HoldInv, TableInv, NEW t \in Threads, CloseEnd(t)
    PROVE  TableInv'
<1> PICK o \in Objs : o = ref[t]
  BY DEF CloseEnd, HoldInv, RefsAreOpen, InClose
<1> PICK a \in Slots : a = slot[t]
  BY DEF CloseEnd, TableInv, CloserHasSlot, InClose
<1>1. /\ pc[t] = "closeend"
      /\ ostate' = [ostate EXCEPT ![o] = "freed"]
      /\ ref' = [ref EXCEPT ![t] = NoSock]
      /\ pc' = [pc EXCEPT ![t] = IF terming[t] THEN "term" ELSE "idle"]
      /\ slot' = [slot EXCEPT ![t] = IF terming[t] THEN slot[t] ELSE 0]
      /\ socks' = [socks EXCEPT ![a] = NoSock]
      /\ nsocks' = nsocks - 1
      /\ inited' = (nsocks > 1)
  BY DEF CloseEnd, Set
<1>2. socks[a] = o /\ o # NoSock
  BY <1>1, SockLifeAssumption
     DEF TableInv, CloserHasSlot, InClose, SockLifeAssumption
<1>3. Taken' = Taken \ {a} /\ a \in Taken
  BY <1>1, <1>2 DEF Taken, TableInv, TableTypeOK
<1>4. nsocks \in Nat /\ nsocks > 0 /\ nsocks <= MaxSockets /\ MaxSockets \in Nat
  <2>1. Cardinality(Taken) # 0
    BY <1>3, TakenFinite, FS_EmptySet
  <2> QED
    BY <2>1, SockLifeAssumption DEF TableInv, TableTypeOK, SockLifeAssumption
<1>5. Cardinality(Taken)' = nsocks'
  BY <1>1, <1>3, TakenFinite, FS_RemoveElement DEF TableInv
<1>6. PICK k \in Slots : k = MaxSockets - nsocks
  BY <1>4, SockLifeAssumption DEF Slots, SockLifeAssumption
<1>7. unused' = [unused EXCEPT ![k] = a]
  BY <1>6 DEF CloseEnd, Set
<1>8. TableTypeOK'
  BY <1>1, <1>4, <1>7 DEF TableInv, TableTypeOK
<1>9. /\ k \in Nat
      /\ 0 .. MaxSockets - nsocks - 1 = 0 .. k - 1
      /\ 0 .. MaxSockets - nsocks' - 1 = 0 .. k
  BY <1>1, <1>4, <1>6
<1>10. IsStack(unused, MaxSockets - nsocks)'
  <2> DEFINE left == 0 .. k - 1
             free == 0 .. k
  <2>1. /\ \A i \in left : socks[unused[i]] = NoSock
        /\ \A s \in Slots : socks[s] = NoSock => \E i \in left : unused[i] = s
        /\ \A i, j \in left : unused[i] = unused[j] => i = j
    BY <1>4, <1>9 DEF TableInv, IsStack
  <2>i. free = left \cup {k} /\ left \subseteq Slots /\ k \notin left
    <3>1. k \in Int /\ 0 <= k /\ k <= MaxSockets - 1
      BY <1>4, <1>6 DEF Slots
    <3>2. \A i : i \in free <=> i \in left \cup {k}
      BY <3>1
    <3>3. left \subseteq Slots
      BY <1>4, <3>1 DEF Slots
    <3> QED
      BY <3>1, <3>2, <3>3
  <2> HIDE DEF free, left
  <2>2. \A i \in left : unused[i] \in Slots /\ unused[i] # a
                         /\ unused'[i] = unused[i]
    BY <1>2, <1>7, <2>1, <2>i DEF TableInv, TableTypeOK
  <2>3. unused'[k] = a
    BY <1>7 DEF TableInv, TableTypeOK
  <2>4. \A i \in free : socks'[unused'[i]] = NoSock
    BY <1>1, <2>1, <2>2, <2>3, <2>i DEF TableInv, TableTypeOK
  <2>5. ASSUME NEW s \in Slots, socks'[s] = NoSock
        PROVE  \E i \in free : unused'[i] = s
    <3>1. CASE s = a
      BY <2>3, <2>i, <3>1
    <3>2. CASE s # a
      <4>1. socks[s] = NoSock
        BY <1>1, <2>5, <3>2 DEF TableInv, TableTypeOK
      <4> QED
        BY <2>1, <2>2, <2>i, <4>1
    <3> QED
      BY <3>1, <3>2
  <2>6. \A i, j \in free : unused'[i] = unused'[j] => i = j
    BY <2>1, <2>2, <2>3, <2>i
  <2>7. unused' \in [Slots -> Slots]
    BY <1>8 DEF TableTypeOK
  <2> QED
    BY <1>9, <2>4, <2>5, <2>6, <2>7 DEF IsStack, free
<1>11. SlotsAreOpen'
  <2>1. \A s \in Slots : s # a => socks'[s] = socks[s] /\ socks[s] # o
    BY <1>1, <1>2 DEF TableInv, TableTypeOK, SlotsAreOpen
  <2>2. socks'[a] = NoSock
    BY <1>1 DEF TableInv, TableTypeOK
  <2>3. \A s \in Slots : socks'[s] # NoSock => ostate'[socks'[s]] \in Open
    BY <1>1, <2>1, <2>2 DEF HoldInv, ObjTypeOK, TableInv, TableTypeOK, SlotsAreOpen
  <2>4. \A s, r \in Slots : socks'[s] # NoSock /\ socks'[s] = socks'[r] => s = r
    BY <2>1, <2>2 DEF TableInv, SlotsAreOpen
  <2>5. ASSUME NEW x \in Objs, ostate'[x] \in Open
        PROVE  \E s \in Slots : socks'[s] = x
    <3>1. x # o /\ ostate[x] \in Open
      BY <1>1, <2>5 DEF HoldInv, ObjTypeOK, Open, Closing
    <3>2. PICK s \in Slots : socks[s] = x
      BY <3>1 DEF TableInv, SlotsAreOpen
    <3> QED
      BY <1>2, <2>1, <3>1, <3>2
  <2> QED
    BY <2>3, <2>4, <2>5 DEF SlotsAreOpen
<1>12. CloserHasSlot'
  <2> SUFFICES ASSUME NEW u \in Threads, pc'[u] \in InClose
               PROVE  slot'[u] \in Slots /\ socks'[slot'[u]] = ref'[u]
    BY DEF CloserHasSlot
  <2>1. u # t /\ pc'[u] = pc[u] /\ ref'[u] = ref[u] /\ slot'[u] = slot[u]
    BY <1>1 DEF HoldInv, ObjTypeOK, InClose
  <2>2. slot[u] \in Slots /\ socks[slot[u]] = ref[u] /\ ref[u] # o
    BY <1>1, <2>1 DEF TableInv, CloserHasSlot, HoldInv, OneCloser, InClose
  <2> QED
    BY <1>1, <1>2, <2>1, <2>2 DEF TableInv, TableTypeOK
<1>13. inited' <=> nsocks' > 0
  <2>1. nsocks > 1 <=> nsocks' > 0
    BY <1>1, <1>4
  <2> QED
    BY <1>1, <2>1, Zenon
<1> QED
  BY <1>5, <1>8, <1>10, <1>11, <1>12, <1>13 DEF TableInv

(* Steps that leave the table alone keep it consistent as long as no       *)
(* socket is opened or freed and closers keep their slots.                 *)
LEMMA TableInvKept ==
    ASSUME TableInv, UNCHANGED tableVars, CloserHasSlot',
           \A x \in Objs : ostate'[x] \in Open <=> ostate[x] \in Open
    PROVE  TableInv'
<1>1. UNCHANGED <<inited, socks, unused, nsocks>>
  BY DEF tableVars
<1>2. SlotsAreOpen'
  BY <1>1 DEF TableInv, TableTypeOK, SlotsAreOpen
<1>3. Taken' = Taken /\ TableTypeOK'
  BY <1>1 DEF Taken, TableInv, TableTypeOK
<1>4. inited' => IsStack(unused, MaxSockets - nsocks)'
  BY <1>1 DEF IsStack, TableInv
<1> QED
  BY <1>1, <1>2, <1>3, <1>4 DEF TableInv

(* nn_close remembers the slot its socket is in until the end. *)
LEMMA CloseSlotTable ==
    ASSUME HoldInv, TableInv, NEW t \in Threads, NEW s \in Slots,
           CloseSlot(t, s)
    PROVE  TableInv'
<1>1. PICK o \in Objs :
        /\ ostate[o] = "ACTIVE"
        /\ socks[s] = o
        /\ \E z \in Closing : ostate' = [ostate EXCEPT ![o] = z]
        /\ ref' = [ref EXCEPT ![t] = o]
  BY DEF CloseSlot, CanHold, SockStop, StopProtocol, Set, Closing
<1>2. /\ slot' = [slot EXCEPT ![t] = s]
      /\ pc' = [pc EXCEPT ![t] = "termsem"]
      /\ UNCHANGED tableVars
  BY DEF CloseSlot, Set
<1>3. CloserHasSlot'
  BY <1>1, <1>2 DEF HoldInv, ObjTypeOK, TableInv, CloserHasSlot, tableVars
<1>4. \A x \in Objs : ostate'[x] \in Open <=> ostate[x] \in Open
  BY <1>1 DEF HoldInv, ObjTypeOK, Open
<1> QED
  BY <1>2, <1>3, <1>4, TableInvKept

(* Every step but nn_socket and the two ends of nn_close. *)
OtherStep ==
    \/ \E t \in Threads :
        \/ \E s \in Slots, call \in HeldCalls : Hold(t, s, call)
        \/ Rele(t) \/ WaitTerm(t) \/ WaitRele(t) \/ CallStep(t)
        \/ SkipSlot(t) \/ TermEnd(t)
    \/ \E t \in Terminators : NnTerm(t) \/ NnInit(t)
    \/ \E o \in Objs : WorkerStep(o)

(* None of the other steps touches the table. *)
LEMMA OtherTable ==
    ASSUME HoldInv, TableInv, OtherStep
    PROVE  TableInv'
<1>1. CASE \E t \in Threads, s \in Slots, call \in HeldCalls : Hold(t, s, call)
  <2>1. PICK t \in Threads, s \in Slots, call \in HeldCalls : Hold(t, s, call)
    BY <1>1
  <2>2. /\ \E o \in Objs : ref' = [ref EXCEPT ![t] = o]
        /\ pc' = [pc EXCEPT ![t] = call]
        /\ UNCHANGED <<tableVars, ostate, slot>>
    BY <2>1 DEF Hold, Set
  <2>3. CloserHasSlot'
    BY <2>2 DEF HoldInv, ObjTypeOK, TableInv, CloserHasSlot, tableVars, InClose,
                HeldCalls
  <2> QED
    BY <2>2, <2>3, TableInvKept
<1>2. CASE \E t \in Threads : Rele(t)
  <2>1. PICK t \in Threads : Rele(t)
    BY <1>2
  <2>2. /\ ref' = [ref EXCEPT ![t] = NoSock]
        /\ pc' = [pc EXCEPT ![t] = "idle"]
        /\ UNCHANGED <<tableVars, ostate, slot>>
    BY <2>1 DEF Rele, Set
  <2>3. CloserHasSlot'
    BY <2>2 DEF HoldInv, ObjTypeOK, TableInv, CloserHasSlot, tableVars, InClose
  <2> QED
    BY <2>2, <2>3, TableInvKept
<1>3. CASE \E t \in Threads : WaitTerm(t) \/ WaitRele(t)
  <2>1. PICK t \in Threads : WaitTerm(t) \/ WaitRele(t)
    BY <1>3
  <2>2. /\ pc[t] \in InClose
        /\ \E z \in InClose : pc' = [pc EXCEPT ![t] = z]
        /\ UNCHANGED <<tableVars, ostate, slot, ref>>
    BY <2>1 DEF WaitTerm, WaitRele, Set, InClose
  <2>3. CloserHasSlot'
    BY <2>2 DEF HoldInv, ObjTypeOK, TableInv, CloserHasSlot, tableVars
  <2> QED
    BY <2>2, <2>3, TableInvKept
<1>4. CASE \E t \in Threads : CallStep(t)
  <2>1. PICK t \in Threads : CallStep(t)
    BY <1>4
  <2>2. /\ \E z \in {"wait", "recheck", "rele"} : pc' = [pc EXCEPT ![t] = z]
        /\ UNCHANGED <<tableVars, ostate, slot, ref>>
    BY <2>1 DEF CallStep, RecvTry, RecvWake, RecvTimeout, AddEp, RmEp, Option,
                Set, objVars
  <2>3. CloserHasSlot'
    BY <2>2 DEF HoldInv, ObjTypeOK, TableInv, CloserHasSlot, tableVars, InClose
  <2> QED
    BY <2>2, <2>3, TableInvKept
<1>5. CASE \/ \E t \in Threads : SkipSlot(t) \/ TermEnd(t)
           \/ \E t \in Terminators : NnTerm(t) \/ NnInit(t)
  <2>1. PICK t \in Threads :
              NnTerm(t) \/ TermEnd(t) \/ NnInit(t) \/ SkipSlot(t)
    BY <1>5, SockLifeAssumption DEF SockLifeAssumption
  <2>2. /\ pc[t] \in {"idle", "term"}
        /\ pc' = pc \/ \E z \in {"idle", "term"} : pc' = [pc EXCEPT ![t] = z]
        /\ slot' = slot \/ \E z : slot' = [slot EXCEPT ![t] = z]
        /\ UNCHANGED <<tableVars, ostate, ref>>
    BY <2>1 DEF NnTerm, TermEnd, NnInit, SkipSlot, Set, objVars, threadVars
  <2>3. CloserHasSlot'
    BY <2>2 DEF HoldInv, ObjTypeOK, TableInv, CloserHasSlot, tableVars, InClose
  <2> QED
    BY <2>2, <2>3, TableInvKept
<1>6. CASE \E o \in Objs : WorkerStep(o)
  <2>1. PICK o \in Objs : WorkerStep(o)
    BY <1>6
  <2>2. /\ UNCHANGED <<tableVars, pc, slot, ref>>
        /\ \/ ostate' = ostate
           \/ /\ ostate[o] \in Closing
              /\ \E z \in Closing : ostate' = [ostate EXCEPT ![o] = z]
    BY <2>1 DEF WorkerStep, Arrive, EpStopped, ProtocolStopped, StopProtocol, Set,
                threadVars, Closing
  <2>3. CloserHasSlot'
    BY <2>2 DEF TableInv, CloserHasSlot, tableVars
  <2>4. \A x \in Objs : ostate'[x] \in Open <=> ostate[x] \in Open
    BY <2>2 DEF HoldInv, ObjTypeOK, Open
  <2> QED
    BY <2>2, <2>3, <2>4, TableInvKept
<1> QED
  BY <1>1, <1>2, <1>3, <1>4, <1>5, <1>6 DEF OtherStep

(* What a step of the specification may be. *)
LEMMA NextSteps ==
    ASSUME HoldInv, Next
    PROVE  \/ \E t \in Threads, o \in Objs : NnSocket(t, o)
           \/ \E t \in Threads, s \in Slots :
                 /\ pc[t] = "idle" \/ (pc[t] = "term" /\ s = slot[t])
                 /\ CloseSlot(t, s)
           \/ \E t \in Threads : CloseEnd(t)
           \/ OtherStep
<1>1. ASSUME NEW t \in Threads, TermSlot(t)
      PROVE  \/ \E s \in Slots : pc[t] = "term" /\ s = slot[t] /\ CloseSlot(t, s)
             \/ SkipSlot(t)
  <2>1. PICK s \in Slots : s = slot[t]
    BY <1>1, SockLifeAssumption
       DEF TermSlot, HoldInv, ObjTypeOK, Slots, SockLifeAssumption
  <2>2. CASE CloseSlot(t, slot[t])
    <3>1. CloseSlot(t, s)
      BY <2>1, <2>2 DEF CloseSlot, CanHold, Set
    <3> QED
      BY <1>1, <2>1, <3>1 DEF TermSlot
  <2>3. CASE ~CloseSlot(t, slot[t])
    BY <1>1, <2>3 DEF TermSlot, SkipSlot
  <2> QED
    BY <2>2, <2>3
<1> QED
  BY <1>1 DEF Next, Continue, NnClose, OtherStep, CallStep, WorkerStep

(* Every step preserves CloseInv. *)
LEMMA CloseInvStep == HoldInv /\ CloseInv /\ [Next]_vars => CloseInv'
<1> SUFFICES ASSUME HoldInv, CloseInv, [Next]_vars PROVE CloseInv'
  OBVIOUS
<1>1. CASE Next
  <2>1. CASE OtherStep
    BY <2>1, HoldClose, ReleClose, WaitTermClose, WaitReleClose, TermClose,
       CallClose, WorkerClose, SockLifeAssumption
       DEF OtherStep, SockLifeAssumption
  <2> QED
    BY <1>1, <2>1, NextSteps, NnSocketClose, CloseSlotClose, CloseEndClose
<1>2. CASE UNCHANGED vars
  BY <1>2 DEF vars, objVars, threadVars, CloseInv, DescriptorInv,
              UnracedOnActive, EndpointsGone, NoCrash
<1> QED
  BY <1>1, <1>2

(* Every step preserves TableInv. *)
LEMMA TableInvStep == HoldInv /\ TableInv /\ [Next]_vars => TableInv'
<1> SUFFICES ASSUME HoldInv, TableInv, [Next]_vars PROVE TableInv'
  OBVIOUS
<1>1. CASE Next
  BY <1>1, NextSteps, NnSocketTable, CloseSlotTable, CloseEndTable, OtherTable
<1>2. CASE UNCHANGED vars
  <2>1. CloserHasSlot'
    BY <1>2 DEF vars, tableVars, threadVars, TableInv, CloserHasSlot
  <2> QED
    BY <1>2, <2>1, TableInvKept DEF vars, objVars
<1> QED
  BY <1>1, <1>2

-----------------------------------------------------------------------------
(* nn_term. *)

(* One thread at most calls nn_term and nn_init. *)
LoneTerminator == \A t, u \in Terminators : t = u

(* nn_term has left no open socket behind in the slots it went through. *)
TermInv ==
    /\ \A t \in Threads :
          /\ terming[t] => /\ t \in Terminators
                           /\ pc[t] \in {"term"} \cup InClose
                           /\ "TERMING" \in flags
          /\ pc[t] = "term" => terming[t]
          /\ \A s \in Slots :
                terming[t] /\ s < slot[t] /\ socks[s] # NoSock
                    => ostate[socks[s]] # "ACTIVE"
    /\ TermedIsClosed

(* Nobody is in nn_term initially. *)
LEMMA TermInvInit == Init => TermInv
<1> SUFFICES ASSUME Init PROVE TermInv
  OBVIOUS
<1>1. \A t \in Threads : terming[t] = FALSE /\ pc[t] = "idle"
  BY DEF Init
<1> QED
  BY <1>1 DEF Init, TermInv, TermedIsClosed

(* Steps that open no socket and leave nn_term and its flags alone. *)
LEMMA TermInvKept ==
    ASSUME TermInv, UNCHANGED <<flags, terming>>,
           \A t \in Threads :
              /\ terming[t] => /\ pc'[t] \in {"term"} \cup InClose
                               /\ slot'[t] = slot[t]
              /\ pc'[t] = "term" => terming[t],
           \A s \in Slots : socks'[s] # NoSock => socks'[s] = socks[s],
           \A x \in Objs : ostate'[x] = "ACTIVE" => ostate[x] = "ACTIVE",
           TableInv
    PROVE  TermInv'
<1>1. \A s \in Slots : socks[s] \in Objs \cup {NoSock}
  BY DEF TableInv, TableTypeOK
<1>2. TermedIsClosed'
  BY DEF TermInv, TermedIsClosed
<1>3. \A t \in Threads, s \in Slots :
         (terming'[t] /\ s < slot'[t] /\ socks'[s] # NoSock)
             => ostate'[socks'[s]] # "ACTIVE"
  BY <1>1 DEF TermInv
<1> QED
  BY <1>2, <1>3 DEF TermInv

(* Every step preserves TermInv when only one thread calls nn_term and     *)
(* nn_init.                                                                *)
LEMMA TermInvStep ==
    LoneTerminator /\ HoldInv /\ TableInv /\ TermInv /\ [Next]_vars => TermInv'
<1> SUFFICES ASSUME LoneTerminator, HoldInv, TableInv, TermInv, [Next]_vars
             PROVE  TermInv'
  OBVIOUS
<1>0. ObjTypeOK /\ TableTypeOK
  BY DEF HoldInv, TableInv
<1>1. ASSUME NEW t \in Threads, NEW o \in Objs, NnSocket(t, o) PROVE TermInv'
  <2>1. flags = {} /\ UNCHANGED <<flags, pc, slot, terming>>
    BY <1>1 DEF NnSocket, threadVars
  <2>2. \A u \in Threads : terming[u] = FALSE
    BY <1>0, <2>1 DEF TermInv, ObjTypeOK
  <2> QED
    BY <2>1, <2>2 DEF TermInv, TermedIsClosed
<1>2. ASSUME NEW t \in Threads, NEW s \in Slots, CloseSlot(t, s),
             pc[t] = "idle" \/ (pc[t] = "term" /\ s = slot[t])
      PROVE  TermInv'
  <2>1. /\ \E o \in Objs, z \in Closing : ostate' = [ostate EXCEPT ![o] = z]
        /\ slot' = [slot EXCEPT ![t] = s]
        /\ pc' = [pc EXCEPT ![t] = "termsem"]
        /\ UNCHANGED <<socks, flags, terming>>
    BY <1>2 DEF CloseSlot, SockStop, StopProtocol, Set, tableVars, Closing
  <2>2. \A u \in Threads :
           /\ terming[u] => pc'[u] \in {"term"} \cup InClose /\ slot'[u] = slot[u]
           /\ pc'[u] = "term" => terming[u]
    BY <1>0, <1>2, <2>1 DEF TermInv, ObjTypeOK, InClose
  <2>3. \A x \in Objs : ostate'[x] = "ACTIVE" => ostate[x] = "ACTIVE"
    BY <1>0, <2>1 DEF ObjTypeOK, Closing
  <2> QED
    BY <2>1, <2>2, <2>3, TermInvKept
<1>3. ASSUME NEW t \in Threads, CloseEnd(t) PROVE TermInv'
  <2>1. /\ \E o \in Objs : ostate' = [ostate EXCEPT ![o] = "freed"]
        /\ slot' = [slot EXCEPT ![t] = IF terming[t] THEN slot[t] ELSE 0]
        /\ pc' = [pc EXCEPT ![t] = IF terming[t] THEN "term" ELSE "idle"]
        /\ socks' = [socks EXCEPT ![slot[t]] = NoSock]
        /\ UNCHANGED <<flags, terming>>
    BY <1>3 DEF CloseEnd, Set, HoldInv, RefsAreOpen, InClose
  <2>2. \A u \in Threads :
           /\ terming[u] => pc'[u] \in {"term"} \cup InClose /\ slot'[u] = slot[u]
           /\ pc'[u] = "term" => terming[u]
    BY <1>0, <2>1 DEF TermInv, ObjTypeOK
  <2>3. /\ \A x \in Objs : ostate'[x] = "ACTIVE" => ostate[x] = "ACTIVE"
        /\ \A s \in Slots : socks'[s] # NoSock => socks'[s] = socks[s]
    BY <1>0, <2>1 DEF ObjTypeOK, TableTypeOK
  <2> QED
    BY <2>1, <2>2, <2>3, TermInvKept
<1>4. ASSUME NEW t \in Threads, SkipSlot(t) PROVE TermInv'
  <2>1. /\ pc[t] = "term" /\ slot[t] < MaxSockets
        /\ \A o \in Objs : ~CanHold(slot[t], o)
        /\ slot' = [slot EXCEPT ![t] = slot[t] + 1]
        /\ UNCHANGED <<inited, socks, flags, ostate, pc, terming>>
    BY <1>4 DEF SkipSlot, Set, tableVars, objVars
  <2>2. \A r \in Slots : socks[r] # NoSock => inited
    <3> SUFFICES ASSUME NEW r \in Slots, socks[r] # NoSock PROVE inited
      OBVIOUS
    <3>1. Cardinality(Taken) # 0
      BY TakenFinite, FS_EmptySet DEF Taken
    <3> QED
      BY <3>1 DEF TableInv, TableTypeOK
  <2>3. \A r \in Slots : r = slot[t] /\ socks[r] # NoSock => ostate[socks[r]] # "ACTIVE"
    BY <1>0, <2>1, <2>2 DEF CanHold, TableTypeOK
  <2>4. ASSUME NEW u \in Threads, NEW r \in Slots,
               terming'[u], r < slot'[u], socks'[r] # NoSock
        PROVE  ostate'[socks'[r]] # "ACTIVE"
    <3>1. r \in Nat /\ slot[u] \in Nat
      BY <1>0, SockLifeAssumption DEF ObjTypeOK, Slots, SockLifeAssumption
    <3>2. r < slot[u] \/ (u = t /\ r = slot[t])
      BY <1>0, <2>1, <2>4, <3>1 DEF ObjTypeOK
    <3> QED
      BY <2>1, <2>3, <2>4, <3>2 DEF TermInv
  <2>5. \A u \in Threads : 
          /\ terming'[u] => /\ u \in Terminators
                            /\ pc'[u] \in {"term"} \cup InClose
                            /\ "TERMING" \in flags'
          /\ pc'[u] = "term" => terming'[u]
    BY <2>1 DEF TermInv
  <2>6. TermedIsClosed'
    BY <2>1 DEF TermInv, TermedIsClosed
  <2> QED
    BY <2>4, <2>5, <2>6 DEF TermInv
<1>5. ASSUME NEW t \in Threads, TermEnd(t) PROVE TermInv'
  <2>1. /\ pc[t] = "term" /\ slot[t] = MaxSockets
        /\ flags' = {"TERMED"}
        /\ slot' = [slot EXCEPT ![t] = 0]
        /\ terming' = [terming EXCEPT ![t] = FALSE]
        /\ pc' = [pc EXCEPT ![t] = "idle"]
        /\ UNCHANGED <<socks, ostate>>
    BY <1>5 DEF TermEnd, Set, tableVars, objVars
  <2>2. \A u \in Threads : terming'[u] = FALSE /\ pc'[u] # "term"
    BY <1>0, <2>1 DEF TermInv, ObjTypeOK, LoneTerminator
  <2>3. ASSUME NEW o \in Objs PROVE ostate[o] # "ACTIVE"
    <3>1. SUFFICES ASSUME ostate[o] = "ACTIVE" PROVE FALSE
      OBVIOUS
    <3>2. PICK s \in Slots : socks[s] = o
      BY <3>1 DEF TableInv, SlotsAreOpen, Open
    <3>3. s < MaxSockets
      BY SockLifeAssumption DEF Slots, SockLifeAssumption
    <3> QED
      BY <2>1, <3>1, <3>2, <3>3, SockLifeAssumption
         DEF TermInv, SockLifeAssumption
  <2> QED
    BY <2>1, <2>2, <2>3 DEF TermInv, TermedIsClosed
<1>6. ASSUME NEW t \in Terminators, NnTerm(t) PROVE TermInv'
  <2>1. /\ pc[t] = "idle" /\ t \in Threads
        /\ flags' = flags \cup {"TERMING"}
        /\ slot' = [slot EXCEPT ![t] = 0]
        /\ terming' = [terming EXCEPT ![t] = TRUE]
        /\ pc' = [pc EXCEPT ![t] = "term"]
        /\ UNCHANGED <<socks, ostate>>
    BY <1>6, SockLifeAssumption
       DEF NnTerm, Set, tableVars, objVars, SockLifeAssumption
  <2>2. \A u \in Threads :
          /\ terming'[u] => u = t
          /\ pc'[u] = "term" => u = t
    BY <1>0, <1>6, <2>1 DEF TermInv, ObjTypeOK, LoneTerminator
  <2>3. slot'[t] = 0 /\ pc'[t] = "term" /\ terming'[t]
    BY <1>0, <2>1 DEF ObjTypeOK
  <2>4. \A s \in Slots : ~(s < 0)
    BY SockLifeAssumption DEF Slots, SockLifeAssumption
  <2>5. TermedIsClosed'
    BY <2>1 DEF TermInv, TermedIsClosed
  <2> QED
    BY <1>6, <2>1, <2>2, <2>3, <2>4, <2>5 DEF TermInv
<1>7. ASSUME NEW t \in Terminators, NnInit(t) PROVE TermInv'
  <2>1. /\ "TERMING" \notin flags /\ flags' = flags \ {"TERMED"}
        /\ UNCHANGED <<socks, ostate, pc, slot, terming>>
    BY <1>7 DEF NnInit, tableVars, objVars, threadVars
  <2> QED
    BY <2>1 DEF TermInv, TermedIsClosed
<1>8. ASSUME NEW t \in Threads,
             \/ \E s \in Slots, call \in HeldCalls : Hold(t, s, call)
             \/ Rele(t) \/ WaitTerm(t) \/ WaitRele(t) \/ CallStep(t)
      PROVE  TermInv'
  <2>1. /\ UNCHANGED <<socks, flags, terming, slot>>
        /\ \A x \in Objs : ostate'[x] = "ACTIVE" => ostate[x] = "ACTIVE"
    BY <1>8 DEF Hold, Rele, WaitTerm, WaitRele, CallStep, RecvTry, RecvWake,
                RecvTimeout, AddEp, RmEp, Option, tableVars, objVars
  <2>2. /\ pc[t] # "term"
        /\ \/ pc[t] \notin InClose /\ \E z \in {"idle"} \cup InCall : pc' = [pc EXCEPT ![t] = z]
           \/ pc[t] \in InClose /\ \E z \in InClose : pc' = [pc EXCEPT ![t] = z]
    BY <1>8 DEF Hold, Rele, WaitTerm, WaitRele, CallStep, RecvTry, RecvWake,
                RecvTimeout, AddEp, RmEp, Option, Set, InClose, InCall, HeldCalls
  <2>3. \A u \in Threads :
           /\ terming[u] => pc'[u] \in {"term"} \cup InClose /\ slot'[u] = slot[u]
           /\ pc'[u] = "term" => terming[u]
    BY <1>0, <2>1, <2>2 DEF TermInv, ObjTypeOK, InCall, HeldCalls, InClose
  <2> QED
    BY <2>1, <2>3, TermInvKept
<1>9. ASSUME NEW o \in Objs, WorkerStep(o) PROVE TermInv'
  <2>1. /\ UNCHANGED <<socks, flags, terming, slot, pc>>
        /\ ostate' = ostate \/ \E z \in Closing : ostate' = [ostate EXCEPT ![o] = z]
    BY <1>9 DEF WorkerStep, Arrive, EpStopped, ProtocolStopped, StopProtocol, Set,
                tableVars, threadVars, Closing
  <2>2. \A x \in Objs : ostate'[x] = "ACTIVE" => ostate[x] = "ACTIVE"
    BY <1>0, <2>1 DEF ObjTypeOK, Closing
  <2> QED
    BY <2>1, <2>2, TermInvKept DEF TermInv
<1>10. CASE UNCHANGED vars
  BY <1>10 DEF vars, tableVars, objVars, threadVars, TermInv, TermedIsClosed
<1>11. CASE OtherStep
  BY <1>11, <1>4, <1>5, <1>6, <1>7, <1>8, <1>9 DEF OtherStep
<1> QED
  BY <1>1, <1>2, <1>3, <1>10, <1>11, NextSteps

-----------------------------------------------------------------------------
(* The theorems. *)

(* Holds, holders and semaphores agree (nn_sock_hold, nn_sock_rele,        *)
(* nn_sock_term), for any number of threads and sockets.                   *)
THEOREM HoldInvariant == Spec => []HoldInv
BY HoldInvInit, HoldInvStep, PTL DEF Spec

(* The socket table, its stack of unused slots and the states of the       *)
(* sockets agree at every step (nn_global_create_socket, nn_close).        *)
THEOREM TableInvariant == Spec => []TableInv
BY HoldInvariant, TableInvInit, TableInvStep, PTL DEF Spec

(* Descriptors follow messages and closing, and endpoints and failures     *)
(* follow from which calls are let race with nn_close.                     *)
THEOREM CloseInvariant == Spec => []CloseInv
BY HoldInvariant, CloseInvInit, CloseInvStep, PTL DEF Spec

(* HeldIsAlive for all threads and sockets: a socket is not freed while a  *)
(* call works on it, and its holds are exactly the calls working on it and *)
(* the application's own (core/global.c, core/sock.c).                     *)
THEOREM SocketHeldIsAlive == Spec => []HeldIsAlive
<1>1. HoldInv /\ TableInv => HeldIsAlive
  <2> SUFFICES ASSUME HoldInv, TableInv PROVE HeldIsAlive
    OBVIOUS
  <2>1. TypeOK
    BY DEF HoldInv, ObjTypeOK, TableInv, TableTypeOK, TypeOK
  <2>2. \A t \in Threads :
           pc[t] \in InCall \cup InClose => ostate[ref[t]] \notin {"none", "freed"}
    BY DEF HoldInv, RefsAreOpen, Open, Closing
  <2>3. ASSUME NEW o \in Objs, relesem[o] > 0
        PROVE  Holders(o) = {} /\ ostate[o] # "ACTIVE"
    <3>1. holds[o] = 0
      BY <2>3 DEF HoldInv, SemsPosted
    <3>2. Cardinality(Holders(o)) = 0 /\ ostate[o] # "ACTIVE"
      BY <3>1, HoldersFinite DEF HoldInv, HoldsCounted
    <3> QED
      BY <3>2, HoldersFinite, FS_EmptySet
  <2>4. \A o \in Objs : relesem[o] + termsem[o] <= 2
    BY DEF HoldInv, ObjTypeOK, SemsPosted
  <2>5. \A o \in Objs : holds[o] = Cardinality(Holders(o))
                            + (IF ostate[o] = "ACTIVE" THEN 1 ELSE 0)
    BY DEF HoldInv, HoldsCounted
  <2> QED
    BY <2>1, <2>2, <2>3, <2>4, <2>5 DEF HeldIsAlive
<1> QED
  BY <1>1, HoldInvariant, TableInvariant, PTL

(* TableConsistent for every size of the table: nn_socket never hands out  *)
(* a descriptor in use and nn_close never loses one.                       *)
THEOREM SocketTableConsistent == Spec => []TableConsistent
<1>1. HoldInv /\ TableInv => TableConsistent
  <2> SUFFICES ASSUME HoldInv, TableInv, inited PROVE TableConsistent
    BY DEF TableConsistent
  <2> DEFINE free == 0 .. MaxSockets - nsocks - 1
  <2>1. /\ \A i \in free : unused[i] \in Slots /\ socks[unused[i]] = NoSock
        /\ \A s \in Slots : socks[s] = NoSock => \E i \in free : unused[i] = s
        /\ \A i, j \in free : unused[i] = unused[j] => i = j
    BY SockLifeAssumption
       DEF TableInv, TableTypeOK, IsStack, Slots, SockLifeAssumption
  <2>2. {unused[i] : i \in free} = {s \in Slots : socks[s] = NoSock}
    BY <2>1
  <2>3. {socks[s] : s \in Slots} \ {NoSock}
            = {o \in Objs : ostate[o] \notin {"none", "freed"}}
    <3>1. \A o \in Objs : ostate[o] \notin {"none", "freed"} <=> ostate[o] \in Open
      BY DEF HoldInv, ObjTypeOK, ObjStates, Open, Closing
    <3> QED
      BY <3>1, SockLifeAssumption
         DEF TableInv, TableTypeOK, SlotsAreOpen, SockLifeAssumption
  <2>4. Cardinality({s \in Slots : socks[s] # NoSock}) = nsocks
    BY DEF TableInv, Taken
  <2> QED
    BY <2>1, <2>2, <2>3, <2>4 DEF TableConsistent
<1> QED
  BY <1>1, HoldInvariant, TableInvariant, PTL

(* NoLostWakeup for all threads and sockets: a receiver blocked in         *)
(* nn_efd_wait polls a readable descriptor whenever there is a message or  *)
(* the socket is being closed.                                             *)
THEOREM ReceiversWoken == Spec => []NoLostWakeup
<1>1. HoldInv /\ CloseInv => NoLostWakeup
  <2> SUFFICES ASSUME HoldInv, CloseInv, NEW t \in Threads, pc[t] = "wait",
                      msgs[ref[t]] > 0 \/ ostate[ref[t]] # "ACTIVE"
               PROVE  rcvfd[ref[t]]
    BY DEF NoLostWakeup
  <2>1. ref[t] \in Objs /\ ostate[ref[t]] \in Open
    BY DEF HoldInv, RefsAreOpen, InCall
  <2> QED
    BY <2>1 DEF CloseInv, DescriptorInv, Open
<1> QED
  BY <1>1, HoldInvariant, CloseInvariant, PTL

(* NoCrash when the application lets neither nn_bind, nn_connect nor       *)
(* options race with nn_close: none of the assertions of nn_efd_unsignal,  *)
(* nn_sock_shutdown and nn_sock_term is reached.                           *)
THEOREM UnracedNeverCrash ==
    ASSUME Races = {}
    PROVE  Spec => []NoCrash
<1>1. CloseInv => NoCrash
  BY DEF CloseInv
<1> QED
  BY <1>1, CloseInvariant, PTL

(* EpsStopped when nn_bind and nn_connect do not race with nn_close: then  *)
(* the assertion of core/sock.c:888 holds. With the race it does not, as   *)
(* the run sock_connect_race shows.                                        *)
THEOREM UnracedEpsStopped ==
    ASSUME "addep" \notin Races
    PROVE  Spec => []EpsStopped
<1>1. CloseInv => EpsStopped
  BY DEF CloseInv, EndpointsGone, EpsStopped, Closing
<1> QED
  BY <1>1, CloseInvariant, PTL

(* TermedIsClosed when one thread at most calls nn_term and nn_init: after *)
(* nn_term no socket is usable. With two of them nn_init of the first      *)
(* could reopen the library while the second still goes through the table. *)
THEOREM TermedSocketsClosed ==
    ASSUME LoneTerminator
    PROVE  Spec => []TermedIsClosed
<1>1. HoldInv /\ TableInv /\ TermInv /\ [Next]_vars => TermInv'
  BY TermInvStep
<1>2. TermInv => TermedIsClosed
  BY DEF TermInv
<1> QED
  BY <1>1, <1>2, TermInvInit, HoldInvariant, TableInvariant, PTL DEF Spec
=============================================================================
