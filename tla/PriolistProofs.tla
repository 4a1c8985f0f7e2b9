---------------------------- MODULE PriolistProofs ----------------------------
(***************************************************************************)
(* Proofs about the prioritised list: its pointers agree with its lists    *)
(* whatever pipes come, go and are used, and the pipe that is used is      *)
(* always a ready one of the best priority. PointersConsistent is its own  *)
(* inductive invariant; the proof goes through ListOK, what it says of one *)
(* slot, and BestSlot, what it says of the current slot.                   *)
(***************************************************************************)
EXTENDS Priolist, SequenceFacts

(* What PointersConsistent says of a slot with the list s, the current     *)
(* pipe c and the number k.                                                *)
ListOK(s, c, k, prio) ==
    /\ c = NoPipe <=> s = <<>>
    /\ c # NoPipe => c \in ToSet(s)
    /\ NoRepeats(s)
    /\ \A p \in ToSet(s) : prio[p] = k

(* The current slot is the first one that is not empty. *)
BestSlot(lists, c) ==
    \/ c = -1 /\ \A k \in Slots : lists[k] = <<>>
    \/ /\ c \in Slots
       /\ lists[c] # <<>>
       /\ \A k \in Slots : lists[k] # <<>> => c <= k

IInv ==
    /\ TypeOK
    /\ \A k \in Slots : ListOK(pipes[k], slotCur[k], k, priority)
    /\ BestSlot(pipes, current)

-----------------------------------------------------------------------------
LEMMA SlotsAreNats == /\ Slots \in SUBSET Nat /\ 0 \notin Slots /\ -1 \notin Slots
                      /\ MaxSlots \in Nat
  BY PriolistAssumption DEF Slots

(* A pipe of a list has a place in it. *)
LEMMA PlaceFacts ==
    ASSUME NEW s \in Seq(Pipes), NEW p \in ToSet(s)
    PROVE  /\ Place(s, p) \in 1 .. Len(s) /\ s[Place(s, p)] = p
           /\ Len(s) \in Nat /\ DOMAIN s = 1 .. Len(s) /\ p \in Pipes
<1>1. DOMAIN s = 1 .. Len(s) /\ Len(s) \in Nat
  BY LenProperties
<1>2. \E j \in DOMAIN s : s[j] = p
  BY DEF ToSet
<1>3. Place(s, p) \in DOMAIN s /\ s[Place(s, p)] = p
  BY <1>2 DEF Place
<1> QED
  BY <1>1, <1>3, ElementOfSeq

(* The elements of a list are pipes, and an empty list has none. *)
LEMMA ToSetFacts ==
    ASSUME NEW s \in Seq(Pipes)
    PROVE  /\ ToSet(s) \in SUBSET Pipes
           /\ s # <<>> => s[1] \in ToSet(s)
           /\ s = <<>> <=> ToSet(s) = {}
<1>1. DOMAIN s = 1 .. Len(s) /\ Len(s) \in Nat /\ (s = <<>> <=> Len(s) = 0)
  BY LenProperties, EmptySeq
<1>2. ToSet(s) \in SUBSET Pipes
  BY <1>1, ElementOfSeq DEF ToSet
<1>3. s # <<>> => 1 \in DOMAIN s
  BY <1>1
<1>4. s = <<>> => ToSet(s) = {}
  BY <1>1 DEF ToSet
<1> QED
  BY <1>2, <1>3, <1>4 DEF ToSet

(* What is left of a list when a pipe of it is erased. *)
LEMMA WithoutFacts ==
    ASSUME NEW s \in Seq(Pipes), NEW p \in ToSet(s), NoRepeats(s)
    PROVE  /\ Without(s, p) \in Seq(Pipes)
           /\ NoRepeats(Without(s, p))
           /\ ToSet(Without(s, p)) = ToSet(s) \ {p}
  BY PlaceFacts, RemoveAtSet DEF Without

(* The pipe behind one of a list is in what is left of the list, be it the *)
(* whole list or the list without that pipe.                               *)
LEMMA BehindFacts ==
    ASSUME NEW s \in Seq(Pipes), NEW p \in ToSet(s), NoRepeats(s),
           NEW left \in {s, Without(s, p)}
    PROVE  /\ Behind(s, p, left) \in Pipes \cup {NoPipe}
           /\ Behind(s, p, left) = NoPipe <=> left = <<>>
           /\ Behind(s, p, left) # NoPipe => Behind(s, p, left) \in ToSet(left)
<1>1. /\ Place(s, p) \in 1 .. Len(s) /\ s[Place(s, p)] = p
      /\ Len(s) \in Nat /\ DOMAIN s = 1 .. Len(s)
  BY PlaceFacts
<1>2. /\ left \in Seq(Pipes)
      /\ ToSet(s) \ {p} \in SUBSET ToSet(left)
  BY WithoutFacts
<1>3. /\ ToSet(left) \in SUBSET Pipes
      /\ left # <<>> => left[1] \in ToSet(left)
      /\ left = <<>> <=> ToSet(left) = {}
  BY <1>2, ToSetFacts
<1>4. CASE Place(s, p) < Len(s)
  <2>1. /\ Place(s, p) + 1 \in 1 .. Len(s) /\ Place(s, p) + 1 # Place(s, p)
        /\ Behind(s, p, left) = s[Place(s, p) + 1]
    BY <1>1, <1>4 DEF Behind
  <2>2. s[Place(s, p) + 1] \in ToSet(s) /\ s[Place(s, p) + 1] # p
    BY <1>1, <2>1 DEF ToSet, NoRepeats
  <2> QED
    BY <1>2, <1>3, <2>1, <2>2, PriolistAssumption
<1>5. CASE ~(Place(s, p) < Len(s))
  BY <1>3, <1>5, PriolistAssumption DEF Behind
<1> QED
  BY <1>4, <1>5

(* The search for the first non-empty slot from k on finds the best one    *)
(* when no slot below k has a pipe.                                        *)
LEMMA FirstSlotIsBest ==
    ASSUME NEW lists \in [Slots -> Seq(Pipes)], NEW k \in Slots,
           \A j \in Slots : lists[j] # <<>> => k <= j
    PROVE  BestSlot(lists, FirstSlot(lists, k)) /\ FirstSlot(lists, k) \in Slots \cup {-1}
<1> DEFINE full == {j \in Slots : j >= k /\ lists[j] # <<>>}
<1>1. FirstSlot(lists, k) = IF full = {} THEN -1 ELSE Min(full)
  BY DEF FirstSlot
<1>2. \A j \in Slots : lists[j] # <<>> <=> j \in full
  BY SlotsAreNats
<1>3. CASE full = {}
  BY <1>1, <1>2, <1>3 DEF BestSlot
<1>4. CASE full # {}
  <2>1. Min(full) \in full /\ \A j \in full : Min(full) <= j
    BY <1>4, SlotsAreNats, MinOfNats
  <2> QED
    BY <1>1, <1>2, <1>4, <2>1 DEF BestSlot
<1> QED
  BY <1>3, <1>4

(* The inductive form says what PointersConsistent says. *)
LEMMA IInvIsPointersConsistent == IInv <=> PointersConsistent
<1> DEFINE full == {k \in Slots : pipes[k] # <<>>}
           R(k) == \A i, j \in DOMAIN pipes[k] :
                      /\ pipes[k][i] = pipes[k][j] => i = j
                      /\ priority[pipes[k][i]] = k
<1>1. SUFFICES ASSUME TypeOK PROVE IInv <=> PointersConsistent
  BY DEF IInv, PointersConsistent
<1>2. ASSUME NEW k \in Slots
      PROVE R(k) <=> (NoRepeats(pipes[k]) /\ \A p \in ToSet(pipes[k]) : priority[p] = k)
  <2>1. DOMAIN pipes[k] = 1 .. Len(pipes[k])
    BY <1>1, LenProperties DEF TypeOK
  <2> QED
    BY <2>1 DEF NoRepeats, ToSet
<1>3. BestSlot(pipes, current) <=> current = (IF full = {} THEN -1 ELSE Min(full))
  <2>1. CASE full = {}
    BY <2>1, SlotsAreNats DEF BestSlot
  <2>2. CASE full # {}
    <3>1. Min(full) \in full /\ \A j \in full : Min(full) <= j
      BY <2>2, SlotsAreNats, MinOfNats
    <3>2. ASSUME BestSlot(pipes, current) PROVE current = Min(full)
      <4>1. current \in full /\ \A j \in full : current <= j
        BY <2>2, <3>2 DEF BestSlot
      <4>2. current <= Min(full) /\ Min(full) <= current /\ current \in Nat /\ Min(full) \in Nat
        BY <3>1, <4>1, SlotsAreNats
      <4> QED
        BY <4>2
    <3>3. ASSUME current = Min(full) PROVE BestSlot(pipes, current)
      BY <3>1, <3>3 DEF BestSlot
    <3> QED
      BY <2>2, <3>2, <3>3
  <2> QED
    BY <2>1, <2>2
<1> QED
  BY <1>1, <1>2, <1>3 DEF IInv, ListOK, PointersConsistent

-----------------------------------------------------------------------------
LEMMA InitIInv == Init => IInv
<1>1. SUFFICES ASSUME Init PROVE IInv
  OBVIOUS
<1>2. TypeOK
  BY <1>1, SlotsAreNats, PriolistAssumption DEF Init, TypeOK
<1>3. ToSet(<<>>) = {} /\ NoRepeats(<<>>)
  BY DEF ToSet, NoRepeats
<1> QED
  BY <1>1, <1>2, <1>3, SlotsAreNats DEF Init, IInv, ListOK, BestSlot

(* A pipe joins: it is in no list yet. *)
LEMMA AddIInv == ASSUME IInv, NEW p \in Pipes, NEW k \in Slots, Add(p, k) PROVE IInv'
<1> USE DEF IInv
<1>1. TypeOK'
  BY SlotsAreNats DEF Add, TypeOK, Slots
<1>2. ASSUME NEW m \in Slots PROVE ListOK(pipes[m], slotCur[m], m, priority')
  <2>1. \A q \in ToSet(pipes[m]) : q \in Pipes /\ priority[q] = m /\ m # 0
    BY SlotsAreNats, ToSetFacts DEF TypeOK, ListOK
  <2>2. \A q \in ToSet(pipes[m]) : priority'[q] = priority[q]
    BY <2>1 DEF Add, TypeOK
  <2> QED
    BY <2>1, <2>2 DEF ListOK
<1> QED
  BY <1>1, <1>2 DEF Add

(* A pipe leaves: it is in no list but that of its priority. *)
LEMMA RmIInv == ASSUME IInv, NEW p \in Pipes, Rm(p) PROVE IInv'
<1> USE DEF IInv
<1>1. priority' = [priority EXCEPT ![p] = 0] /\ priority' \in [Pipes -> 0 .. MaxSlots]
  BY SlotsAreNats DEF Rm, TypeOK
<1>2. PICK k \in Slots : k = priority[p]
  BY SlotsAreNats DEF Rm, TypeOK, Slots
<1>3. ASSUME NEW m \in Slots, p \notin ToSet(pipes[m])
      PROVE  ListOK(pipes[m], slotCur[m], m, priority')
  <2>1. \A q \in ToSet(pipes[m]) : q \in Pipes /\ priority'[q] = m
    BY <1>1, <1>3, ToSetFacts DEF TypeOK, ListOK
  <2> QED
    BY <2>1 DEF ListOK
<1>4. \A m \in Slots : p \in ToSet(pipes[m]) => m = k
  BY <1>2 DEF ListOK
<1>5. CASE ~Active(p)
  <2>1. \A m \in Slots : p \notin ToSet(pipes[m])
    BY <1>2, <1>4, <1>5, SlotsAreNats DEF Active
  <2>2. UNCHANGED <<pipes, slotCur, current>> /\ turn' = NoPipe
    BY <1>5 DEF Rm
  <2> QED
    BY <1>1, <1>3, <2>1, <2>2 DEF TypeOK
<1>6. CASE Active(p)
  <2> DEFINE left == Without(pipes[k], p)
  <2>1. p \in ToSet(pipes[k]) /\ pipes[k] \in Seq(Pipes) /\ NoRepeats(pipes[k])
    BY <1>2, <1>6 DEF Active, TypeOK, ListOK
  <2>2. /\ left \in Seq(Pipes) /\ NoRepeats(left)
        /\ ToSet(left) = ToSet(pipes[k]) \ {p}
        /\ left = <<>> <=> ToSet(left) = {}
    BY <2>1, WithoutFacts, ToSetFacts
  <2>3. /\ Behind(pipes[k], p, left) \in Pipes \cup {NoPipe}
        /\ Behind(pipes[k], p, left) = NoPipe <=> left = <<>>
        /\ Behind(pipes[k], p, left) # NoPipe => Behind(pipes[k], p, left) \in ToSet(left)
    BY <2>1, BehindFacts
  <2>4. /\ pipes' = [pipes EXCEPT ![k] = left] /\ turn' = NoPipe
        /\ slotCur[k] = p =>
              /\ slotCur' = [slotCur EXCEPT ![k] = Behind(pipes[k], p, left)]
              /\ current' = IF current = k THEN FirstSlot(pipes', k) ELSE current
        /\ slotCur[k] # p => UNCHANGED <<slotCur, current>>
    BY <1>2, <1>6 DEF Rm
  <2> HIDE DEF left
  <2>5. /\ pipes' \in [Slots -> Seq(Pipes)] /\ pipes'[k] = left
        /\ \A m \in Slots \ {k} : pipes'[m] = pipes[m]
    BY <2>2, <2>4 DEF TypeOK
  <2>6. /\ slotCur' \in [Slots -> Pipes \cup {NoPipe}]
        /\ \A m \in Slots \ {k} : slotCur'[m] = slotCur[m]
        /\ slotCur'[k] = IF slotCur[k] = p THEN Behind(pipes[k], p, left)
                                           ELSE slotCur[k]
    BY <2>3, <2>4 DEF TypeOK
  <2>7. \A q \in ToSet(left) : priority'[q] = k
    <3>1. \A q \in ToSet(left) : q \in Pipes /\ q # p /\ priority[q] = k
      BY <2>1, <2>2, ToSetFacts DEF ListOK
    <3> QED
      BY <1>1, <3>1 DEF TypeOK
  <2>8. ASSUME NEW m \in Slots PROVE ListOK(pipes'[m], slotCur'[m], m, priority')
    <3>1. CASE m # k
      BY <1>3, <1>4, <2>5, <2>6, <3>1
    <3>2. CASE m = k
      <4>1. CASE slotCur[k] = p
        BY <2>2, <2>3, <2>5, <2>6, <2>7, <3>2, <4>1 DEF ListOK
      <4>2. CASE slotCur[k] # p
        <5>1. slotCur[k] # NoPipe /\ slotCur[k] \in ToSet(left)
          BY <2>1, <2>2, <4>2, ToSetFacts DEF ListOK
        <5> QED
          BY <2>2, <2>5, <2>6, <2>7, <3>2, <4>2, <5>1 DEF ListOK
      <4> QED
        BY <4>1, <4>2
    <3> QED
      BY <3>1, <3>2
  <2>9. pipes[k] # <<>> /\ current \in Slots /\ current <= k /\ pipes[current] # <<>>
    BY <2>1, ToSetFacts DEF BestSlot
  <2>10. BestSlot(pipes', current') /\ current' \in Slots \cup {-1}
    <3>1. CASE slotCur[k] = p /\ current = k
      <4>1. \A j \in Slots : pipes'[j] # <<>> => k <= j
        BY <2>5, <2>9, <3>1, SlotsAreNats DEF BestSlot
      <4>2. current' = FirstSlot(pipes', k)
        BY <2>4, <3>1
      <4> QED
        BY <2>5, <4>1, <4>2, FirstSlotIsBest
    <3>2. CASE slotCur[k] = p /\ current # k
      <4>1. current' = current /\ pipes'[current] # <<>>
        BY <2>4, <2>5, <2>9, <3>2
      <4>2. \A j \in Slots : pipes'[j] # <<>> => pipes[j] # <<>>
        BY <2>5, <2>9
      <4> QED
        BY <2>9, <4>1, <4>2, SlotsAreNats DEF BestSlot
    <3>3. CASE slotCur[k] # p
      <4>1. left # <<>>
        BY <2>1, <2>2, <3>3, ToSetFacts DEF ListOK
      <4>2. \A j \in Slots : pipes'[j] # <<>> <=> pipes[j] # <<>>
        BY <2>5, <2>9, <4>1
      <4> QED
        BY <2>4, <2>9, <3>3, <4>2, SlotsAreNats DEF BestSlot
    <3> QED
      BY <3>1, <3>2, <3>3
  <2>11. turn' \in Pipes \cup {NoPipe}
    BY <2>4
  <2> QED
    BY <1>1, <2>5, <2>6, <2>8, <2>10, <2>11 DEF TypeOK
<1> QED
  BY <1>5, <1>6

(* A pipe becomes ready: it was in no list. *)
LEMMA ActivateIInv == ASSUME IInv, NEW p \in Pipes, Activate(p) PROVE IInv'
<1> USE DEF IInv
<1>1. PICK k \in Slots : k = priority[p]
  BY SlotsAreNats DEF Activate, TypeOK, Slots
<1>2. p \notin ToSet(pipes[k]) /\ pipes[k] \in Seq(Pipes) /\ NoRepeats(pipes[k])
  BY <1>1, SlotsAreNats DEF Activate, Active, TypeOK, ListOK
<1> DEFINE more == Append(pipes[k], p)
<1>3. /\ more \in Seq(Pipes) /\ NoRepeats(more) /\ more # <<>>
      /\ ToSet(more) = ToSet(pipes[k]) \cup {p}
  BY <1>2, AppendSet
<1>4. /\ pipes' = [pipes EXCEPT ![k] = more] /\ turn' = NoPipe /\ priority' = priority
      /\ pipes[k] # <<>> => UNCHANGED <<slotCur, current>>
      /\ pipes[k] = <<>> =>
            /\ slotCur' = [slotCur EXCEPT ![k] = p]
            /\ current' = IF current = -1 \/ current > k THEN k ELSE current
  BY <1>1 DEF Activate
<1> HIDE DEF more
<1>5. /\ pipes' \in [Slots -> Seq(Pipes)] /\ pipes'[k] = more
      /\ \A m \in Slots \ {k} : pipes'[m] = pipes[m]
  BY <1>3, <1>4 DEF TypeOK
<1>6. /\ slotCur' \in [Slots -> Pipes \cup {NoPipe}]
      /\ \A m \in Slots \ {k} : slotCur'[m] = slotCur[m]
      /\ slotCur'[k] = IF pipes[k] = <<>> THEN p ELSE slotCur[k]
  BY <1>4 DEF TypeOK
<1>7. ASSUME NEW m \in Slots PROVE ListOK(pipes'[m], slotCur'[m], m, priority')
  <2>1. CASE m # k
    BY <1>4, <1>5, <1>6, <2>1
  <2>2. CASE m = k
    <3>1. \A q \in ToSet(more) : priority[q] = k
      BY <1>1, <1>3 DEF ListOK
    <3>2. slotCur'[k] # NoPipe /\ slotCur'[k] \in ToSet(more)
      BY <1>2, <1>3, <1>6, PriolistAssumption DEF ListOK
    <3> QED
      BY <1>3, <1>4, <1>5, <2>2, <3>1, <3>2 DEF ListOK
  <2> QED
    BY <2>1, <2>2
<1>8. BestSlot(pipes', current') /\ current' \in Slots \cup {-1}
  <2>1. CASE pipes[k] # <<>>
    <3>1. \A j \in Slots : pipes'[j] # <<>> <=> pipes[j] # <<>>
      BY <1>3, <1>5, <2>1
    <3> QED
      BY <1>4, <2>1, <3>1 DEF BestSlot, TypeOK
  <2>2. CASE pipes[k] = <<>>
    <3>1. \A j \in Slots : pipes'[j] # <<>> <=> j = k \/ pipes[j] # <<>>
      BY <1>3, <1>5
    <3>2. current' = IF current = -1 \/ current > k THEN k ELSE current
      BY <1>4, <2>2
    <3>3. CASE current = -1
      BY <3>1, <3>2, <3>3, SlotsAreNats DEF BestSlot
    <3>4. CASE current # -1
      <4>1. /\ current \in Slots /\ pipes[current] # <<>>
            /\ \A j \in Slots : pipes[j] # <<>> => current <= j
        BY <3>4 DEF BestSlot
      <4> QED
        BY <3>1, <3>2, <3>4, <4>1, SlotsAreNats DEF BestSlot
    <3> QED
      BY <3>3, <3>4
  <2> QED
    BY <2>1, <2>2
<1> QED
  BY <1>4, <1>5, <1>6, <1>7, <1>8 DEF TypeOK

(* The pipe that is used: the current one of the current slot, a ready     *)
(* pipe, and no slot before its own has any.                               *)
LEMMA CurrentPipe ==
    ASSUME IInv, current # -1
    PROVE  /\ current \in Slots /\ slotCur[current] \in ToSet(pipes[current])
           /\ slotCur[current] \in Pipes /\ priority[slotCur[current]] = current
           /\ \A j \in Slots : pipes[j] # <<>> => current <= j
<1>1. /\ current \in Slots /\ pipes[current] # <<>>
      /\ \A j \in Slots : pipes[j] # <<>> => current <= j
  BY DEF IInv, BestSlot
<1>2. slotCur[current] \in ToSet(pipes[current])
  BY <1>1 DEF IInv, ListOK
<1> QED
  BY <1>1, <1>2, ToSetFacts DEF IInv, ListOK, TypeOK

(* The current pipe is used and the pointers move on. *)
LEMMA UseNextIInv == ASSUME IInv, NEW release \in BOOLEAN, UseNext(release) PROVE IInv'
<1> USE DEF IInv
<1>1. PICK k \in Slots : k = current
  BY CurrentPipe DEF UseNext
<1>2. PICK p \in Pipes : p = slotCur[k]
  BY <1>1, CurrentPipe DEF UseNext
<1>3. /\ p \in ToSet(pipes[k]) /\ pipes[k] \in Seq(Pipes) /\ NoRepeats(pipes[k])
      /\ \A j \in Slots : pipes[j] # <<>> => k <= j
  BY <1>1, <1>2, CurrentPipe DEF UseNext, TypeOK, ListOK
<1>4. PICK left \in {pipes[k], Without(pipes[k], p)} :
         left = IF release THEN Without(pipes[k], p) ELSE pipes[k]
  OBVIOUS
<1>5. /\ left \in Seq(Pipes) /\ NoRepeats(left)
      /\ ToSet(left) \in SUBSET ToSet(pipes[k])
  BY <1>3, WithoutFacts
<1>6. PICK next \in Pipes \cup {NoPipe} : next = Behind(pipes[k], p, left)
  BY <1>3, BehindFacts
<1>7. /\ next = NoPipe <=> left = <<>>
      /\ next # NoPipe => next \in ToSet(left)
  BY <1>3, <1>6, BehindFacts
<1>8. /\ turn' = p /\ priority' = priority
      /\ pipes' = [pipes EXCEPT ![k] = left]
      /\ slotCur' = [slotCur EXCEPT ![k] = next]
      /\ current' = FirstSlot(pipes', k)
  BY <1>1, <1>2, <1>4, <1>6 DEF UseNext
<1>9. /\ pipes' \in [Slots -> Seq(Pipes)] /\ pipes'[k] = left
      /\ \A m \in Slots \ {k} : pipes'[m] = pipes[m]
  BY <1>5, <1>8 DEF TypeOK
<1>10. /\ slotCur' \in [Slots -> Pipes \cup {NoPipe}] /\ slotCur'[k] = next
       /\ \A m \in Slots \ {k} : slotCur'[m] = slotCur[m]
  BY <1>8 DEF TypeOK
<1>11. ASSUME NEW m \in Slots PROVE ListOK(pipes'[m], slotCur'[m], m, priority')
  <2>1. CASE m # k
    BY <1>8, <1>9, <1>10, <2>1
  <2>2. CASE m = k
    <3>1. \A q \in ToSet(left) : priority[q] = k
      BY <1>5 DEF ListOK
    <3> QED
      BY <1>5, <1>7, <1>8, <1>9, <1>10, <2>2, <3>1 DEF ListOK
  <2> QED
    BY <2>1, <2>2
<1>12. BestSlot(pipes', current') /\ current' \in Slots \cup {-1}
  <2>1. \A j \in Slots : pipes'[j] # <<>> => k <= j
    BY <1>3, <1>9, SlotsAreNats
  <2> QED
    BY <1>8, <1>9, <2>1, FirstSlotIsBest
<1> QED
  BY <1>8, <1>9, <1>10, <1>11, <1>12 DEF TypeOK

(* Every step keeps the invariant. *)
LEMMA NextIInv == IInv /\ [Next]_vars => IInv'
<1> SUFFICES ASSUME IInv, [Next]_vars PROVE IInv'
  OBVIOUS
<1>1. ASSUME NEW p \in Pipes, NEW k \in Slots, Add(p, k) PROVE IInv'
  BY <1>1, AddIInv
<1>2. ASSUME NEW p \in Pipes, Rm(p) PROVE IInv'
  BY <1>2, RmIInv
<1>3. ASSUME NEW p \in Pipes, Activate(p) PROVE IInv'
  BY <1>3, ActivateIInv
<1>4. ASSUME NEW release \in BOOLEAN, UseNext(release) PROVE IInv'
  BY <1>4, UseNextIInv
<1>5. CASE UNCHANGED vars
  BY <1>5 DEF vars, IInv, TypeOK, ListOK, BestSlot
<1> QED
  BY <1>1, <1>2, <1>3, <1>4, <1>5 DEF Next

-----------------------------------------------------------------------------
(* The pointers of the prioritised list always agree with its lists: each  *)
(* slot's current pipe is in its list and there is none only in an empty   *)
(* slot, no pipe is listed twice or in a slot that is not its own, and the *)
(* current slot is the first that has a pipe. For any number of pipes and  *)
(* slots: nn_priolist_getpipe never follows a pointer to a pipe that left. *)
THEOREM PriolistConsistent == Spec => []PointersConsistent
<1>1. IInv => PointersConsistent
  BY IInvIsPointersConsistent
<1> QED
  BY <1>1, InitIInv, NextIInv, PTL DEF Spec

(* Whenever nn_lb_send or nn_fq_recv uses a pipe, the pipe was ready and   *)
(* no ready pipe had a better priority.                                    *)
THEOREM BestReadyUsed == Spec => UsesBestReady
<1> DEFINE A == turn' # NoPipe =>
                  /\ Active(turn')
                  /\ \A p \in Pipes : Active(p) => priority[turn'] <= priority[p]
<1>1. IInv /\ [Next]_vars => [A]_vars
  <2> SUFFICES ASSUME IInv, Next PROVE A
    OBVIOUS
  <2>1. ASSUME NEW p \in Pipes, NEW k \in Slots, Add(p, k) PROVE A
    BY <2>1 DEF Add
  <2>2. ASSUME NEW p \in Pipes, Rm(p) PROVE A
    BY <2>2 DEF Rm
  <2>3. ASSUME NEW p \in Pipes, Activate(p) PROVE A
    BY <2>3 DEF Activate
  <2>4. ASSUME NEW release \in BOOLEAN, UseNext(release) PROVE A
    <3>1. current # -1 /\ turn' = slotCur[current]
      BY <2>4 DEF UseNext
    <3>2. /\ current \in Slots /\ slotCur[current] \in ToSet(pipes[current])
          /\ priority[slotCur[current]] = current
          /\ \A j \in Slots : pipes[j] # <<>> => current <= j
      BY <3>1, CurrentPipe
    <3>3. Active(turn') /\ priority[turn'] = current
      BY <3>1, <3>2, SlotsAreNats DEF Active
    <3>4. ASSUME NEW q \in Pipes, Active(q) PROVE current <= priority[q]
      <4>1. priority[q] \in Slots /\ pipes[priority[q]] \in Seq(Pipes)
        BY <3>4, SlotsAreNats DEF Active, IInv, TypeOK, Slots
      <4>2. pipes[priority[q]] # <<>>
        BY <3>4, <4>1, ToSetFacts DEF Active
      <4> QED
        BY <3>2, <4>1, <4>2
    <3> QED
      BY <3>3, <3>4
  <2> QED
    BY <2>1, <2>2, <2>3, <2>4 DEF Next
<1> QED
  BY <1>1, InitIInv, NextIInv, PTL DEF Spec, UsesBestReady
=============================================================================
