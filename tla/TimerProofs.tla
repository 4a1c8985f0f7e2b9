------------------------------ MODULE TimerProofs ------------------------------
(***************************************************************************)
(* Proofs about the timers and their worker thread, for any number of      *)
(* timers and any intervals: no assertion of timer.c fails, the list of    *)
(* deadlines is ordered and free of stopped timers, and every step is one  *)
(* that AbsTimer allows, or none that the owner sees.                      *)
(*                                                                         *)
(* The worker's copy of the task queue and the queue itself are one list   *)
(* here, Queue, from which the worker takes at one end and to which the    *)
(* owners append at the other; handing it over changes nothing. The        *)
(* invariant says, for each timer, which of its tasks are in Queue and     *)
(* whether it is in the list of deadlines or popped, by what its owner has *)
(* asked for; that a start task is before a stop task is what makes a      *)
(* stopped timer really gone.                                              *)
(***************************************************************************)
EXTENDS Timer, SequenceFacts

StartOf(t) == [timer |-> t, op |-> "start"]
StopOf(t) == [timer |-> t, op |-> "stop"]

Queue == batch \o tasks
Pending(x) == x \in ToSet(Queue)

(* A timer's stop task is never ahead of its start task. *)
StartsFirst(q) ==
    \A t \in Timers : \A i, j \in 1 .. Len(q) :
        q[i] = StartOf(t) /\ q[j] = StopOf(t) => i < j

(* The deadlines f of the timers in list s are in order. *)
Sorted(s, f) == \A i, j \in 1 .. Len(s) : i < j => f[s[i]] <= f[s[j]]

(* What the owner knows, what the timer's state is, and what is pending. *)
OwnerOK(t) ==
    /\ own[t] = "idle" <=> tstate[t] = "IDLE"
    /\ own[t] = "stopping" <=> tstate[t] = "STOPPING"
    /\ Pending(StopOf(t)) <=> tstate[t] = "STOPPING"
    /\ Pending(StartOf(t)) => own[t] \in {"running", "stopping"}

(* Where the worker has the timer. *)
Listed(t) == t \in ToSet(timeouts)
PlaceOK(t) ==
    /\ (Pending(StartOf(t)) \/ own[t] \in {"idle", "fired"}) =>
          ~Listed(t) /\ hndl # t
    /\ own[t] = "running" /\ ~Pending(StartOf(t)) => Listed(t) \/ hndl = t

(* The interval before and after the worker takes it over. *)
IntervalOK(t) ==
    /\ own[t] = "running" /\ Pending(StartOf(t)) => left[t] <= timeout[t]
    /\ own[t] = "running" /\ ~Pending(StartOf(t)) => left[t] <= due[t]
    /\ own[t] \in {"running", "fired"} /\ ~Pending(StartOf(t)) => timeout[t] = -1

QueueOK == NoRepeats(Queue) /\ StartsFirst(Queue)
ListOK == NoRepeats(timeouts) /\ Sorted(timeouts, due)

WorkerOK ==
    /\ hndl # NoTimer <=> wpc = "feed"
    /\ hndl # NoTimer => due[hndl] = 0 /\ ~Listed(hndl)
    /\ batch # <<>> => wpc = "tasks"

TermOK == Terminating => \A t \in Timers : own[t] = "idle"

IInv ==
    /\ TypeOK
    /\ \A t \in Timers : OwnerOK(t) /\ PlaceOK(t) /\ IntervalOK(t)
    /\ QueueOK
    /\ ListOK
    /\ WorkerOK
    /\ TermOK
    /\ NoFailure
-----------------------------------------------------------------------------
(* The tasks are different from each other. *)
LEMMA TaskFacts ==
    /\ Quit \in Tasks
    /\ \A t \in Timers : /\ StartOf(t) \in Tasks /\ StopOf(t) \in Tasks
                         /\ StartOf(t) # Quit /\ StopOf(t) # Quit
                         /\ t # NoTimer
    /\ \A t, u \in Timers : /\ StartOf(t) # StopOf(u)
                            /\ StartOf(t) = StartOf(u) => t = u
                            /\ StopOf(t) = StopOf(u) => t = u
    /\ \A x \in Tasks : \/ x = Quit
                        \/ \E t \in Timers : x = StartOf(t) \/ x = StopOf(t)
  BY TimerAssumption DEF Quit, Tasks, StartOf, StopOf

(* The queue is a list of tasks, and what is in it is in the worker's copy *)
(* or in the rest.                                                         *)
QueueFacts ==
    /\ Queue \in Seq(Tasks)
    /\ \A x : Pending(x) <=> x \in ToSet(tasks) \cup ToSet(batch)
    /\ Terminating <=> Pending(Quit) \/ wpc = "done"

LEMMA QueueType == TypeOK => QueueFacts
<1>1. SUFFICES ASSUME TypeOK PROVE QueueFacts
  OBVIOUS
<1>2. tasks \in Seq(Tasks) /\ batch \in Seq(Tasks)
  BY <1>1 DEF TypeOK
<1>3. Queue \in Seq(Tasks) /\ ToSet(Queue) = ToSet(batch) \cup ToSet(tasks)
  BY <1>2, ConcatFacts, ConcatSet DEF Queue
<1> QED
  BY <1>3 DEF QueueFacts, Pending, Terminating

LEMMA QueueTypeNext == TypeOK' => QueueFacts'
  BY QueueType, PTL

(* An owner appends a task that is not pending yet. *)
LEMMA AppendToQueue ==
    ASSUME TypeOK, QueueOK, NEW x \in Tasks, ~Pending(x),
           batch' = batch, tasks' = Append(tasks, x)
    PROVE  /\ tasks' \in Seq(Tasks)
           /\ NoRepeats(Queue')
           /\ ToSet(Queue') = ToSet(Queue) \cup {x}
           /\ (\A t \in Timers : x = StartOf(t) => ~Pending(StopOf(t)))
                => StartsFirst(Queue')
<1>1. tasks \in Seq(Tasks) /\ batch \in Seq(Tasks) /\ Queue \in Seq(Tasks)
  BY QueueType DEF TypeOK, QueueFacts
<1>2. Queue' = Append(Queue, x) /\ tasks' \in Seq(Tasks)
  BY <1>1, ConcatAppend, AppendProperties DEF Queue
<1>3. PICK q \in Seq(Tasks) : q = Queue
  BY <1>1
<1>4. NoRepeats(q) /\ x \notin ToSet(q) /\ StartsFirst(q)
  BY <1>3 DEF QueueOK, Pending
<1>5. NoRepeats(Append(q, x)) /\ ToSet(Append(q, x)) = ToSet(q) \cup {x}
  BY <1>4, AppendSet
<1>6. ASSUME \A t \in Timers : x = StartOf(t) => ~Pending(StopOf(t))
      PROVE  StartsFirst(Append(q, x))
  <2>1. SUFFICES ASSUME NEW t \in Timers,
                        NEW i \in 1 .. Len(Append(q, x)), NEW j \in 1 .. Len(Append(q, x)),
                        Append(q, x)[i] = StartOf(t), Append(q, x)[j] = StopOf(t)
                 PROVE  i < j
    BY DEF StartsFirst
  <2>2. /\ Len(q) \in Nat /\ Len(Append(q, x)) = Len(q) + 1
        /\ \A m \in 1 .. Len(q) : Append(q, x)[m] = q[m]
        /\ Append(q, x)[Len(q) + 1] = x
        /\ DOMAIN q = 1 .. Len(q)
    BY LenProperties, AppendProperties
  <2>3. CASE i \in 1 .. Len(q) /\ j \in 1 .. Len(q)
    BY <1>4, <2>1, <2>2, <2>3 DEF StartsFirst
  <2>4. CASE j = Len(q) + 1
    <3>1. StartOf(t) # StopOf(t)
      BY TaskFacts
    <3>2. i # j
      BY <2>1, <3>1
    <3> QED
      BY <2>2, <2>4, <3>2
  <2>5. CASE i = Len(q) + 1 /\ j \in 1 .. Len(q)
    <3>1. x = StartOf(t) /\ q[j] = StopOf(t)
      BY <2>1, <2>2, <2>5
    <3>2. StopOf(t) \in ToSet(q)
      BY <2>2, <2>5, <3>1 DEF ToSet
    <3> QED
      BY <1>3, <1>6, <3>1, <3>2 DEF Pending
  <2> QED
    BY <2>2, <2>3, <2>4, <2>5
<1> QED
  BY <1>2, <1>3, <1>5, <1>6

(* The worker takes the first task. *)
LEMMA TakeFromQueue ==
    ASSUME TypeOK, QueueOK, batch # <<>>, batch' = Tail(batch), tasks' = tasks
    PROVE  /\ batch' \in Seq(Tasks) /\ Head(batch) \in Tasks
           /\ NoRepeats(Queue') /\ StartsFirst(Queue')
           /\ ToSet(Queue') = ToSet(Queue) \ {Head(batch)}
           /\ Pending(Head(batch))
           /\ \A t \in Timers : Head(batch) = StopOf(t) => ~Pending(StartOf(t))
<1>1. tasks \in Seq(Tasks) /\ batch \in Seq(Tasks)
  BY DEF TypeOK
<1>2. PICK q \in Seq(Tasks) : q = Queue
  BY QueueType DEF QueueFacts
<1>3. q # <<>> /\ Head(q) = Head(batch) /\ Queue' = Tail(q)
  BY <1>1, <1>2, ConcatTail DEF Queue
<1>4. batch' \in Seq(Tasks) /\ Head(batch) \in Tasks
  BY <1>1, TailFacts
<1>5. NoRepeats(q) /\ StartsFirst(q)
  BY <1>2 DEF QueueOK
<1>6. /\ NoRepeats(Tail(q)) /\ ToSet(Tail(q)) = ToSet(q) \ {Head(q)}
      /\ Head(q) \in ToSet(q)
  BY <1>3, <1>5, TailSet
<1>7. /\ Head(q) = q[1] /\ Len(q) \in Nat \ {0} /\ Len(Tail(q)) = Len(q) - 1
      /\ \A j \in 1 .. Len(q) - 1 : Tail(q)[j] = q[j + 1]
      /\ DOMAIN q = 1 .. Len(q)
  BY <1>3, TailFacts, LenProperties
<1>8. StartsFirst(Tail(q))
  <2>1. SUFFICES ASSUME NEW t \in Timers,
                        NEW i \in 1 .. Len(Tail(q)), NEW j \in 1 .. Len(Tail(q)),
                        Tail(q)[i] = StartOf(t), Tail(q)[j] = StopOf(t)
                 PROVE  i < j
    BY DEF StartsFirst
  <2>2. /\ i + 1 \in 1 .. Len(q) /\ j + 1 \in 1 .. Len(q)
        /\ q[i + 1] = StartOf(t) /\ q[j + 1] = StopOf(t)
    BY <1>7, <2>1
  <2>3. i + 1 < j + 1
    BY <1>5, <2>2 DEF StartsFirst
  <2> QED
    BY <1>7, <2>3
<1>9. ASSUME NEW t \in Timers, Head(q) = StopOf(t) PROVE StartOf(t) \notin ToSet(q)
  <2>1. SUFFICES ASSUME StartOf(t) \in ToSet(q) PROVE FALSE
    OBVIOUS
  <2>2. PICK i \in 1 .. Len(q) : q[i] = StartOf(t)
    BY <1>7, <2>1 DEF ToSet
  <2>3. 1 \in 1 .. Len(q) /\ q[1] = StopOf(t)
    BY <1>7, <1>9
  <2>4. i < 1
    BY <1>5, <2>2, <2>3 DEF StartsFirst
  <2> QED
    BY <1>7, <2>4
<1> QED
  BY <1>2, <1>3, <1>4, <1>6, <1>8, <1>9 DEF Pending

-----------------------------------------------------------------------------
(* The ordered list of deadlines. *)

(* Insert keeps the order and the others. *)
LEMMA InsertFacts ==
    ASSUME TypeOK, ListOK, NEW t \in Timers, NEW d \in 0 .. MaxTimeout, ~Listed(t)
    PROVE  /\ Insert(t, d) \in Seq(Timers)
           /\ NoRepeats(Insert(t, d))
           /\ ToSet(Insert(t, d)) = ToSet(timeouts) \cup {t}
           /\ Sorted(Insert(t, d), [due EXCEPT ![t] = d])
<1>1. PICK s \in Seq(Timers) : s = timeouts
  BY DEF TypeOK
<1>2. /\ NoRepeats(s) /\ Sorted(s, due) /\ t \notin ToSet(s)
      /\ due \in [Timers -> 0 .. MaxTimeout] /\ MaxTimeout \in Nat
  BY <1>1, AbsTimerAssumption DEF ListOK, Listed, TypeOK
<1>3. Len(s) \in Nat /\ DOMAIN s = 1 .. Len(s) /\ \A j \in 1 .. Len(s) : s[j] \in Timers
  BY LenProperties, ElementOfSeq
<1> DEFINE later == {i \in 1 .. Len(s) : d < due[s[i]]}
           i == Min(later \cup {Len(s) + 1})
           r == InsertAt(s, i, t)
           f == [due EXCEPT ![t] = d]
<1>4. i \in later \cup {Len(s) + 1} /\ \A j \in later \cup {Len(s) + 1} : i <= j
  <2>1. later \cup {Len(s) + 1} \in SUBSET Nat
    BY <1>3
  <2> QED
    BY <2>1, MinOfNats
<1>5. Insert(t, d) = r
  BY <1>1 DEF Insert
<1>6. i \in 1 .. Len(s) + 1 /\ i \in Nat
  BY <1>3, <1>4
<1>7. \A j \in 1 .. Len(s) : j < i => due[s[j]] <= d
  <2>1. SUFFICES ASSUME NEW j \in 1 .. Len(s), j < i PROVE due[s[j]] <= d
    OBVIOUS
  <2>2. j \notin later
    BY <1>3, <1>4, <1>6, <2>1
  <2> QED
    BY <1>2, <1>3, <2>2
<1>8. \A j \in 1 .. Len(s) : j >= i => d <= due[s[j]]
  <2>1. SUFFICES ASSUME NEW j \in 1 .. Len(s), j >= i PROVE d <= due[s[j]]
    OBVIOUS
  <2>2. i \in later
    BY <1>3, <1>4, <1>6, <2>1
  <2>3. i \in 1 .. Len(s) /\ d < due[s[i]] /\ due[s[i]] \in Nat /\ due[s[j]] \in Nat
    BY <1>2, <1>3, <2>2
  <2>4. i = j \/ i < j
    BY <1>6, <2>1
  <2>5. due[s[i]] <= due[s[j]]
    BY <1>2, <2>3, <2>4 DEF Sorted
  <2> QED
    BY <2>3, <2>5
<1> HIDE DEF i, later
<1>9. /\ r \in Seq(Timers) /\ NoRepeats(r) /\ ToSet(r) = ToSet(s) \cup {t}
      /\ Len(r) = Len(s) + 1
      /\ \A j \in 1 .. i - 1 : r[j] = s[j]
      /\ r[i] = t
      /\ \A j \in i .. Len(s) : r[j + 1] = s[j]
  BY <1>2, <1>6, InsertAtSet, InsertAtFacts
<1>10. \A j \in 1 .. Len(s) : s[j] # t
  BY <1>2, <1>3 DEF ToSet
<1> HIDE DEF r
<1>11. ASSUME NEW j \in 1 .. Len(r)
       PROVE  \/ j < i /\ j \in 1 .. Len(s) /\ r[j] = s[j] /\ f[r[j]] = due[s[j]]
              \/ j = i /\ f[r[j]] = d
              \/ j > i /\ j - 1 \in 1 .. Len(s) /\ f[r[j]] = due[s[j - 1]]
  <2>1. CASE j < i
    <3>1. j \in 1 .. i - 1 /\ j \in 1 .. Len(s)
      BY <1>3, <1>6, <2>1
    <3> QED
      BY <1>2, <1>3, <1>9, <1>10, <2>1, <3>1
  <2>2. CASE j = i
    BY <1>2, <1>9, <2>2
  <2>3. CASE j > i
    <3>1. PICK m \in i .. Len(s) : m = j - 1 /\ m + 1 = j /\ m \in 1 .. Len(s)
      BY <1>3, <1>6, <1>9, <2>3
    <3>2. r[j] = s[m]
      BY <1>9, <3>1
    <3> QED
      BY <1>2, <1>3, <1>10, <2>3, <3>1, <3>2
  <2> QED
    BY <1>3, <1>6, <1>9, <2>1, <2>2, <2>3
<1>12. Sorted(r, f)
  <2>1. SUFFICES ASSUME NEW j \in 1 .. Len(r), NEW m \in 1 .. Len(r), j < m
                 PROVE  f[r[j]] <= f[r[m]]
    BY DEF Sorted
  <2>2. j \in Nat /\ m \in Nat /\ d \in Nat
    BY <1>2, <1>3, <1>9
  <2>3. \A n \in 1 .. Len(s) : due[s[n]] \in Nat
    BY <1>2, <1>3
  <2>4. CASE m < i
    <3>1. f[r[j]] = due[s[j]] /\ f[r[m]] = due[s[m]] /\ j \in 1 .. Len(s) /\ m \in 1 .. Len(s)
      BY <1>6, <1>11, <2>1, <2>2, <2>4
    <3> QED
      BY <1>2, <2>1, <3>1 DEF Sorted
  <2>5. CASE m = i
    <3>1. f[r[j]] = due[s[j]] /\ f[r[m]] = d /\ j \in 1 .. Len(s) /\ j < i
      BY <1>6, <1>11, <2>1, <2>2, <2>5
    <3> QED
      BY <1>7, <3>1
  <2>6. CASE m > i
    <3>1. PICK n \in 1 .. Len(s) : n = m - 1 /\ f[r[m]] = due[s[n]] /\ n >= i
      BY <1>6, <1>11, <2>2, <2>6
    <3>2. d <= due[s[n]]
      BY <1>8, <3>1
    <3>3. CASE j < i
      <4>1. f[r[j]] = due[s[j]] /\ j \in 1 .. Len(s) /\ due[s[j]] <= d
        BY <1>6, <1>7, <1>11, <2>2, <3>3
      <4> QED
        BY <2>2, <2>3, <3>1, <3>2, <4>1
    <3>4. CASE j = i
      BY <1>6, <1>11, <2>2, <3>1, <3>2, <3>4
    <3>5. CASE j > i
      <4>0. j - 1 \in 1 .. Len(s) /\ f[r[j]] = due[s[j - 1]]
        <5>1. ~(j < i) /\ ~(j = i)
          BY <1>6, <2>2, <3>5
        <5> QED
          BY <1>11, <5>1
      <4>1. PICK o \in 1 .. Len(s) : o = j - 1 /\ f[r[j]] = due[s[o]]
        BY <4>0
      <4>2. o < n
        BY <2>1, <2>2, <3>1, <4>1
      <4> QED
        BY <1>2, <3>1, <4>1, <4>2 DEF Sorted
    <3> QED
      BY <1>6, <2>2, <3>3, <3>4, <3>5
  <2> QED
    BY <1>6, <2>2, <2>4, <2>5, <2>6
<1> QED
  BY <1>1, <1>5, <1>9, <1>12

(* nn_timerset_rm keeps the order and the others. *)
LEMMA WithoutFacts ==
    ASSUME TypeOK, ListOK, NEW t \in Timers
    PROVE  /\ Without(t) \in Seq(Timers)
           /\ NoRepeats(Without(t))
           /\ ToSet(Without(t)) = ToSet(timeouts) \ {t}
           /\ Sorted(Without(t), due)
<1>1. PICK s \in Seq(Timers) : s = timeouts
  BY DEF TypeOK
<1>2. NoRepeats(s) /\ Sorted(s, due)
  BY <1>1 DEF ListOK
<1>3. Len(s) \in Nat /\ DOMAIN s = 1 .. Len(s)
  BY LenProperties
<1>4. CASE t \notin ToSet(s)
  BY <1>1, <1>2, <1>4 DEF Without
<1>5. CASE t \in ToSet(s)
  <2> DEFINE i == CHOOSE m \in 1 .. Len(s) : s[m] = t
             r == RemoveAt(s, i)
  <2>1. i \in 1 .. Len(s) /\ s[i] = t
    BY <1>3, <1>5 DEF ToSet
  <2>2. Without(t) = r
    BY <1>1, <1>5 DEF Without
  <2> HIDE DEF i
  <2>3. r \in Seq(Timers) /\ NoRepeats(r) /\ ToSet(r) = ToSet(s) \ {t}
    BY <1>2, <2>1, RemoveAtSet
  <2>4. /\ Len(r) = Len(s) - 1
        /\ \A j \in 1 .. Len(r) :
              \/ j < i /\ r[j] = s[j]
              \/ j >= i /\ j + 1 \in 1 .. Len(s) /\ r[j] = s[j + 1]
    BY <2>1, RemoveAtFacts, RemoveAtOrigin
  <2> HIDE DEF r
  <2>5. Sorted(r, due)
    <3>1. SUFFICES ASSUME NEW j \in 1 .. Len(r), NEW m \in 1 .. Len(r), j < m
                   PROVE  due[r[j]] <= due[r[m]]
      BY DEF Sorted
    <3>i. j \in 1 .. Len(s) /\ m \in 1 .. Len(s)
      BY <1>3, <2>4
    <3>2. PICK a \in 1 .. Len(s) : r[j] = s[a] /\ ((j < i /\ a = j) \/ (j >= i /\ a = j + 1))
      BY <2>4, <3>i
    <3>3. PICK b \in 1 .. Len(s) : r[m] = s[b] /\ ((m < i /\ b = m) \/ (m >= i /\ b = m + 1))
      BY <2>4, <3>i
    <3>4. a < b
      BY <1>3, <2>1, <2>4, <3>1, <3>2, <3>3
    <3> QED
      BY <1>2, <3>2, <3>3, <3>4 DEF Sorted
  <2> QED
    BY <1>1, <2>2, <2>3, <2>5
<1> QED
  BY <1>4, <1>5

(* Popping the first deadline keeps the order and the others. *)
LEMMA PopFacts ==
    ASSUME TypeOK, ListOK, timeouts # <<>>
    PROVE  /\ Tail(timeouts) \in Seq(Timers)
           /\ NoRepeats(Tail(timeouts))
           /\ ToSet(Tail(timeouts)) = ToSet(timeouts) \ {Head(timeouts)}
           /\ Head(timeouts) \in ToSet(timeouts) /\ Head(timeouts) \in Timers
           /\ Sorted(Tail(timeouts), due)
<1>1. PICK s \in Seq(Timers) : s = timeouts /\ s # <<>>
  BY DEF TypeOK
<1>2. NoRepeats(s) /\ Sorted(s, due)
  BY <1>1 DEF ListOK
<1>3. /\ Len(s) \in Nat \ {0} /\ Len(Tail(s)) = Len(s) - 1 /\ Head(s) \in Timers
      /\ \A j \in 1 .. Len(s) - 1 : Tail(s)[j] = s[j + 1]
  BY <1>1, TailFacts
<1>4. Sorted(Tail(s), due)
  <2>1. SUFFICES ASSUME NEW i \in 1 .. Len(Tail(s)), NEW j \in 1 .. Len(Tail(s)), i < j
                 PROVE  due[Tail(s)[i]] <= due[Tail(s)[j]]
    BY DEF Sorted
  <2>2. /\ i + 1 \in 1 .. Len(s) /\ j + 1 \in 1 .. Len(s) /\ i + 1 < j + 1
        /\ Tail(s)[i] = s[i + 1] /\ Tail(s)[j] = s[j + 1]
    BY <1>3, <2>1
  <2> QED
    BY <1>2, <2>2 DEF Sorted
<1> QED
  BY <1>1, <1>2, <1>3, <1>4, TailSet
-----------------------------------------------------------------------------
(* The owners' steps. *)

LEMMA InitIInv == Init => IInv
<1>1. SUFFICES ASSUME Init PROVE IInv
  OBVIOUS
<1>2. TypeOK
  <2>1. 0 \in 0 .. MaxTimeout /\ -1 \in -1 .. MaxTimeout
    BY AbsTimerAssumption
  <2>2. AbsTypeOK
    BY <1>1, <2>1 DEF Init, AbsInit, AbsTypeOK, OwnStates
  <2>3. timeout \in [Timers -> -1 .. MaxTimeout] /\ due \in [Timers -> 0 .. MaxTimeout]
    BY <1>1, <2>1 DEF Init
  <2>4. tasks \in Seq(Tasks) /\ timeouts \in Seq(Timers) /\ batch \in Seq(Tasks)
    BY <1>1 DEF Init
  <2>5. /\ efd \in BOOLEAN /\ events \in BOOLEAN /\ failed \in BOOLEAN
        /\ hndl \in Timers \cup {NoTimer}
        /\ wpc \in {"wait", "timers", "feed", "poll", "tasks", "done"}
    BY <1>1 DEF Init
  <2>6. tstate \in [Timers -> {"IDLE", "ACTIVE", "STOPPING"}]
    BY <1>1 DEF Init
  <2> QED
    BY <2>2, <2>3, <2>4, <2>5, <2>6 DEF TypeOK
<1>3. /\ Queue = <<>> /\ ToSet(<<>>) = {} /\ Len(<<>>) = 0
      /\ timeouts = <<>> /\ batch = <<>> /\ tasks = <<>>
  BY <1>1 DEF Init, Queue, ToSet
<1>4. QueueOK /\ ListOK
  BY <1>3 DEF QueueOK, ListOK, NoRepeats, StartsFirst, Sorted
<1>5. \A t \in Timers : OwnerOK(t) /\ PlaceOK(t) /\ IntervalOK(t)
  BY <1>1, <1>3, TaskFacts
     DEF Init, AbsInit, OwnerOK, PlaceOK, IntervalOK, Pending, Listed
<1>6. WorkerOK /\ TermOK /\ NoFailure
  BY <1>1, <1>3 DEF Init, AbsInit, WorkerOK, TermOK, NoFailure
<1> QED
  BY <1>2, <1>4, <1>5, <1>6 DEF IInv

LEMMA StartIInv ==
    ASSUME IInv, NEW t \in Timers, NEW d \in 0 .. MaxTimeout, Start(t, d)
    PROVE  IInv'
<1> USE DEF IInv
<1>1. /\ own[t] = "idle" /\ tstate[t] = "IDLE" /\ ~Pending(StartOf(t)) /\ ~Pending(StopOf(t))
      /\ ~Listed(t) /\ hndl # t
  BY DEF Start, AbsStart, OwnerOK, PlaceOK
<1>2. /\ own' = [own EXCEPT ![t] = "running"] /\ left' = [left EXCEPT ![t] = d]
      /\ timeout' = [timeout EXCEPT ![t] = d] /\ tstate' = [tstate EXCEPT ![t] = "ACTIVE"]
      /\ tasks' = Append(tasks, StartOf(t)) /\ efd' = TRUE
      /\ UNCHANGED <<timeouts, due, wpc, events, batch, hndl>>
  BY DEF Start, AbsStart, Execute, StartOf, workerVars
<1>3. /\ tasks' \in Seq(Tasks) /\ NoRepeats(Queue') /\ StartsFirst(Queue')
      /\ ToSet(Queue') = ToSet(Queue) \cup {StartOf(t)}
  <2>1. \A u \in Timers : StartOf(t) = StartOf(u) => ~Pending(StopOf(u))
    BY <1>1, TaskFacts
  <2> QED
    BY <1>1, <1>2, <2>1, TaskFacts, AppendToQueue
<1>4. ~failed /\ failed' = FALSE
  <2>1. StartOf(t) \notin ToSet(tasks) \cup ToSet(batch)
    BY <1>1, QueueType DEF QueueFacts
  <2> QED
    BY <1>1, <2>1 DEF Start, Execute, Fails, StartOf, NoFailure
<1>5. TypeOK'
  <2>1. d \in -1 .. MaxTimeout
    BY AbsTimerAssumption
  <2>2. timeout' \in [Timers -> -1 .. MaxTimeout]
    BY <1>2, <2>1 DEF TypeOK
  <2>3. AbsTypeOK'
    BY <1>2 DEF TypeOK, AbsTypeOK, OwnStates
  <2> QED
    BY <1>2, <1>3, <1>4, <2>2, <2>3 DEF TypeOK
<1>6. ASSUME NEW u \in Timers PROVE OwnerOK(u)' /\ PlaceOK(u)' /\ IntervalOK(u)'
  <2>1. CASE u = t
    <3>1. Pending(StartOf(t))' /\ ~Pending(StopOf(t))'
      BY <1>1, <1>3, TaskFacts DEF Pending
    <3>2. own'[t] = "running" /\ left'[t] = d /\ timeout'[t] = d /\ tstate'[t] = "ACTIVE"
      BY <1>2 DEF TypeOK, AbsTypeOK
    <3> QED
      BY <1>1, <1>2, <2>1, <3>1, <3>2, AbsTimerAssumption
         DEF OwnerOK, PlaceOK, IntervalOK, Listed
  <2>2. CASE u # t
    <3>1. /\ Pending(StartOf(u))' <=> Pending(StartOf(u))
          /\ Pending(StopOf(u))' <=> Pending(StopOf(u))
      BY <1>3, <2>2, TaskFacts DEF Pending
    <3>2. /\ own'[u] = own[u] /\ left'[u] = left[u] /\ timeout'[u] = timeout[u]
          /\ tstate'[u] = tstate[u]
      BY <1>2, <2>2 DEF TypeOK, AbsTypeOK
    <3> QED
      BY <1>2, <3>1, <3>2 DEF OwnerOK, PlaceOK, IntervalOK, Listed
  <2> QED
    BY <2>1, <2>2
<1>7. WorkerOK' /\ ListOK'
  BY <1>2 DEF WorkerOK, ListOK, Listed
<1>8. TermOK'
  <2>1. ~Pending(Quit)' /\ wpc' # "done"
    BY <1>2, <1>3, QueueType, TaskFacts DEF Start, QueueFacts, Pending
  <2> QED
    BY <1>5, <2>1, QueueTypeNext DEF QueueFacts, TermOK
<1> QED
  BY <1>3, <1>4, <1>5, <1>6, <1>7, <1>8 DEF QueueOK, NoFailure

LEMMA StopIInv ==
    ASSUME IInv, NEW t \in Timers, Stop(t)
    PROVE  IInv'
<1> USE DEF IInv
<1>1. /\ own[t] \in {"running", "fired"} /\ tstate[t] = "ACTIVE" /\ ~Pending(StopOf(t))
  BY DEF Stop, AbsStop, OwnerOK, TypeOK
<1>2. /\ own' = [own EXCEPT ![t] = "stopping"] /\ left' = left
      /\ timeout' = timeout /\ tstate' = [tstate EXCEPT ![t] = "STOPPING"]
      /\ tasks' = Append(tasks, StopOf(t)) /\ efd' = TRUE
      /\ UNCHANGED <<timeouts, due, wpc, events, batch, hndl>>
  BY <1>1 DEF Stop, AbsStop, Execute, StopOf, workerVars
<1>3. /\ tasks' \in Seq(Tasks) /\ NoRepeats(Queue') /\ StartsFirst(Queue')
      /\ ToSet(Queue') = ToSet(Queue) \cup {StopOf(t)}
  <2>1. \A u \in Timers : StopOf(t) = StartOf(u) => ~Pending(StopOf(u))
    BY TaskFacts
  <2> QED
    BY <1>1, <1>2, <2>1, TaskFacts, AppendToQueue
<1>4. ~failed /\ failed' = FALSE
  <2>1. StopOf(t) \notin ToSet(tasks) \cup ToSet(batch)
    BY <1>1, QueueType DEF QueueFacts
  <2> QED
    BY <1>1, <2>1 DEF Stop, Execute, Fails, StopOf, NoFailure
<1>5. TypeOK'
  BY <1>2, <1>3, <1>4, AbsTimerAssumption DEF TypeOK, AbsTypeOK, OwnStates
<1>6. ASSUME NEW u \in Timers PROVE OwnerOK(u)' /\ PlaceOK(u)' /\ IntervalOK(u)'
  <2>1. CASE u = t
    <3>1. (Pending(StartOf(t))' <=> Pending(StartOf(t))) /\ Pending(StopOf(t))'
      BY <1>1, <1>3, TaskFacts DEF Pending
    <3>2. own'[t] = "stopping" /\ tstate'[t] = "STOPPING"
      BY <1>2 DEF TypeOK, AbsTypeOK
    <3> QED
      BY <1>1, <1>2, <2>1, <3>1, <3>2 DEF OwnerOK, PlaceOK, IntervalOK, Listed
  <2>2. CASE u # t
    <3>1. /\ Pending(StartOf(u))' <=> Pending(StartOf(u))
          /\ Pending(StopOf(u))' <=> Pending(StopOf(u))
      BY <1>3, <2>2, TaskFacts DEF Pending
    <3>2. own'[u] = own[u] /\ tstate'[u] = tstate[u]
      BY <1>2, <2>2 DEF TypeOK, AbsTypeOK
    <3> QED
      BY <1>2, <3>1, <3>2 DEF OwnerOK, PlaceOK, IntervalOK, Listed
  <2> QED
    BY <2>1, <2>2
<1>7. WorkerOK' /\ ListOK'
  BY <1>2 DEF WorkerOK, ListOK, Listed
<1>8. TermOK'
  <2>1. ~Terminating
    BY <1>1 DEF TermOK
  <2>2. ~Pending(Quit)' /\ wpc' # "done"
    BY <1>2, <1>3, <2>1, QueueType, TaskFacts DEF QueueFacts, Pending
  <2> QED
    BY <1>5, <2>2, QueueTypeNext DEF QueueFacts, TermOK
<1> QED
  BY <1>3, <1>4, <1>5, <1>6, <1>7, <1>8 DEF QueueOK, NoFailure

LEMMA TermIInv ==
    ASSUME IInv, Term
    PROVE  IInv'
<1> USE DEF IInv
<1>1. ~Pending(Quit) /\ \A t \in Timers : own[t] = "idle"
  BY QueueType DEF Term, QueueFacts
<1>2. /\ tasks' = Append(tasks, Quit) /\ efd' = TRUE
      /\ UNCHANGED <<own, left, tstate, timeout, timeouts, due, wpc, events, batch, hndl>>
  BY DEF Term, Execute, workerVars
<1>3. /\ tasks' \in Seq(Tasks) /\ NoRepeats(Queue') /\ StartsFirst(Queue')
      /\ ToSet(Queue') = ToSet(Queue) \cup {Quit}
  <2>1. \A u \in Timers : Quit = StartOf(u) => ~Pending(StopOf(u))
    BY TaskFacts
  <2> QED
    BY <1>1, <1>2, <2>1, TaskFacts, AppendToQueue
<1>4. ~failed /\ failed' = FALSE
  <2>1. Quit \notin ToSet(tasks) \cup ToSet(batch)
    BY <1>1, QueueType DEF QueueFacts
  <2> QED
    BY <1>1, <2>1 DEF Term, Execute, Fails, NoFailure
<1>5. TypeOK'
  BY <1>2, <1>3, <1>4 DEF TypeOK, AbsTypeOK
<1>6. ASSUME NEW u \in Timers PROVE OwnerOK(u)' /\ PlaceOK(u)' /\ IntervalOK(u)'
  <2>1. /\ Pending(StartOf(u))' <=> Pending(StartOf(u))
        /\ Pending(StopOf(u))' <=> Pending(StopOf(u))
    BY <1>3, TaskFacts DEF Pending
  <2> QED
    BY <1>2, <2>1 DEF OwnerOK, PlaceOK, IntervalOK, Listed
<1>7. WorkerOK' /\ ListOK' /\ TermOK'
  BY <1>1, <1>2 DEF WorkerOK, ListOK, Listed, TermOK
<1> QED
  BY <1>3, <1>4, <1>5, <1>6, <1>7 DEF QueueOK, NoFailure

(* The clock brings every deadline and what the owner knows of it closer   *)
(* by the same step.                                                       *)
LEMMA ElapseFacts ==
    ASSUME NEW f \in [Timers -> 0 .. MaxTimeout]
    PROVE  /\ Elapse(f) \in [Timers -> 0 .. MaxTimeout]
           /\ \A t \in Timers : /\ Elapse(f)[t] <= f[t]
                                /\ f[t] = 0 => Elapse(f)[t] = 0
                                /\ Elapse(f)[t] = IF f[t] = 0 THEN 0 ELSE f[t] - 1
  BY AbsTimerAssumption DEF Elapse

LEMMA TickIInv ==
    ASSUME IInv, Tick
    PROVE  IInv'
<1> USE DEF IInv
<1>1. /\ left' = Elapse(left) /\ due' = Elapse(due)
      /\ UNCHANGED <<own, tstate, timeout, tasks, efd, timeouts, wpc, events, batch,
                     hndl, failed>>
  BY DEF Tick, AbsTick
<1>2. left \in [Timers -> 0 .. MaxTimeout] /\ due \in [Timers -> 0 .. MaxTimeout]
  BY DEF TypeOK, AbsTypeOK
<1>3. TypeOK'
  BY <1>1, <1>2, ElapseFacts DEF TypeOK, AbsTypeOK
<1>4. Queue' = Queue
  BY <1>1 DEF Queue
<1>5. ASSUME NEW u \in Timers PROVE OwnerOK(u)' /\ PlaceOK(u)' /\ IntervalOK(u)'
  <2>1. OwnerOK(u)' /\ PlaceOK(u)'
    BY <1>1, <1>4 DEF OwnerOK, PlaceOK, Pending, Listed
  <2>2. /\ left[u] \in Nat /\ due[u] \in Nat /\ timeout[u] \in Int
        /\ left'[u] = IF left[u] = 0 THEN 0 ELSE left[u] - 1
        /\ due'[u] = IF due[u] = 0 THEN 0 ELSE due[u] - 1
    <3>1. left[u] \in 0 .. MaxTimeout /\ due[u] \in 0 .. MaxTimeout /\ timeout[u] \in -1 .. MaxTimeout
      BY <1>2 DEF TypeOK
    <3>2. left[u] \in Nat /\ due[u] \in Nat /\ timeout[u] \in Int
      BY <3>1, AbsTimerAssumption
    <3> QED
      BY <1>1, <1>2, <3>2, ElapseFacts
  <2>3. left[u] <= due[u] => left'[u] <= due'[u]
    BY <2>2
  <2>4. left[u] <= timeout[u] => left'[u] <= timeout[u]
    BY <2>2
  <2> QED
    BY <1>1, <1>4, <2>1, <2>3, <2>4 DEF IntervalOK, Pending
<1>6. ListOK'
  <2>1. SUFFICES ASSUME NEW i \in 1 .. Len(timeouts), NEW j \in 1 .. Len(timeouts), i < j
                 PROVE  due'[timeouts[i]] <= due'[timeouts[j]]
    BY <1>1 DEF ListOK, Sorted
  <2>2. PICK x \in Timers, y \in Timers : x = timeouts[i] /\ y = timeouts[j] /\ due[x] <= due[y]
    BY <2>1, ElementOfSeq DEF TypeOK, ListOK, Sorted
  <2>3. /\ due[x] \in Nat /\ due[y] \in Nat
        /\ due'[x] = IF due[x] = 0 THEN 0 ELSE due[x] - 1
        /\ due'[y] = IF due[y] = 0 THEN 0 ELSE due[y] - 1
    BY <1>1, <1>2, ElapseFacts, AbsTimerAssumption
  <2> QED
    BY <2>2, <2>3
<1>7. WorkerOK'
  <2>1. hndl # NoTimer => due'[hndl] = 0
    BY <1>1, <1>2, ElapseFacts DEF WorkerOK, TypeOK
  <2> QED
    BY <1>1, <2>1 DEF WorkerOK, Listed
<1>8. QueueOK' /\ TermOK' /\ NoFailure'
  BY <1>1, <1>4 DEF QueueOK, TermOK, Terminating, NoFailure
<1> QED
  BY <1>3, <1>5, <1>6, <1>7, <1>8

-----------------------------------------------------------------------------
(* The worker's steps. *)

LEMMA WaitIInv == ASSUME IInv, Wait \/ EndTasks PROVE IInv'
<1> USE DEF IInv
<1>1. /\ UNCHANGED <<own, left, tstate, timeout, tasks, efd, timeouts, due,
                     batch, hndl, failed>>
      /\ wpc \in {"wait", "tasks"} /\ wpc' \in {"timers", "wait"}
      /\ batch = <<>> /\ events' \in BOOLEAN
  BY DEF Wait, EndTasks, WorkerOK, TypeOK
<1>2. Queue' = Queue
  BY <1>1 DEF Queue
<1>3. TypeOK'
  BY <1>1 DEF TypeOK, AbsTypeOK
<1>4. ASSUME NEW u \in Timers PROVE OwnerOK(u)' /\ PlaceOK(u)' /\ IntervalOK(u)'
  BY <1>1, <1>2 DEF OwnerOK, PlaceOK, IntervalOK, Pending, Listed
<1>5. QueueOK' /\ ListOK' /\ WorkerOK' /\ TermOK' /\ NoFailure'
  BY <1>1, <1>2 DEF QueueOK, ListOK, WorkerOK, Listed, TermOK, Terminating, NoFailure
<1> QED
  BY <1>3, <1>4, <1>5

LEMMA TimersetEventIInv == ASSUME IInv, TimersetEvent PROVE IInv'
<1> USE DEF IInv
<1>1. /\ UNCHANGED <<own, left, tstate, timeout, tasks, efd, due, events, batch, failed>>
      /\ wpc = "timers" /\ batch = <<>> /\ hndl = NoTimer
  BY DEF TimersetEvent, WorkerOK
<1>2. Queue' = Queue
  BY <1>1 DEF Queue
<1>3. CASE ~Expired
  <2>1. wpc' = "poll" /\ UNCHANGED <<hndl, timeouts>>
    BY <1>3 DEF TimersetEvent
  <2>2. TypeOK'
    BY <1>1, <2>1 DEF TypeOK, AbsTypeOK
  <2>3. ASSUME NEW u \in Timers PROVE OwnerOK(u)' /\ PlaceOK(u)' /\ IntervalOK(u)'
    BY <1>1, <1>2, <2>1 DEF OwnerOK, PlaceOK, IntervalOK, Pending, Listed
  <2>4. QueueOK' /\ ListOK' /\ WorkerOK' /\ TermOK' /\ NoFailure'
    BY <1>1, <1>2, <2>1 DEF QueueOK, ListOK, WorkerOK, TermOK, Terminating, NoFailure
  <2> QED
    BY <2>2, <2>3, <2>4
<1>4. CASE Expired
  <2>1. PICK h : h = Head(timeouts)
    OBVIOUS
  <2>2. hndl' = h /\ timeouts' = Tail(timeouts) /\ wpc' = "feed" /\ due[h] = 0
    BY <1>4, <2>1 DEF TimersetEvent, Expired
  <2>3. /\ timeouts' \in Seq(Timers) /\ NoRepeats(timeouts') /\ Sorted(timeouts', due)
        /\ ToSet(timeouts') = ToSet(timeouts) \ {h} /\ Listed(h) /\ h \in Timers
    BY <1>4, <2>1, <2>2, PopFacts DEF Expired, Listed
  <2>4. TypeOK'
    BY <1>1, <2>2, <2>3 DEF TypeOK, AbsTypeOK
  <2>5. ASSUME NEW u \in Timers PROVE OwnerOK(u)' /\ PlaceOK(u)' /\ IntervalOK(u)'
    <3>1. /\ Pending(StartOf(u))' <=> Pending(StartOf(u))
          /\ Pending(StopOf(u))' <=> Pending(StopOf(u))
      BY <1>2 DEF Pending
    <3>2. OwnerOK(u)' /\ IntervalOK(u)'
      BY <1>1, <3>1 DEF OwnerOK, IntervalOK
    <3>3. CASE u = h
      BY <1>1, <2>2, <2>3, <3>1, <3>2, <3>3 DEF PlaceOK
    <3>4. CASE u # h
      BY <1>1, <2>2, <2>3, <3>1, <3>2, <3>4, TaskFacts DEF PlaceOK, Listed
    <3> QED
      BY <3>2, <3>3, <3>4
  <2>6. WorkerOK'
    BY <1>1, <2>2, <2>3, TaskFacts DEF WorkerOK, Listed
  <2>7. QueueOK' /\ ListOK' /\ TermOK' /\ NoFailure'
    BY <1>1, <1>2, <2>2, <2>3 DEF QueueOK, ListOK, TermOK, Terminating, NoFailure
  <2> QED
    BY <2>4, <2>5, <2>6, <2>7
<1> QED
  BY <1>3, <1>4

(* A popped timer is running with its interval over, or stopping. *)
LEMMA PoppedTimer ==
    ASSUME IInv, wpc = "feed"
    PROVE  /\ hndl \in Timers /\ tstate[hndl] \in {"ACTIVE", "STOPPING"} /\ batch = <<>>
           /\ tstate[hndl] = "ACTIVE" =>
                own[hndl] = "running" /\ left[hndl] = 0 /\ timeout[hndl] = -1
           /\ ~Pending(StartOf(hndl)) /\ ~Listed(hndl)
<1> USE DEF IInv
<1>1. hndl \in Timers /\ due[hndl] = 0 /\ ~Listed(hndl) /\ batch = <<>>
  BY DEF WorkerOK, TypeOK
<1>2. own[hndl] \in {"running", "stopping"} /\ ~Pending(StartOf(hndl))
  BY <1>1 DEF PlaceOK, TypeOK, AbsTypeOK, OwnStates
<1>3. tstate[hndl] \in {"ACTIVE", "STOPPING"}
  BY <1>1, <1>2 DEF OwnerOK, TypeOK
<1>4. ASSUME tstate[hndl] = "ACTIVE"
      PROVE own[hndl] = "running" /\ left[hndl] = 0 /\ timeout[hndl] = -1
  <2>1. own[hndl] = "running"
    BY <1>1, <1>2, <1>4 DEF OwnerOK
  <2>2. left[hndl] <= 0 /\ timeout[hndl] = -1 /\ left[hndl] \in 0 .. MaxTimeout
    BY <1>1, <1>2, <2>1 DEF IntervalOK, TypeOK, AbsTypeOK
  <2> QED
    BY <2>1, <2>2, AbsTimerAssumption
<1> QED
  BY <1>1, <1>2, <1>3, <1>4

LEMMA FeedTimeoutIInv == ASSUME IInv, FeedTimeout PROVE IInv'
<1> USE DEF IInv
<1>1. PICK h \in Timers : h = hndl
  BY PoppedTimer DEF FeedTimeout
<1>2. /\ UNCHANGED <<left, tstate, timeout, tasks, efd, timeouts, due, events, batch>>
      /\ hndl' = NoTimer /\ wpc' = "timers" /\ wpc = "feed" /\ batch = <<>>
      /\ own' = IF tstate[h] = "ACTIVE" THEN [own EXCEPT ![h] = "fired"] ELSE own
  BY <1>1, PoppedTimer DEF FeedTimeout
<1>3. failed' = FALSE
  BY <1>1, <1>2, PoppedTimer DEF FeedTimeout, Fails, NoFailure
<1>4. Queue' = Queue
  BY <1>2 DEF Queue
<1>5. TypeOK'
  <2>1. own' \in [Timers -> OwnStates]
    BY <1>2 DEF TypeOK, AbsTypeOK, OwnStates
  <2> QED
    BY <1>2, <1>3, <2>1 DEF TypeOK, AbsTypeOK
<1>6. ASSUME NEW u \in Timers PROVE OwnerOK(u)' /\ PlaceOK(u)' /\ IntervalOK(u)'
  <2>1. /\ Pending(StartOf(u))' <=> Pending(StartOf(u))
        /\ Pending(StopOf(u))' <=> Pending(StopOf(u))
        /\ Listed(u)' <=> Listed(u)
    BY <1>2, <1>4 DEF Pending, Listed
  <2>2. CASE u = h
    <3>1. /\ ~Pending(StartOf(u)) /\ ~Listed(u) /\ tstate[u] \in {"ACTIVE", "STOPPING"}
          /\ tstate[u] = "ACTIVE" => own[u] = "running" /\ timeout[u] = -1
      BY <1>1, <1>2, <2>2, PoppedTimer
    <3>2. own'[u] = IF tstate[u] = "ACTIVE" THEN "fired" ELSE own[u]
      BY <1>2, <2>2 DEF TypeOK, AbsTypeOK
    <3>3. u # NoTimer
      BY TaskFacts
    <3>4. CASE tstate[u] = "ACTIVE"
      BY <1>2, <2>1, <3>1, <3>2, <3>3, <3>4 DEF OwnerOK, PlaceOK, IntervalOK
    <3>5. CASE tstate[u] = "STOPPING"
      BY <1>2, <2>1, <3>1, <3>2, <3>3, <3>5 DEF OwnerOK, PlaceOK, IntervalOK
    <3> QED
      BY <3>1, <3>4, <3>5
  <2>3. CASE u # h
    <3>1. own'[u] = own[u] /\ u # NoTimer /\ hndl # u
      BY <1>1, <1>2, <2>3, TaskFacts DEF TypeOK, AbsTypeOK
    <3> QED
      BY <1>2, <2>1, <3>1 DEF OwnerOK, PlaceOK, IntervalOK
  <2> QED
    BY <2>2, <2>3
<1>7. QueueOK' /\ ListOK' /\ WorkerOK' /\ NoFailure'
  BY <1>2, <1>3, <1>4 DEF QueueOK, ListOK, WorkerOK, NoFailure
<1>8. TermOK'
  <2>1. own[h] # "idle"
    BY <1>1, <1>2, PoppedTimer DEF OwnerOK
  <2>2. ~Terminating
    BY <2>1 DEF TermOK
  <2> QED
    BY <1>2, <2>2 DEF TermOK, Terminating
<1> QED
  BY <1>5, <1>6, <1>7, <1>8

(* Handing the tasks over to the worker leaves the queue as it is. *)
LEMMA TakeTasksIInv == ASSUME IInv, TakeTasks PROVE IInv'
<1> USE DEF IInv
<1>1. /\ UNCHANGED <<own, left, tstate, timeout, timeouts, due, hndl, failed>>
      /\ events' = FALSE /\ wpc = "poll" /\ wpc' \in {"tasks", "wait"} /\ batch = <<>>
  BY DEF TakeTasks, WorkerOK
<1>2. /\ tasks \in Seq(Tasks) /\ tasks' \in Seq(Tasks) /\ batch' \in Seq(Tasks)
      /\ efd' \in BOOLEAN /\ (batch' # <<>> => wpc' = "tasks")
      /\ (batch' = tasks /\ tasks' = <<>>) \/ (batch' = batch /\ tasks' = tasks)
  BY <1>1 DEF TakeTasks, TypeOK
<1>3. Queue' = Queue
  BY <1>1, <1>2, ConcatEmptySeq DEF Queue
<1>4. TypeOK'
  BY <1>1, <1>2 DEF TypeOK, AbsTypeOK
<1>5. ASSUME NEW u \in Timers PROVE OwnerOK(u)' /\ PlaceOK(u)' /\ IntervalOK(u)'
  BY <1>1, <1>3 DEF OwnerOK, PlaceOK, IntervalOK, Pending, Listed
<1>6. QueueOK' /\ ListOK' /\ WorkerOK' /\ NoFailure'
  BY <1>1, <1>2, <1>3 DEF QueueOK, ListOK, WorkerOK, Listed, NoFailure
<1>7. TermOK'
  <2>1. Terminating' => Terminating
    BY <1>1, <1>2, <1>3, <1>4, QueueType, QueueTypeNext DEF QueueFacts, Pending
  <2> QED
    BY <1>1, <2>1 DEF TermOK
<1> QED
  BY <1>4, <1>5, <1>6, <1>7
(* The start task: the timer is listed, unless it is already stopping. *)
LEMMA StartTaskIInv ==
    ASSUME IInv, NEW t \in Timers, wpc = "tasks", batch # <<>>, Head(batch) = StartOf(t),
           StartTask(t), batch' = Tail(batch),
           UNCHANGED <<wpc, left, tasks, efd, events, hndl>>
    PROVE  IInv'
<1> USE DEF IInv
<1>1. /\ batch' \in Seq(Tasks) /\ NoRepeats(Queue') /\ StartsFirst(Queue')
      /\ ToSet(Queue') = ToSet(Queue) \ {StartOf(t)} /\ Pending(StartOf(t))
  BY TakeFromQueue
<1>2. own[t] \in {"running", "stopping"} /\ ~Listed(t) /\ hndl # t
  BY <1>1 DEF OwnerOK, PlaceOK
<1>3. own' = own /\ tstate' = tstate
  BY DEF StartTask
<1>4. ASSUME NEW u \in Timers
      PROVE  /\ Pending(StopOf(u))' <=> Pending(StopOf(u))
             /\ u # t => (Pending(StartOf(u))' <=> Pending(StartOf(u)))
             /\ ~Pending(StartOf(t))'
  BY <1>1, TaskFacts DEF Pending
<1>5. hndl = NoTimer
  BY DEF WorkerOK
<1>6. TypeOK' => TermOK'
  <2>1. Terminating <=> Pending(Quit)
    BY QueueType DEF QueueFacts
  <2>2. TypeOK' => (Terminating' <=> Pending(Quit)')
    BY QueueTypeNext DEF QueueFacts
  <2>3. Pending(Quit)' => Pending(Quit)
    BY <1>1 DEF Pending
  <2> QED
    BY <1>3, <2>1, <2>2, <2>3 DEF TermOK
<1>7. CASE own[t] = "running"
  <2>1. tstate[t] = "ACTIVE" /\ left[t] <= timeout[t] /\ timeout[t] \in 0 .. MaxTimeout
    <3>1. tstate[t] = "ACTIVE" /\ left[t] <= timeout[t]
      BY <1>1, <1>7 DEF OwnerOK, IntervalOK, TypeOK
    <3>2. left[t] \in 0 .. MaxTimeout /\ timeout[t] \in -1 .. MaxTimeout
      BY DEF TypeOK, AbsTypeOK
    <3> QED
      BY <3>1, <3>2, AbsTimerAssumption
  <2>2. PICK d \in 0 .. MaxTimeout : d = timeout[t]
    BY <2>1
  <2>3. /\ timeouts' = Insert(t, d) /\ due' = [due EXCEPT ![t] = d]
        /\ timeout' = [timeout EXCEPT ![t] = -1]
    BY <2>1, <2>2 DEF StartTask
  <2>4. /\ timeouts' \in Seq(Timers) /\ NoRepeats(timeouts') /\ Sorted(timeouts', due')
        /\ ToSet(timeouts') = ToSet(timeouts) \cup {t}
    BY <1>2, <2>3, InsertFacts
  <2>5. failed' = FALSE
    <3>1. ~(timeout[t] < 0)
      BY <2>1, AbsTimerAssumption
    <3> QED
      BY <1>2, <2>1, <3>1 DEF StartTask, Fails, NoFailure, Listed
  <2>6. TypeOK'
    <3>1. -1 \in -1 .. MaxTimeout
      BY AbsTimerAssumption
    <3>2. timeout' \in [Timers -> -1 .. MaxTimeout] /\ due' \in [Timers -> 0 .. MaxTimeout]
      BY <2>3, <3>1 DEF TypeOK
    <3> QED
      BY <1>1, <1>3, <2>4, <2>5, <3>2 DEF TypeOK, AbsTypeOK
  <2>7. ASSUME NEW u \in Timers PROVE OwnerOK(u)' /\ PlaceOK(u)' /\ IntervalOK(u)'
    <3>1. CASE u = t
      <4>1. due'[t] = d /\ timeout'[t] = -1
        BY <2>3 DEF TypeOK
      <4>2. Listed(t)' /\ ~Pending(StartOf(t))' /\ (Pending(StopOf(t))' <=> Pending(StopOf(t)))
        BY <1>4, <2>4 DEF Listed
      <4> QED
        BY <1>3, <1>7, <2>1, <2>2, <3>1, <4>1, <4>2 DEF OwnerOK, PlaceOK, IntervalOK
    <3>2. CASE u # t
      <4>1. due'[u] = due[u] /\ timeout'[u] = timeout[u]
        BY <2>3, <3>2 DEF TypeOK
      <4>2. Listed(u)' <=> Listed(u)
        BY <2>4, <3>2 DEF Listed
      <4> QED
        BY <1>3, <1>4, <3>2, <4>1, <4>2 DEF OwnerOK, PlaceOK, IntervalOK
    <3> QED
      BY <3>1, <3>2
  <2>8. QueueOK' /\ ListOK' /\ WorkerOK' /\ NoFailure'
    BY <1>1, <1>5, <2>4, <2>5 DEF QueueOK, ListOK, WorkerOK, NoFailure
  <2> QED
    BY <1>6, <2>6, <2>7, <2>8
<1>8. CASE own[t] = "stopping"
  <2>1. tstate[t] = "STOPPING"
    BY <1>8 DEF OwnerOK
  <2>2. UNCHANGED <<timeouts, due, timeout>> /\ failed' = FALSE
    BY <2>1 DEF StartTask, Fails, NoFailure
  <2>3. TypeOK'
    BY <1>1, <1>3, <2>2 DEF TypeOK, AbsTypeOK
  <2>4. ASSUME NEW u \in Timers PROVE OwnerOK(u)' /\ PlaceOK(u)' /\ IntervalOK(u)'
    <3>1. CASE u = t
      BY <1>3, <1>4, <1>8, <2>1, <2>2, <3>1 DEF OwnerOK, PlaceOK, IntervalOK
    <3>2. CASE u # t
      <4>1. /\ Pending(StopOf(u))' <=> Pending(StopOf(u))
            /\ Pending(StartOf(u))' <=> Pending(StartOf(u))
            /\ Listed(u)' <=> Listed(u)
        BY <1>4, <2>2, <3>2 DEF Listed
      <4> QED
        BY <1>3, <2>2, <4>1 DEF OwnerOK, PlaceOK, IntervalOK
    <3> QED
      BY <3>1, <3>2
  <2>5. QueueOK' /\ ListOK' /\ WorkerOK' /\ NoFailure'
    BY <1>1, <1>5, <2>2 DEF QueueOK, ListOK, WorkerOK, NoFailure
  <2> QED
    BY <1>6, <2>3, <2>4, <2>5
<1> QED
  BY <1>2, <1>7, <1>8

(* The stop task: nothing of the timer is left. *)
LEMMA StopTaskIInv ==
    ASSUME IInv, NEW t \in Timers, wpc = "tasks", batch # <<>>, Head(batch) = StopOf(t),
           StopTask(t), batch' = Tail(batch),
           UNCHANGED <<wpc, left, tasks, efd, events, hndl>>
    PROVE  /\ IInv'
           /\ own[t] = "stopping" /\ own' = [own EXCEPT ![t] = "idle"]
<1> USE DEF IInv
<1>1. /\ batch' \in Seq(Tasks) /\ NoRepeats(Queue') /\ StartsFirst(Queue')
      /\ ToSet(Queue') = ToSet(Queue) \ {StopOf(t)} /\ Pending(StopOf(t))
      /\ ~Pending(StartOf(t))
  BY TakeFromQueue
<1>2. tstate[t] = "STOPPING" /\ own[t] = "stopping" /\ hndl = NoTimer
  BY <1>1 DEF OwnerOK, WorkerOK
<1>3. /\ own' = [own EXCEPT ![t] = "idle"] /\ tstate' = [tstate EXCEPT ![t] = "IDLE"]
      /\ timeouts' = Without(t) /\ UNCHANGED <<due, timeout>> /\ failed' = FALSE
  BY <1>2 DEF StopTask, Fails, NoFailure
<1>4. /\ timeouts' \in Seq(Timers) /\ NoRepeats(timeouts') /\ Sorted(timeouts', due)
      /\ ToSet(timeouts') = ToSet(timeouts) \ {t}
  BY <1>3, WithoutFacts
<1>5. TypeOK'
  BY <1>1, <1>3, <1>4 DEF TypeOK, AbsTypeOK, OwnStates
<1>6. ASSUME NEW u \in Timers PROVE OwnerOK(u)' /\ PlaceOK(u)' /\ IntervalOK(u)'
  <2>1. CASE u = t
    <3>1. own'[t] = "idle" /\ tstate'[t] = "IDLE"
      BY <1>3 DEF TypeOK, AbsTypeOK
    <3>2. ~Pending(StopOf(t))' /\ ~Pending(StartOf(t))' /\ ~Listed(t)' /\ t # NoTimer
      BY <1>1, <1>4, TaskFacts DEF Pending, Listed
    <3> QED
      BY <1>2, <2>1, <3>1, <3>2 DEF OwnerOK, PlaceOK, IntervalOK
  <2>2. CASE u # t
    <3>1. own'[u] = own[u] /\ tstate'[u] = tstate[u]
      BY <1>3, <2>2 DEF TypeOK, AbsTypeOK
    <3>2. /\ Pending(StopOf(u))' <=> Pending(StopOf(u))
          /\ Pending(StartOf(u))' <=> Pending(StartOf(u))
          /\ Listed(u)' <=> Listed(u)
      BY <1>1, <1>4, <2>2, TaskFacts DEF Pending, Listed
    <3> QED
      BY <1>3, <3>1, <3>2 DEF OwnerOK, PlaceOK, IntervalOK
  <2> QED
    BY <2>1, <2>2
<1>7. QueueOK' /\ ListOK' /\ WorkerOK' /\ NoFailure'
  BY <1>1, <1>2, <1>3, <1>4 DEF QueueOK, ListOK, WorkerOK, NoFailure
<1>8. TermOK'
  <2>1. ~Terminating
    BY <1>2 DEF TermOK
  <2>2. ~Pending(Quit)' /\ wpc' # "done"
    BY <1>1, <2>1, QueueType DEF QueueFacts, Pending
  <2> QED
    BY <1>5, <2>2, QueueTypeNext DEF QueueFacts, TermOK
<1> QED
  BY <1>2, <1>3, <1>5, <1>6, <1>7, <1>8

(* The worker quits: no timer is in use, so that nothing is dropped. *)
LEMMA QuitIInv ==
    ASSUME IInv, wpc = "tasks", batch # <<>>, Head(batch) = Quit,
           batch' = <<>>, wpc' = "done",
           UNCHANGED <<own, left, tstate, timeout, tasks, efd, timeouts, due, events,
                       hndl, failed>>
    PROVE  IInv'
<1> USE DEF IInv
<1>1. Pending(Quit)
  <2>1. batch \in Seq(Tasks) /\ Head(batch) \in ToSet(batch)
    <3>1. batch \in Seq(Tasks)
      BY DEF TypeOK
    <3>2. Head(batch) = batch[1] /\ Len(batch) \in Nat \ {0} /\ DOMAIN batch = 1 .. Len(batch)
      BY <3>1, TailFacts, LenProperties
    <3> QED
      BY <3>1, <3>2 DEF ToSet
  <2> QED
    BY <2>1, QueueType DEF QueueFacts
<1>2. \A t \in Timers : own[t] = "idle"
  BY <1>1, QueueType DEF QueueFacts, TermOK
<1>3. \A t \in Timers : ~Pending(StartOf(t)) /\ ~Pending(StopOf(t))
  BY <1>2 DEF OwnerOK
<1>4. Queue' = tasks /\ tasks \in Seq(Tasks)
  BY ConcatEmptySeq DEF Queue, TypeOK
<1>5. ToSet(Queue') \in SUBSET ToSet(Queue)
  BY <1>4, QueueType DEF QueueFacts, Pending
<1>6. QueueOK'
  <2>1. PICK q \in Seq(Tasks) : q = Queue
    BY QueueType DEF QueueFacts
  <2>2. PICK a \in Seq(Tasks) : a = batch
    BY DEF TypeOK
  <2>3. PICK b \in Seq(Tasks) : b = tasks
    BY DEF TypeOK
  <2>4. /\ Len(a) \in Nat /\ Len(b) \in Nat /\ Len(q) = Len(a) + Len(b)
        /\ \A j \in 1 .. Len(b) : q[Len(a) + j] = b[j]
    BY <2>1, <2>2, <2>3, ConcatFacts, LenProperties DEF Queue
  <2>5. NoRepeats(b)
    <3>1. SUFFICES ASSUME NEW i \in 1 .. Len(b), NEW j \in 1 .. Len(b), b[i] = b[j]
                   PROVE  i = j
      BY DEF NoRepeats
    <3>2. /\ Len(a) + i \in 1 .. Len(q) /\ Len(a) + j \in 1 .. Len(q)
          /\ q[Len(a) + i] = q[Len(a) + j]
      BY <2>4, <3>1
    <3>3. Len(a) + i = Len(a) + j
      BY <2>1, <3>2 DEF QueueOK, NoRepeats
    <3> QED
      BY <2>4, <3>3
  <2>6. StartsFirst(b)
    <3>1. \A t \in Timers : StartOf(t) \notin ToSet(b)
      BY <1>3, <1>4, <1>5, <2>3 DEF Pending
    <3> QED
      BY <3>1, LenProperties DEF StartsFirst, ToSet
  <2> QED
    BY <1>4, <2>3, <2>5, <2>6 DEF QueueOK
<1>7. TypeOK'
  BY DEF TypeOK, AbsTypeOK
<1>8. ASSUME NEW u \in Timers PROVE OwnerOK(u)' /\ PlaceOK(u)' /\ IntervalOK(u)'
  <2>1. ~Pending(StartOf(u))' /\ ~Pending(StopOf(u))' /\ (Listed(u)' <=> Listed(u))
    BY <1>3, <1>5 DEF Pending, Listed
  <2>2. ~Pending(StartOf(u)) /\ ~Pending(StopOf(u))
    BY <1>3
  <2> QED
    BY <2>1, <2>2 DEF OwnerOK, PlaceOK, IntervalOK
<1>9. ListOK' /\ WorkerOK' /\ NoFailure' /\ TermOK'
  BY <1>2 DEF ListOK, WorkerOK, NoFailure, TermOK
<1> QED
  BY <1>6, <1>7, <1>8, <1>9

(* The task the worker runs is one of the three kinds. *)
LEMMA RunTaskCases ==
    ASSUME IInv, RunTask
    PROVE  /\ wpc = "tasks" /\ batch # <<>>
           /\ UNCHANGED <<left, tasks, efd, events, hndl>>
           /\ \/ \E t \in Timers : /\ Head(batch) = StartOf(t) /\ StartTask(t)
                                   /\ batch' = Tail(batch) /\ wpc' = wpc
              \/ \E t \in Timers : /\ Head(batch) = StopOf(t) /\ StopTask(t)
                                   /\ batch' = Tail(batch) /\ wpc' = wpc
              \/ /\ Head(batch) = Quit /\ batch' = <<>> /\ wpc' = "done"
                 /\ UNCHANGED <<own, tstate, timeout, timeouts, due, failed>>
<1>1. wpc = "tasks" /\ batch # <<>> /\ UNCHANGED <<left, tasks, efd, events, hndl>>
  BY DEF RunTask
<1>2. PICK x \in Tasks : x = Head(batch)
  BY <1>1, TailFacts DEF IInv, TypeOK
<1>3. CASE x = Quit
  <2>1. x.op = "quit"
    BY <1>3 DEF Quit
  <2> QED
    BY <1>1, <1>2, <1>3, <2>1 DEF RunTask
<1>4. ASSUME NEW t \in Timers, x = StartOf(t)
      PROVE  StartTask(t) /\ batch' = Tail(batch) /\ wpc' = wpc
  <2>1. x.op = "start" /\ x.timer = t /\ x # Quit
    BY <1>4 DEF StartOf, Quit
  <2> QED
    BY <1>2, <2>1 DEF RunTask
<1>5. ASSUME NEW t \in Timers, x = StopOf(t)
      PROVE  StopTask(t) /\ batch' = Tail(batch) /\ wpc' = wpc
  <2>1. x.op = "stop" /\ x.timer = t /\ x # Quit
    BY <1>5 DEF StopOf, Quit
  <2> QED
    BY <1>2, <2>1 DEF RunTask
<1> QED
  BY <1>1, <1>2, <1>3, <1>4, <1>5, TaskFacts

(* Every step keeps the invariant. *)
LEMMA NextIInv == IInv /\ [Next]_vars => IInv'
<1> SUFFICES ASSUME IInv, [Next]_vars PROVE IInv'
  OBVIOUS
<1>1. ASSUME NEW t \in Timers, NEW d \in 0 .. MaxTimeout, Start(t, d) PROVE IInv'
  BY <1>1, StartIInv
<1>2. ASSUME NEW t \in Timers, Stop(t) PROVE IInv'
  BY <1>2, StopIInv
<1>3. CASE Term
  BY <1>3, TermIInv
<1>4. CASE Tick
  BY <1>4, TickIInv
<1>5. CASE Wait \/ EndTasks
  BY <1>5, WaitIInv
<1>6. CASE TimersetEvent
  BY <1>6, TimersetEventIInv
<1>7. CASE FeedTimeout
  BY <1>7, FeedTimeoutIInv
<1>8. CASE TakeTasks
  BY <1>8, TakeTasksIInv
<1>9. CASE RunTask
  <2>1. /\ wpc = "tasks" /\ batch # <<>>
        /\ UNCHANGED <<left, tasks, efd, events, hndl>>
    BY <1>9, RunTaskCases
  <2>2. ASSUME NEW t \in Timers, Head(batch) = StartOf(t), StartTask(t),
               batch' = Tail(batch), wpc' = wpc
        PROVE  IInv'
    BY <2>1, <2>2, StartTaskIInv
  <2>3. ASSUME NEW t \in Timers, Head(batch) = StopOf(t), StopTask(t),
               batch' = Tail(batch), wpc' = wpc
        PROVE  IInv'
    BY <2>1, <2>3, StopTaskIInv
  <2>4. ASSUME Head(batch) = Quit, batch' = <<>>, wpc' = "done",
               UNCHANGED <<own, tstate, timeout, timeouts, due, failed>>
        PROVE  IInv'
    BY <2>1, <2>4, QuitIInv
  <2> QED
    BY <1>9, <2>2, <2>3, <2>4, RunTaskCases
<1>10. CASE UNCHANGED vars
  <2>1. /\ UNCHANGED <<own, left, tstate, timeout, tasks, efd, failed>>
        /\ UNCHANGED <<timeouts, due, wpc, events, batch, hndl>>
    BY <1>10 DEF vars, workerVars
  <2>2. Queue' = Queue
    BY <2>1 DEF Queue
  <2> QED
    BY <2>1, <2>2
       DEF IInv, TypeOK, AbsTypeOK, OwnerOK, PlaceOK, IntervalOK, Pending, Listed, QueueOK,
           ListOK, WorkerOK, TermOK, Terminating, NoFailure
<1> QED
  BY <1>1, <1>2, <1>3, <1>4, <1>5, <1>6, <1>7, <1>8, <1>9, <1>10 DEF Next, Worker

(* The inductive invariant holds throughout. *)
THEOREM TimerInvariant == Spec => []IInv
  BY InitIInv, NextIInv, PTL DEF Spec

(* No assertion and no nn_fsm_bad_* of timer.c is ever reached, nor is a   *)
(* task queued twice, with any number of timers and whatever the order of  *)
(* starts, stops, expirations and tasks.                                   *)
THEOREM TimersNeverFail == Spec => []NoFailure
<1>1. IInv => NoFailure
  BY DEF IInv
<1> QED
  BY <1>1, TimerInvariant, PTL

(* The list of deadlines is always ordered and has no timer twice, and a   *)
(* timer whose owner was told that it stopped is neither listed nor        *)
(* popped.                                                                 *)
THEOREM TimersetOrdered == Spec => []TimersetConsistent
<1>1. IInv => TimersetConsistent
  <2>1. SUFFICES ASSUME IInv PROVE TimersetConsistent
    OBVIOUS
  <2>2. DOMAIN timeouts = 1 .. Len(timeouts) /\ Len(timeouts) \in Nat
    BY <2>1, LenProperties DEF IInv, TypeOK
  <2>3. \A i, j \in DOMAIN timeouts :
           i < j => /\ timeouts[i] # timeouts[j]
                    /\ due[timeouts[i]] <= due[timeouts[j]]
    BY <2>1, <2>2 DEF IInv, ListOK, NoRepeats, Sorted
  <2>4. \A t \in Timers : tstate[t] = "IDLE" => t \notin ToSet(timeouts) /\ hndl # t
    BY <2>1 DEF IInv, OwnerOK, PlaceOK, Listed
  <2> QED
    BY <2>1, <2>3, <2>4 DEF IInv, TimersetConsistent
<1> QED
  BY <1>1, TimerInvariant, PTL

(* The worker implements the safety part of what timer.h promises: every   *)
(* step is one of AbsTimer's or changes nothing the owner sees, so that no *)
(* NN_TIMER_TIMEOUT comes before the interval is over, twice, after        *)
(* nn_timer_stop or after NN_TIMER_STOPPED.                                *)
THEOREM TimerImplementsAbs == Spec => AbsSafety
<1>1. Init => AbsInit
  BY DEF Init
<1>2. IInv /\ [Next]_vars => [AbsNext]_absVars
  <2> SUFFICES ASSUME IInv, [Next]_vars PROVE AbsNext \/ UNCHANGED <<own, left>>
    BY DEF absVars
  <2>1. ASSUME NEW t \in Timers, NEW d \in 0 .. MaxTimeout, Start(t, d) PROVE AbsNext
    BY <2>1 DEF Start, AbsNext
  <2>2. ASSUME NEW t \in Timers, Stop(t) PROVE AbsNext
    BY <2>2 DEF Stop, AbsNext
  <2>3. CASE Term
    BY <2>3 DEF Term
  <2>4. CASE Tick
    BY <2>4 DEF Tick, AbsNext
  <2>5. CASE Wait \/ EndTasks \/ TimersetEvent \/ TakeTasks
    BY <2>5 DEF Wait, EndTasks, TimersetEvent, TakeTasks
  <2>6. CASE FeedTimeout
    <3>1. CASE tstate[hndl] = "ACTIVE"
      <4>1. AbsExpire(hndl) /\ hndl \in Timers
        BY <2>6, <3>1, PoppedTimer DEF FeedTimeout, AbsExpire
      <4> QED
        BY <4>1 DEF AbsNext
    <3>2. CASE tstate[hndl] # "ACTIVE"
      BY <2>6, <3>2 DEF FeedTimeout
    <3> QED
      BY <3>1, <3>2
  <2>7. CASE RunTask
    <3>1. /\ wpc = "tasks" /\ batch # <<>>
          /\ UNCHANGED <<left, tasks, efd, events, hndl>>
      BY <2>7, RunTaskCases
    <3>2. ASSUME NEW t \in Timers, StartTask(t) PROVE UNCHANGED <<own, left>>
      BY <3>1, <3>2 DEF StartTask
    <3>3. ASSUME NEW t \in Timers, Head(batch) = StopOf(t), StopTask(t),
                 batch' = Tail(batch), wpc' = wpc
          PROVE  AbsNext
      <4>1. own[t] = "stopping" /\ own' = [own EXCEPT ![t] = "idle"]
        BY <3>1, <3>3, StopTaskIInv
      <4> QED
        BY <3>1, <4>1 DEF AbsNext, AbsStopped
    <3>4. ASSUME UNCHANGED <<own, tstate, timeout, timeouts, due, failed>>
          PROVE  UNCHANGED <<own, left>>
      BY <3>1, <3>4
    <3> QED
      BY <2>7, <3>2, <3>3, <3>4, RunTaskCases
  <2>8. CASE UNCHANGED vars
    BY <2>8 DEF vars
  <2> QED
    BY <2>1, <2>2, <2>3, <2>4, <2>5, <2>6, <2>7, <2>8 DEF Next, Worker
<1> QED
  BY <1>1, <1>2, TimerInvariant, PTL DEF Spec, AbsSafety
=============================================================================
