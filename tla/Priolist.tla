------------------------------- MODULE Priolist -------------------------------
(***************************************************************************)
(* The prioritised list of pipes (protocols/utils/priolist.c) under the    *)
(* load balancer lb.c and the fair queue fq.c: which of the pipes that are *)
(* ready is used next. A pipe is in the list of its priority's slot while  *)
(* it is active; a lower number is a higher priority.                      *)
(***************************************************************************)
EXTENDS Integers, SequencesExt

CONSTANTS Pipes,     \* the pipes
          NoPipe,    \* a NULL pointer
          MaxSlots   \* NN_PRIOLIST_SLOTS, 16 in the code

ASSUME PriolistAssumption ==
    /\ NoPipe \notin Pipes
    /\ MaxSlots \in Nat \ {0}

VARIABLES
    priority,  \* nn_priolist_data.priority, 0 for a pipe that is not attached
    pipes,     \* nn_priolist.slots[].pipes
    slotCur,   \* nn_priolist.slots[].current
    current,   \* nn_priolist.current
    turn       \* the pipe used in the last step, if any

vars == <<priority, pipes, slotCur, current, turn>>

Slots == 1 .. MaxSlots

TypeOK ==
    /\ priority \in [Pipes -> 0 .. MaxSlots]
    /\ pipes \in [Slots -> Seq(Pipes)]
    /\ slotCur \in [Slots -> Pipes \cup {NoPipe}]
    /\ current \in Slots \cup {-1}
    /\ turn \in Pipes \cup {NoPipe}

Init ==
    /\ priority = [p \in Pipes |-> 0]
    /\ pipes = [k \in Slots |-> <<>>]
    /\ slotCur = [k \in Slots |-> NoPipe]
    /\ current = -1
    /\ turn = NoPipe

Active(p) == priority[p] # 0 /\ p \in ToSet(pipes[priority[p]])

-----------------------------------------------------------------------------
(* Where p is in list s, and the list without it (nn_list_erase). *)
Place(s, p) == CHOOSE j \in DOMAIN s : s[j] = p
Without(s, p) == RemoveAt(s, Place(s, p))

(* The item behind p in list s (nn_list_erase, nn_list_next), wrapping over *)
(* to the beginning of what is left, if anything is.                       *)
Behind(s, p, left) ==
    IF Place(s, p) < Len(s) THEN s[Place(s, p) + 1]
    ELSE IF left # <<>> THEN left[1] ELSE NoPipe

(* The first non-empty slot from k on, or -1. *)
FirstSlot(lists, k) ==
    LET full == {j \in Slots : j >= k /\ lists[j] # <<>>}
    IN IF full = {} THEN -1 ELSE Min(full)

(* nn_priolist_add *)
Add(p, k) ==
    /\ priority[p] = 0
    /\ priority' = [priority EXCEPT ![p] = k]
    /\ turn' = NoPipe
    /\ UNCHANGED <<pipes, slotCur, current>>

(* Seeded fault: the slot's current pipe is not moved on. *)
RmKeepsCurrent(p) ==
    /\ priority[p] # 0
    /\ priority' = [priority EXCEPT ![p] = 0]
    /\ turn' = NoPipe
    /\ pipes' = [k \in Slots |-> Remove(pipes[k], p)]
    /\ UNCHANGED <<slotCur, current>>

(* nn_priolist_rm *)
Rm(p) ==
    /\ priority[p] # 0
    /\ priority' = [priority EXCEPT ![p] = 0]
    /\ turn' = NoPipe
    /\ IF Active(p)
       THEN LET k == priority[p]
                left == Without(pipes[k], p)
            IN /\ pipes' = [pipes EXCEPT ![k] = left]
               /\ IF slotCur[k] = p
                  THEN /\ slotCur' = [slotCur EXCEPT ![k] =
                                         Behind(pipes[k], p, left)]
                       /\ current' = IF current = k THEN FirstSlot(pipes', k)
                                                    ELSE current
                  ELSE UNCHANGED <<slotCur, current>>
       ELSE UNCHANGED <<pipes, slotCur, current>>

(* Seeded fault: the first pipe of a better slot does not take over. *)
ActivateKeepsSlot(p) ==
    /\ priority[p] # 0
    /\ ~Active(p)
    /\ turn' = NoPipe
    /\ LET k == priority[p]
       IN /\ pipes' = [pipes EXCEPT ![k] = Append(@, p)]
          /\ IF pipes[k] # <<>>
             THEN UNCHANGED <<slotCur, current>>
             ELSE /\ slotCur' = [slotCur EXCEPT ![k] = p]
                  /\ current' = IF current = -1 THEN k ELSE current
    /\ UNCHANGED priority

(* nn_priolist_activate, on a pipe that signals it is ready. *)
Activate(p) ==
    /\ priority[p] # 0
    /\ ~Active(p)
    /\ turn' = NoPipe
    /\ LET k == priority[p]
       IN /\ pipes' = [pipes EXCEPT ![k] = Append(@, p)]
          /\ IF pipes[k] # <<>>
             THEN UNCHANGED <<slotCur, current>>
             ELSE /\ slotCur' = [slotCur EXCEPT ![k] = p]
                  /\ current' = IF current = -1 \/ current > k THEN k
                                                               ELSE current
    /\ UNCHANGED priority

(* nn_lb_send or nn_fq_recv: nn_priolist_getpipe, the operation on the     *)
(* pipe, and nn_priolist_advance. With release the pipe is not ready any   *)
(* more and leaves the list.                                               *)
UseNext(release) ==
    /\ current # -1
    /\ LET k == current
           p == slotCur[k]
           left == IF release THEN Without(pipes[k], p) ELSE pipes[k]
       IN /\ turn' = p
          /\ pipes' = [pipes EXCEPT ![k] = left]
          /\ slotCur' = [slotCur EXCEPT ![k] = Behind(pipes[k], p, left)]
          /\ current' = FirstSlot(pipes', k)
    /\ UNCHANGED priority

Next ==
    \/ \E p \in Pipes, k \in Slots : Add(p, k)
    \/ \E p \in Pipes : Rm(p)
    \/ \E p \in Pipes : Activate(p)
    \/ \E release \in BOOLEAN : UseNext(release)

Spec == Init /\ [][Next]_vars

-----------------------------------------------------------------------------
(* The pointers agree with the lists: a slot's current pipe is in its      *)
(* list, there is none exactly when the list is empty, and a list has only *)
(* pipes of its priority, each once. nn_priolist_getpipe dereferences it.  *)
(* The current slot is, in the words of priolist.h:62-64, "the             *)
(* highest-priority non-empty slot available. If there's no available      *)
(* pipe, this field is set to -1." And the state has its type.             *)
PointersConsistent ==
    /\ TypeOK
    /\ \A k \in Slots :
          /\ slotCur[k] = NoPipe <=> pipes[k] = <<>>
          /\ slotCur[k] # NoPipe => slotCur[k] \in ToSet(pipes[k])
          /\ \A i, j \in DOMAIN pipes[k] :
               /\ pipes[k][i] = pipes[k][j] => i = j
               /\ priority[pipes[k][i]] = k
    /\ current = LET full == {k \in Slots : pipes[k] # <<>>}
                 IN IF full = {} THEN -1 ELSE Min(full)

(* Whenever a pipe is used, it was ready and no ready pipe had a higher    *)
(* priority, although pipes come, go and change in between.                *)
UsesBestReady ==
    [][turn' # NoPipe =>
         /\ Active(turn')
         /\ \A p \in Pipes : Active(p) => priority[turn'] <= priority[p]]_vars
=============================================================================
