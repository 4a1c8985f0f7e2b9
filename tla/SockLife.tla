------------------------------- MODULE SockLife -------------------------------
(***************************************************************************)
(* The life of sockets: the global table of core/global.c (nn_socket,      *)
(* nn_close, nn_term, nn_init and the holds every call takes), the socket  *)
(* of core/sock.c (its state machine, its receive loop and the event file  *)
(* descriptor blocked receivers wait on) and its endpoints (core/ep.c).    *)
(*                                                                         *)
(* Application threads call into the library; worker threads make messages *)
(* arrive and report stopped endpoints. An action is what a thread does    *)
(* while it owns the global lock or the socket's AIO context; whatever it  *)
(* does between two locks may be interleaved with the other threads.       *)
(*                                                                         *)
(* Only the receiving direction is modelled: nn_sock_send is nn_sock_recv  *)
(* with the other descriptor. An assertion that fails sets `crashed'.      *)
(***************************************************************************)
EXTENDS Naturals, FiniteSets

CONSTANTS Threads,      \* application threads
          Terminators,  \* the threads that may call nn_term and nn_init
          Objs,         \* nn_sock objects, each allocated once
          NoSock,       \* a NULL nn_sock pointer
          MaxSockets,   \* NN_MAX_SOCKETS, 512 in the code
          MaxEps,       \* bound: endpoints of a socket
          MaxMsgs,      \* bound: messages waiting to be received
          Races         \* calls the application lets race with nn_close

ASSUME SockLifeAssumption ==
    /\ NoSock \notin Objs
    /\ IsFiniteSet(Threads)
    /\ Terminators \subseteq Threads
    /\ MaxSockets \in Nat \ {0}
    /\ MaxEps \in Nat
    /\ MaxMsgs \in Nat
    /\ Races \subseteq {"addep", "option"}

VARIABLES
    inited,   \* self.socks is allocated
    socks,    \* self.socks
    unused,   \* self.unused, a stack growing towards index 0
    nsocks,   \* self.nsocks
    flags,    \* self.flags
    ostate,   \* nn_sock.state, or "none" and "freed"
    holds,    \* nn_sock.holds
    eps,      \* number of endpoints in nn_sock.eps
    sdeps,    \* number of endpoints in nn_sock.sdeps
    termsem,  \* nn_sock.termsem
    relesem,  \* nn_sock.relesem
    msgs,     \* messages the protocol would hand over to nn_recv
    flagIn,   \* NN_SOCK_FLAG_IN of nn_sock.flags
    rcvfd,    \* nn_sock.rcvfd is readable
    pc,       \* where an application thread is
    ref,      \* the socket its call works on
    slot,     \* the slot nn_close works on, the loop counter of nn_term
    terming,  \* the thread is inside nn_term
    crashed   \* an assertion failed

tableVars == <<inited, socks, unused, nsocks>>
objVars == <<ostate, holds, eps, sdeps, termsem, relesem, msgs, flagIn, rcvfd>>
threadVars == <<pc, ref, slot, terming>>
vars == <<tableVars, flags, objVars, threadVars, crashed>>

Slots == 0 .. MaxSockets - 1

ObjStates == {"none", "ACTIVE", "STOPPING_EPS", "STOPPING", "FINI", "freed"}

(* Calls that hold a socket, by what they do with it. *)
HeldCalls == {"recv", "addep", "rmep", "option"}

InCall == HeldCalls \cup {"wait", "recheck", "rele"}
InClose == {"termsem", "relesem", "closeend"}

TypeOK ==
    /\ inited \in BOOLEAN
    /\ socks \in [Slots -> Objs \cup {NoSock}]
    /\ unused \in [Slots -> Slots]
    /\ nsocks \in 0 .. MaxSockets
    /\ flags \subseteq {"TERMING", "TERMED"}
    /\ ostate \in [Objs -> ObjStates]
    /\ holds \in [Objs -> Nat]
    /\ eps \in [Objs -> Nat]
    /\ sdeps \in [Objs -> Nat]
    /\ termsem \in [Objs -> Nat]
    /\ relesem \in [Objs -> Nat]
    /\ msgs \in [Objs -> 0 .. MaxMsgs]
    /\ flagIn \in [Objs -> BOOLEAN]
    /\ rcvfd \in [Objs -> BOOLEAN]
    /\ pc \in [Threads -> {"idle", "term"} \cup InCall \cup InClose]
    /\ ref \in [Threads -> Objs \cup {NoSock}]
    /\ slot \in [Threads -> 0 .. MaxSockets]
    /\ terming \in [Threads -> BOOLEAN]
    /\ crashed \in BOOLEAN

(* nn_global_init: the lowest slots are on top of the stack. *)
FreshUnused == [i \in Slots |-> MaxSockets - i - 1]

Init ==
    /\ inited = FALSE
    /\ socks = [s \in Slots |-> NoSock]
    /\ unused = FreshUnused
    /\ nsocks = 0
    /\ flags = {}
    /\ ostate = [o \in Objs |-> "none"]
    /\ holds = [o \in Objs |-> 0]
    /\ eps = [o \in Objs |-> 0]
    /\ sdeps = [o \in Objs |-> 0]
    /\ termsem = [o \in Objs |-> 0]
    /\ relesem = [o \in Objs |-> 0]
    /\ msgs = [o \in Objs |-> 0]
    /\ flagIn = [o \in Objs |-> FALSE]
    /\ rcvfd = [o \in Objs |-> FALSE]
    /\ pc = [t \in Threads |-> "idle"]
    /\ ref = [t \in Threads |-> NoSock]
    /\ slot = [t \in Threads |-> 0]
    /\ terming = [t \in Threads |-> FALSE]
    /\ crashed = FALSE

Set(f, x, v) == f' = [f EXCEPT ![x] = v]
Crash(bad) == crashed' = (crashed \/ bad)

-----------------------------------------------------------------------------
(* The global table. *)

(* Seeded fault: NN_CTX_FLAG_TERMED is not looked at. *)
NnSocketAfterTerm(t, o) ==
    /\ pc[t] = "idle"
    /\ nsocks < MaxSockets
    /\ ostate[o] = "none"
    /\ LET stack == IF inited THEN unused ELSE FreshUnused
       IN /\ Set(socks, stack[MaxSockets - nsocks - 1], o)
          /\ unused' = stack
    /\ nsocks' = nsocks + 1
    /\ inited' = TRUE
    /\ Set(ostate, o, "ACTIVE")
    /\ Set(holds, o, 1)
    /\ UNCHANGED <<flags, eps, sdeps, termsem, relesem, msgs, flagIn, rcvfd,
                   threadVars, crashed>>

(* nn_socket: nn_global_init if needed, nn_global_create_socket and        *)
(* nn_sock_init. Without a free slot, or after nn_term, nothing changes.   *)
NnSocket(t, o) ==
    /\ pc[t] = "idle"
    /\ flags = {}
    /\ nsocks < MaxSockets
    /\ ostate[o] = "none"
    /\ LET stack == IF inited THEN unused ELSE FreshUnused
       IN /\ Set(socks, stack[MaxSockets - nsocks - 1], o)
          /\ unused' = stack
    /\ nsocks' = nsocks + 1
    /\ inited' = TRUE
    /\ Set(ostate, o, "ACTIVE")
    /\ Set(holds, o, 1)
    /\ UNCHANGED <<flags, eps, sdeps, termsem, relesem, msgs, flagIn, rcvfd,
                   threadVars, crashed>>

(* nn_global_hold_socket_locked would succeed with socket o. *)
CanHold(s, o) ==
    /\ inited
    /\ socks[s] = o
    /\ o # NoSock
    /\ ostate[o] = "ACTIVE"

(* What the application promises of the calls that may not race: they are  *)
(* over before nn_close begins, and none begins during nn_term.            *)
Unraced == {"addep", "option"} \ Races
NoneUnraced(o) == \A t \in Threads : ref[t] = o => pc[t] \notin Unraced
NoTermRace(call) == call \in Unraced => "TERMING" \notin flags

(* The beginning of every call that works on a socket. *)
Hold(t, s, call) ==
    /\ pc[t] = "idle"
    /\ NoTermRace(call)
    /\ \E o \in Objs :
        /\ CanHold(s, o)
        /\ Set(holds, o, holds[o] + 1)
        /\ Set(ref, t, o)
    /\ Set(pc, t, call)
    /\ UNCHANGED <<tableVars, flags, ostate, eps, sdeps, termsem, relesem,
                   msgs, flagIn, rcvfd, slot, terming, crashed>>

(* nn_sock_rele; the last one wakes nn_close. *)
Release(o, n) ==
    /\ Set(holds, o, holds[o] - n)
    /\ Set(relesem, o, relesem[o] + (IF holds[o] = n THEN 1 ELSE 0))

(* nn_global_rele_socket, the end of such a call. *)
Rele(t) ==
    /\ pc[t] = "rele"
    /\ Release(ref[t], 1)
    /\ Set(ref, t, NoSock)
    /\ Set(pc, t, "idle")
    /\ UNCHANGED <<tableVars, flags, ostate, eps, sdeps, termsem, msgs, flagIn,
                   rcvfd, slot, terming, crashed>>

-----------------------------------------------------------------------------
(* nn_close. *)

(* The protocol-specific part is destroyed and nn_close may go on. *)
(* Socket types without a stop function get there at once.         *)
StopProtocol(o) ==
    \/ /\ Set(ostate, o, "STOPPING")
       /\ UNCHANGED termsem
    \/ /\ Set(ostate, o, "FINI")
       /\ Set(termsem, o, termsem[o] + 1)

(* Seeded fault: blocked receivers are not woken up. *)
SockStopUnsignalled(o) ==
    /\ Set(eps, o, 0)
    /\ Set(sdeps, o, sdeps[o] + eps[o])
    /\ UNCHANGED rcvfd
    /\ IF eps[o] + sdeps[o] > 0
       THEN Set(ostate, o, "STOPPING_EPS") /\ UNCHANGED termsem
       ELSE StopProtocol(o)

(* Seeded fault: endpoints that nn_shutdown is stopping are overlooked. *)
SockStopIgnoresSdeps(o) ==
    /\ Set(rcvfd, o, TRUE)
    /\ Set(eps, o, 0)
    /\ Set(sdeps, o, sdeps[o] + eps[o])
    /\ IF eps[o] > 0
       THEN Set(ostate, o, "STOPPING_EPS") /\ UNCHANGED termsem
       ELSE StopProtocol(o)

(* nn_sock_shutdown on NN_FSM_STOP. *)
SockStop(o) ==
    /\ Set(rcvfd, o, TRUE)
    /\ Set(eps, o, 0)
    /\ Set(sdeps, o, sdeps[o] + eps[o])
    /\ IF eps[o] + sdeps[o] > 0
       THEN Set(ostate, o, "STOPPING_EPS") /\ UNCHANGED termsem
       ELSE StopProtocol(o)

(* The locked part of nn_close, up to nn_sock_term. *)
CloseSlot(t, s) ==
    /\ \E o \in Objs :
        /\ CanHold(s, o)
        /\ NoneUnraced(o)
        /\ SockStop(o)
        \* one hold is taken, and two are dropped
        /\ Release(o, 1)
        /\ Set(ref, t, o)
    /\ Set(slot, t, s)
    /\ Set(pc, t, "termsem")
    /\ UNCHANGED <<tableVars, flags, msgs, flagIn, terming, crashed>>

NnClose(t, s) ==
    /\ pc[t] = "idle"
    /\ CloseSlot(t, s)

(* nn_sock_term waits for the endpoints and the protocol ... *)
WaitTerm(t) ==
    /\ pc[t] = "termsem"
    /\ termsem[ref[t]] > 0
    /\ Set(termsem, ref[t], termsem[ref[t]] - 1)
    /\ Set(pc, t, "relesem")
    /\ UNCHANGED <<tableVars, flags, ostate, holds, eps, sdeps, relesem, msgs,
                   flagIn, rcvfd, ref, slot, terming, crashed>>

(* Seeded fault: the holds are not waited for. *)
WaitReleNot(t) ==
    /\ pc[t] = "relesem"
    /\ Set(pc, t, "closeend")
    /\ Crash(eps[ref[t]] + sdeps[ref[t]] > 0)
    /\ UNCHANGED <<tableVars, flags, ostate, holds, eps, sdeps, termsem,
                   relesem, msgs, flagIn, rcvfd, ref, slot, terming>>

(* ... then for the holds, and takes the socket apart. *)
WaitRele(t) ==
    /\ pc[t] = "relesem"
    /\ relesem[ref[t]] > 0
    /\ Set(relesem, ref[t], relesem[ref[t]] - 1)
    /\ Set(pc, t, "closeend")
    /\ Crash(eps[ref[t]] + sdeps[ref[t]] > 0)
    /\ UNCHANGED <<tableVars, flags, ostate, holds, eps, sdeps, termsem, msgs,
                   flagIn, rcvfd, ref, slot, terming>>

(* Seeded fault: the slot is pushed after nsocks was decremented. *)
CloseEndSwapped(t) ==
    /\ pc[t] = "closeend"
    /\ Set(socks, slot[t], NoSock)
    /\ Set(unused, MaxSockets - nsocks + 1, slot[t])
    /\ nsocks' = nsocks - 1
    /\ inited' = (nsocks > 1)
    /\ Set(ostate, ref[t], "freed")
    /\ Set(msgs, ref[t], 0)
    /\ Set(flagIn, ref[t], FALSE)
    /\ Set(rcvfd, ref[t], FALSE)
    /\ Set(ref, t, NoSock)
    /\ Set(slot, t, IF terming[t] THEN slot[t] ELSE 0)
    /\ Set(pc, t, IF terming[t] THEN "term" ELSE "idle")
    /\ UNCHANGED <<flags, holds, eps, sdeps, termsem, relesem, terming,
                   crashed>>

(* The slot goes back on the stack; the last socket ends the library. *)
CloseEnd(t) ==
    /\ pc[t] = "closeend"
    /\ Set(socks, slot[t], NoSock)
    /\ Set(unused, MaxSockets - nsocks, slot[t])
    /\ nsocks' = nsocks - 1
    /\ inited' = (nsocks > 1)
    /\ Set(ostate, ref[t], "freed")
    /\ Set(msgs, ref[t], 0)
    /\ Set(flagIn, ref[t], FALSE)
    /\ Set(rcvfd, ref[t], FALSE)
    /\ Set(ref, t, NoSock)
    /\ Set(slot, t, IF terming[t] THEN slot[t] ELSE 0)
    /\ Set(pc, t, IF terming[t] THEN "term" ELSE "idle")
    /\ UNCHANGED <<flags, holds, eps, sdeps, termsem, relesem, terming,
                   crashed>>

-----------------------------------------------------------------------------
(* nn_term and nn_init. *)

NnTerm(t) ==
    /\ pc[t] = "idle"
    /\ flags' = flags \cup {"TERMING"}
    /\ Set(slot, t, 0)
    /\ Set(terming, t, TRUE)
    /\ Set(pc, t, "term")
    /\ UNCHANGED <<tableVars, objVars, ref, crashed>>

(* The loop over all slots: a slot that cannot be closed is skipped. *)
TermSlot(t) ==
    /\ pc[t] = "term"
    /\ slot[t] < MaxSockets
    /\ \/ CloseSlot(t, slot[t])
       \/ /\ \A o \in Objs : ~CanHold(slot[t], o)
          /\ Set(slot, t, slot[t] + 1)
          /\ UNCHANGED <<tableVars, flags, objVars, pc, ref, terming, crashed>>

TermEnd(t) ==
    /\ pc[t] = "term"
    /\ slot[t] = MaxSockets
    /\ flags' = {"TERMED"}
    /\ Set(slot, t, 0)
    /\ Set(terming, t, FALSE)
    /\ Set(pc, t, "idle")
    /\ UNCHANGED <<tableVars, objVars, ref, crashed>>

NnInit(t) ==
    /\ pc[t] = "idle"
    /\ "TERMING" \notin flags
    /\ flags' = flags \ {"TERMED"}
    /\ UNCHANGED <<tableVars, objVars, threadVars, crashed>>

-----------------------------------------------------------------------------
(* The socket. *)

(* nn_sock_onleave with n messages left and f the value of flagIn: signal  *)
(* or unsignal the descriptor. nn_efd_unsignal asserts it was readable.    *)
OnLeave(o, n, f) ==
    /\ Set(msgs, o, n)
    /\ Set(flagIn, o, n > 0)
    /\ Set(rcvfd, o, IF (n > 0) = f THEN rcvfd[o] ELSE n > 0)
    /\ Crash(f /\ n = 0 /\ ~rcvfd[o])

(* A message comes in, from a worker thread. *)
Arrive(o) ==
    /\ ostate[o] = "ACTIVE"
    /\ msgs[o] < MaxMsgs
    /\ OnLeave(o, msgs[o] + 1, flagIn[o])
    /\ UNCHANGED <<tableVars, flags, ostate, holds, eps, sdeps, termsem,
                   relesem, threadVars>>

(* One round of the loop of nn_sock_recv. A thread back from waiting first *)
(* checks the descriptor again. Without a message the call returns         *)
(* (NN_DONTWAIT) or waits.                                                 *)
RecvTry(t) ==
    /\ pc[t] \in {"recv", "recheck"}
    /\ LET o == ref[t]
           f == flagIn[o] \/ (pc[t] = "recheck" /\ rcvfd[o])
       IN \/ /\ ostate[o] # "ACTIVE"
             /\ Set(pc, t, "rele")
             /\ UNCHANGED <<msgs, flagIn, rcvfd, crashed>>
          \/ /\ ostate[o] = "ACTIVE"
             /\ msgs[o] > 0
             /\ OnLeave(o, msgs[o] - 1, f)
             /\ Set(pc, t, "rele")
          \/ /\ ostate[o] = "ACTIVE"
             /\ msgs[o] = 0
             /\ OnLeave(o, 0, f)
             /\ \E next \in {"rele", "wait"} : Set(pc, t, next)
    /\ UNCHANGED <<tableVars, flags, ostate, holds, eps, sdeps, termsem,
                   relesem, ref, slot, terming>>

(* nn_efd_wait returns: the descriptor is readable or was closed. *)
RecvWake(t) ==
    /\ pc[t] = "wait"
    /\ \/ /\ ostate[ref[t]] = "FINI"
          /\ Set(pc, t, "rele")
       \/ /\ ostate[ref[t]] # "FINI"
          /\ rcvfd[ref[t]]
          /\ Set(pc, t, "recheck")
    /\ UNCHANGED <<tableVars, flags, objVars, ref, slot, terming, crashed>>

(* NN_RCVTIMEO is over. *)
RecvTimeout(t) ==
    /\ pc[t] = "wait"
    /\ Set(pc, t, "rele")
    /\ UNCHANGED <<tableVars, flags, objVars, ref, slot, terming, crashed>>

(* nn_sock_add_ep, of nn_bind and nn_connect, whatever the socket's state. *)
AddEp(t) ==
    /\ pc[t] = "addep"
    /\ \/ eps[ref[t]] + sdeps[ref[t]] < MaxEps /\ Set(eps, ref[t], eps[ref[t]] + 1)
       \/ UNCHANGED eps   \* the transport refuses
    /\ Set(pc, t, "rele")
    /\ UNCHANGED <<tableVars, flags, ostate, holds, sdeps, termsem, relesem,
                   msgs, flagIn, rcvfd, ref, slot, terming, crashed>>

(* nn_sock_rm_ep, of nn_shutdown. *)
RmEp(t) ==
    /\ pc[t] = "rmep"
    /\ LET n == IF eps[ref[t]] > 0 THEN 1 ELSE 0
       IN /\ Set(eps, ref[t], eps[ref[t]] - n)
          /\ Set(sdeps, ref[t], sdeps[ref[t]] + n)
    /\ Set(pc, t, "rele")
    /\ UNCHANGED <<tableVars, flags, ostate, holds, termsem, relesem, msgs,
                   flagIn, rcvfd, ref, slot, terming, crashed>>

(* nn_sock_setopt or getopt of a protocol option: uses the protocol part,  *)
(* which FINI has destroyed.                                               *)
Option(t) ==
    /\ pc[t] = "option"
    /\ Crash(ostate[ref[t]] = "FINI")
    /\ Set(pc, t, "rele")
    /\ UNCHANGED <<tableVars, flags, objVars, ref, slot, terming>>

(* NN_EP_STOPPED: an endpoint is gone; the last one lets nn_close go on. *)
EpStopped(o) ==
    /\ sdeps[o] > 0
    /\ Set(sdeps, o, sdeps[o] - 1)
    /\ IF ostate[o] = "STOPPING_EPS" /\ sdeps[o] = 1
       THEN StopProtocol(o) /\ Crash(eps[o] > 0)
       ELSE /\ Crash(ostate[o] \in {"STOPPING", "FINI"})
            /\ UNCHANGED <<ostate, termsem>>
    /\ UNCHANGED <<tableVars, flags, holds, eps, relesem, msgs, flagIn, rcvfd,
                   threadVars>>

(* Seeded fault: nobody posts termsem. *)
ProtocolStoppedSilent(o) ==
    /\ ostate[o] = "STOPPING"
    /\ Set(ostate, o, "FINI")
    /\ UNCHANGED <<tableVars, flags, holds, eps, sdeps, termsem, relesem,
                   msgs, flagIn, rcvfd, threadVars, crashed>>

(* NN_SOCK_ACTION_STOPPED: the protocol has stopped. *)
ProtocolStopped(o) ==
    /\ ostate[o] = "STOPPING"
    /\ Set(ostate, o, "FINI")
    /\ Set(termsem, o, termsem[o] + 1)
    /\ UNCHANGED <<tableVars, flags, holds, eps, sdeps, relesem, msgs, flagIn,
                   rcvfd, threadVars, crashed>>

-----------------------------------------------------------------------------
(* What a thread inside a call does next without the application's help. *)
Continue(t) ==
    \/ Rele(t)
    \/ WaitTerm(t)
    \/ WaitRele(t)
    \/ CloseEnd(t)
    \/ TermSlot(t)
    \/ TermEnd(t)
    \/ RecvTry(t)
    \/ RecvWake(t)
    \/ AddEp(t)
    \/ RmEp(t)
    \/ Option(t)

Next ==
    \/ \E t \in Threads :
        \/ \E o \in Objs : NnSocket(t, o)
        \/ \E s \in Slots, call \in HeldCalls : Hold(t, s, call)
        \/ \E s \in Slots : NnClose(t, s)
        \/ RecvTimeout(t)
        \/ Continue(t)
    \/ \E t \in Terminators : NnTerm(t) \/ NnInit(t)
    \/ \E o \in Objs : Arrive(o) \/ EpStopped(o) \/ ProtocolStopped(o)

Spec == Init /\ [][Next]_vars

(* Threads are scheduled, and worker threads stop what was asked to stop. *)
FairSpec ==
    /\ Spec
    /\ \A t \in Threads : WF_vars(Continue(t))
    /\ \A o \in Objs : WF_vars(EpStopped(o)) /\ WF_vars(ProtocolStopped(o))

-----------------------------------------------------------------------------
(***************************************************************************)
(* Properties.                                                             *)
(***************************************************************************)

(* A socket is not freed while a call works on it: "The socket itself will *)
(* not be freed while the hold is active." (core/global.c:1112-1113) The   *)
(* holds of a socket are the calls that work on it, and one for the        *)
(* application until nn_close: so relesem is posted once, by the last one, *)
(* and not before the socket is closed. And the state has its type.        *)
Holders(o) == {t \in Threads : pc[t] \in InCall /\ ref[t] = o}

HeldIsAlive ==
    /\ TypeOK
    /\ \A t \in Threads :
          pc[t] \in InCall \cup InClose => ostate[ref[t]] \notin {"none", "freed"}
    /\ \A o \in Objs :
          /\ holds[o] = Cardinality(Holders(o))
                        + (IF ostate[o] = "ACTIVE" THEN 1 ELSE 0)
          /\ relesem[o] + termsem[o] <= 2
          /\ relesem[o] > 0 => Holders(o) = {} /\ ostate[o] # "ACTIVE"

(* The stack of unused slots and the table agree: the slots on the stack   *)
(* are the empty ones, each once, and the sockets in the table are those   *)
(* not freed yet, each in one slot. Otherwise nn_socket would hand out a   *)
(* descriptor that is in use.                                              *)
TableConsistent ==
    inited =>
    LET free == 0 .. MaxSockets - nsocks - 1
    IN /\ {unused[i] : i \in free} = {s \in Slots : socks[s] = NoSock}
       /\ \A i, j \in free : unused[i] = unused[j] => i = j
       /\ {socks[s] : s \in Slots} \ {NoSock}
            = {o \in Objs : ostate[o] \notin {"none", "freed"}}
       /\ Cardinality({s \in Slots : socks[s] # NoSock}) = nsocks

(* A receiver that waits is woken up: when there is a message, and when    *)
(* the socket is closed, the descriptor it polls is readable.              *)
NoLostWakeup ==
    \A t \in Threads :
        pc[t] = "wait" /\ (msgs[ref[t]] > 0 \/ ostate[ref[t]] # "ACTIVE")
            => rcvfd[ref[t]]

(* None of the assertions is reached: nn_efd_unsignal finds the descriptor *)
(* readable, the endpoints are gone when the protocol is stopped and when  *)
(* the socket is taken apart, and no call uses a destroyed protocol part.  *)
NoCrash == ~crashed

(* "nn_assert (nn_list_empty (&sock->eps));" (core/sock.c:888): once the   *)
(* endpoints of a closing socket have been stopped, it has none left.      *)
EpsStopped ==
    \A o \in Objs : ostate[o] \in {"STOPPING", "FINI"} => eps[o] = 0

(* After nn_term no socket is usable until nn_init, whatever was opened,   *)
(* closed or in use while nn_term went through the table.                  *)
TermedIsClosed ==
    "TERMED" \in flags => \A o \in Objs : ostate[o] # "ACTIVE"

(* A thread in nn_close or nn_term gets out: receivers blocked on the      *)
(* socket are woken and release it, and both semaphores are posted.        *)
CloseReturns ==
    \A t \in Threads : pc[t] \in InClose \cup {"term"} ~> pc[t] = "idle"
=============================================================================
