--------------------------------- MODULE Inproc ---------------------------------
(***************************************************************************)
(* The inproc transport: endpoints that find each other in a table         *)
(* (inproc/ins.c), bound ones (binproc.c) and connected ones (cinproc.c),  *)
(* and the two halves of a connection (sinproc.c) with their queues        *)
(* (msgqueue.c), each half in the context of its own socket.               *)
(*                                                                         *)
(* What a thread does inside a context is one step: nn_ctx_leave delivers  *)
(* the events of the context itself before it unlocks. The events for      *)
(* other contexts (nn_fsm_raiseto, nn_ctx.eventsto) are delivered by the   *)
(* same thread afterwards, one lock at a time, so the steps of threads     *)
(* interleave there. Delivering an event may raise others, which go first: *)
(* a thread keeps a stack of queues.                                       *)
(*                                                                         *)
(* A half of a connection is named by its endpoint and the other one.      *)
(***************************************************************************)
EXTENDS Naturals, Sequences, FiniteSetsExt

CONSTANTS Binders,     \* endpoints that bind to the address
          Connecters,  \* endpoints that connect to it
          Senders,     \* endpoints whose protocol sends (a PULL does not)
          Threads,
          MaxMsgs,     \* bound on the messages sent in each direction
          MaxMem       \* NN_RCVBUF, in messages

ASSUME InprocAssumption == MaxMsgs \in Nat /\ MaxMem \in Nat

Eps == Binders \cup Connecters
Halves == (Binders \X Connecters) \cup (Connecters \X Binders)
Peer(x) == <<x[2], x[1]>>

VARIABLES ep,         \* state of each endpoint
          bound,      \* nn_ins.bound
          connected,  \* nn_ins.connected, in order
          s,          \* the halves
          thr,        \* for each thread, its stack of eventsto queues
          sent,       \* messages accepted from the user of each half
          delivered,  \* messages passed to the user of each half, in order
          failed,     \* what ended the process, or ""
          trouble     \* what has happened that sinproc.c is not prepared for

vars == <<ep, bound, connected, s, thr, sent, delivered, failed, trouble>>

(* No half: nothing is allocated. peer says that sinproc.peer is set; msg  *)
(* is the message exposed to the peer, 0 for none.                         *)
NoHalf == [st |-> "NONE", fsm |-> "IDLE", peer |-> FALSE, sending |-> FALSE,
           receiving |-> FALSE, queue |-> <<>>, msg |-> 0, pipe |-> "IDLE",
           in |-> "DEACTIVATED", out |-> "DEACTIVATED"]

Init ==
    /\ ep = [e \in Eps |-> "NONE"]
    /\ bound = {} /\ connected = <<>>
    /\ s = [x \in Halves |-> NoHalf]
    /\ thr = [t \in Threads |-> <<>>]
    /\ sent = [x \in Halves |-> 0]
    /\ delivered = [x \in Halves |-> <<>>]
    /\ failed = "" /\ trouble = {}

-----------------------------------------------------------------------------
(* A step is computed on a record: the variables, and evq, the events of   *)
(* the context, out, its eventsto.                                         *)

World == [ep |-> ep, bound |-> bound, connected |-> connected, s |-> s,
          thr |-> thr, sent |-> sent, delivered |-> delivered,
          failed |-> failed, trouble |-> trouble, evq |-> <<>>, out |-> <<>>]

Abort(w, where) == [w EXCEPT !.failed = IF @ = "" THEN where ELSE @]
Check(w, cond, where) == IF cond THEN w ELSE Abort(w, where)

InQueue(q, obj) == \E k \in DOMAIN q : q[k].obj = obj

(* nn_fsm_event_active. *)
Active(w, obj) ==
    \/ InQueue(w.evq, obj) \/ InQueue(w.out, obj)
    \/ \E t \in Threads : \E k \in DOMAIN w.thr[t] : InQueue(w.thr[t][k], obj)

Push(w, e) == Check(w, ~Active(w, e.obj), "event queued twice")

(* nn_fsm_raise to the owner of the half x. *)
Raise(w, x, name, type) ==
    LET e == [obj |-> <<x, name>>, to |-> <<x[1]>>, type |-> type, from |-> x]
    IN [Push(w, e) EXCEPT !.evq = Append(@, e)]

(* nn_fsm_raiseto, of the event object obj to the machine to: an endpoint  *)
(* <<e>> or a half.                                                        *)
RaiseTo(w, x, to, obj, type) ==
    LET e == [obj |-> obj, to |-> to, type |-> type, from |-> x]
    IN [Push(w, e) EXCEPT !.out = Append(@, e)]

(* The peer of x, by its pointer. *)
RaiseToPeer(w, x, name, type) ==
    CASE ~w.s[x].peer -> Abort(w, "peer is NULL")
      [] w.s[Peer(x)].st = "NONE" -> Abort(w, "peer is freed")
      [] OTHER -> RaiseTo(w, x, Peer(x), <<Peer(x), name>>, type)

-----------------------------------------------------------------------------
(* nn_msgqueue: one message may always enter, others as long as there is   *)
(* room for one more: the queue holds MaxMem - 1 messages.                 *)

MsgqueueFull(q) == q # <<>> /\ Len(q) + 1 >= MaxMem

-----------------------------------------------------------------------------
(* nn_pipebase, and the protocol above it: it sends and receives as soon   *)
(* as it may ("now"), or when the user asks (o.use).                       *)

(* nn_sinproc_send, in nn_pipe_send. *)
SinprocSend(w, x) ==
    LET w1 == Check(w, w.s[x].st = "ACTIVE" /\ ~w.s[x].sending, "sinproc: send")
        w2 == [w1 EXCEPT !.s[x].msg = w.sent[x] + 1, !.sent[x] = @ + 1,
                         !.s[x].sending = TRUE]
    IN RaiseToPeer(w2, x, "sent", "SENT")

PipeSend(w, x) ==
    [SinprocSend(Check(w, w.s[x].out = "IDLE", "pipe: send"), x)
        EXCEPT !.s[x].out = "ASYNC"]

(* Seeded fault: a message that waits outside is left there. *)
SinprocRecvForgetful(w, x) ==
    [w EXCEPT !.delivered[x] = Append(@, Head(w.s[x].queue)), !.s[x].queue = Tail(@)]

(* nn_sinproc_recv, in nn_pipe_recv: a message that waits outside the queue*)
(* gets in now.                                                            *)
SinprocRecv(w, x) ==
    LET w1 == Check(w, w.s[x].st \in {"ACTIVE", "DISCONNECTED"} /\ w.s[x].queue # <<>>,
                    "sinproc: recv")
        rest == Tail(w.s[x].queue)
        w2 == [w1 EXCEPT !.delivered[x] = Append(@, Head(w.s[x].queue)),
                         !.s[x].queue = rest]
        waits == w.s[x].receiving /\ w.s[x].st # "DISCONNECTED" /\ ~MsgqueueFull(rest)
        w3 == [w2 EXCEPT !.s[x].queue = Append(@, w.s[Peer(x)].msg),
                         !.s[Peer(x)].msg = 0, !.s[x].receiving = FALSE]
    IN CASE w1.failed # "" -> w1
         [] w1.failed = "" /\ waits -> RaiseToPeer(w3, x, "received", "RECEIVED")
         [] OTHER -> w2

PipeRecv(w, x) ==
    LET w1 == SinprocRecv(Check(w, w.s[x].in = "IDLE", "pipe: recv"), x)
    IN [w1 EXCEPT !.s[x].in = IF w1.s[x].queue # <<>> THEN "IDLE" ELSE "ASYNC"]

(* NN_PIPE_OUT and NN_PIPE_IN reach the protocol. *)
MaySend(w, x) == x[1] \in Senders /\ w.sent[x] < MaxMsgs
SockOut(w, x, o) == IF o.use /\ MaySend(w, x) THEN PipeSend(w, x) ELSE w
SockIn(w, x, o)  == IF o.use THEN PipeRecv(w, x) ELSE w

PipeStart(w, x, o) ==
    LET w1 == Check(w, w.s[x].pipe = "IDLE", "pipe: started twice")
    IN IF o.refused THEN [w1 EXCEPT !.s[x].pipe = "FAILED"]
       ELSE Raise([w1 EXCEPT !.s[x].pipe = "ACTIVE", !.s[x].in = "ASYNC",
                             !.s[x].out = "IDLE"], x, "out", "OUT")

PipeStop(w, x) == [w EXCEPT !.s[x].pipe = "IDLE"]

PipeReceived(w, x) ==
    Raise([Check(w, w.s[x].in = "ASYNC", "pipe: received")
              EXCEPT !.s[x].in = "IDLE"], x, "in", "IN")

PipeSent(w, x) ==
    Raise([Check(w, w.s[x].out = "ASYNC", "pipe: sent")
              EXCEPT !.s[x].out = "IDLE"], x, "out", "OUT")

-----------------------------------------------------------------------------
(* nn_sinproc. *)

SinprocInit(w, x) == [w EXCEPT !.s[x] = [NoHalf EXCEPT !.st = "IDLE"]]

(* nn_sinproc_connect and nn_sinproc_accept. *)
SinprocConnect(w, x) ==
    RaiseTo([w EXCEPT !.s[x].st = "CONNECTING", !.s[x].fsm = "ACTIVE"],
            x, <<x[2]>>, <<x, "connect">>, "CONNECT")

SinprocAccept(w, x) ==
    RaiseTo([w EXCEPT !.s[x].st = "READY", !.s[x].fsm = "ACTIVE",
                      !.s[x].peer = TRUE],
            x, Peer(x), <<x, "connect">>, "READY")

(* The end of nn_sinproc_shutdown. Events that are still under way to this *)
(* half are waited for.                                                    *)
SinprocFinish(w, x) ==
    LET w1 == Check(w, ~Active(w, <<x, "connect">>) /\ ~Active(w, <<x, "sent">>),
                    "sinproc: event deemed impossible")
    IN IF w.s[x].st # "STOPPING" \/ Active(w, <<x, "received">>)
          \/ Active(w, <<x, "disconnect">>)
       THEN w
       ELSE Raise([w1 EXCEPT !.s[x].fsm = "IDLE"], x, "stopped", "STOPPED")

SinprocShutdown(w, x, type) ==
    LET st == w.s[x].st
    IN CASE type = "RECEIVED" -> SinprocFinish(w, x)
         [] st = "STOPPING_PEER" /\ type = "DISCONNECT" ->
               SinprocFinish([w EXCEPT !.s[x].st = "STOPPING"], x)
         [] st = "STOPPING_PEER" /\ type \in {"SENT", "READY", "ACCEPTED"} -> w
         [] OTHER -> Abort(w, "sinproc: shutdown")

(* Seeded fault: the peer is not waited for. *)
SinprocStopAtOnce(w, x) ==
    LET w1 == RaiseToPeer(PipeStop([w EXCEPT !.s[x].fsm = "STOPPING"], x),
                          x, "disconnect", "DISCONNECT")
    IN IF w.s[x].fsm # "ACTIVE" THEN w
       ELSE SinprocFinish([w1 EXCEPT !.s[x].st = "STOPPING"], x)

(* nn_sinproc_stop, with the NN_FSM_STOP part of the shutdown. *)
SinprocStop(w, x) ==
    LET w1 == [w EXCEPT !.s[x].fsm = "STOPPING"]
        w2 == RaiseToPeer(PipeStop(w1, x), x, "disconnect", "DISCONNECT")
    IN CASE w.s[x].fsm # "ACTIVE" -> w
         [] w.s[x].st \in {"IDLE", "DISCONNECTED"} ->
               SinprocFinish([w1 EXCEPT !.s[x].st = "STOPPING"], x)
         [] OTHER -> [w2 EXCEPT !.s[x].st = "STOPPING_PEER"]

(* nn_sinproc_term; the memory goes with it. *)
SinprocTerm(w, x) ==
    [Check(w, /\ w.s[x].pipe = "IDLE" /\ w.s[x].fsm = "IDLE"
              /\ \A name \in {"connect", "sent", "received", "disconnect",
                              "in", "out", "stopped"} : ~Active(w, <<x, name>>),
           "sinproc freed while in use")
        EXCEPT !.s[x] = NoHalf]

(* The handshake: CONNECTING and READY. *)
SinprocHandshake(w, x, type, o) ==
    LET w0 == [w EXCEPT !.trouble = IF o.refused THEN @ \cup {"refused"} ELSE @]
        w1 == PipeStart([w0 EXCEPT !.s[x].peer = TRUE], x, o)
        up == [w1 EXCEPT !.s[x].st = "ACTIVE"]
        refused == [PipeStop(w1, x) EXCEPT !.s[x].st = "DISCONNECTED",
                                           !.s[x].peer = FALSE]
    IN CASE w.s[x].st = "CONNECTING" /\ type = "READY" ->
               IF o.refused THEN Abort(w0, "sinproc: pipe refused")
               ELSE RaiseTo(up, x, Peer(x), <<x, "connect">>, "ACCEPTED")
         [] w.s[x].st = "READY" /\ type = "READY" ->
               IF o.refused THEN Abort(w0, "sinproc: pipe refused") ELSE up
         [] w.s[x].st = "READY" /\ type = "ACCEPTED" ->
               IF o.refused THEN Raise(refused, x, "disconnect", "DISCONNECT") ELSE up
         [] OTHER -> Abort(w, "sinproc: handshake")

(* Seeded fault: a message gets in before those that wait in the queue. *)
SinprocSentFirst(w, x) ==
    LET q  == w.s[x].queue
        w1 == [w EXCEPT !.s[x].queue = <<w.s[Peer(x)].msg>> \o q, !.s[Peer(x)].msg = 0]
        w2 == IF q = <<>> THEN PipeReceived(w1, x) ELSE w1
    IN IF MsgqueueFull(q) THEN [w EXCEPT !.s[x].receiving = TRUE]
       ELSE RaiseToPeer(w2, x, "received", "RECEIVED")

(* ACTIVE, SENT: the message moves from the peer's half into the queue. *)
SinprocSent(w, x) ==
    LET q  == w.s[x].queue
        w1 == [w EXCEPT !.s[x].queue = Append(q, w.s[Peer(x)].msg), !.s[Peer(x)].msg = 0]
        w2 == IF q = <<>> THEN PipeReceived(w1, x) ELSE w1
    IN IF MsgqueueFull(q) THEN [w EXCEPT !.s[x].receiving = TRUE]
       ELSE RaiseToPeer(w2, x, "received", "RECEIVED")

(* Seeded fault: the peer that disconnects gets no answer. *)
SinprocActiveSilent(w, x, type) ==
    CASE type = "SENT" -> SinprocSent(w, x)
      [] type = "RECEIVED" -> PipeSent([w EXCEPT !.s[x].sending = FALSE], x)
      [] OTHER -> Raise([PipeStop(w, x) EXCEPT !.s[x].st = "DISCONNECTED",
                                               !.s[x].peer = FALSE],
                        x, "disconnect", "DISCONNECT")

(* ACTIVE and DISCONNECTED. *)
SinprocActive(w, x, type) ==
    LET w1 == RaiseToPeer(PipeStop(w, x), x, "disconnect", "DISCONNECT")
        w2 == [w1 EXCEPT !.s[x].st = "DISCONNECTED", !.s[x].peer = FALSE]
    IN CASE w.s[x].st = "ACTIVE" /\ type = "SENT" -> SinprocSent(w, x)
         [] w.s[x].st = "ACTIVE" /\ type = "RECEIVED" ->
               PipeSent([Check(w, w.s[x].sending, "sinproc: received")
                             EXCEPT !.s[x].sending = FALSE], x)
         [] w.s[x].st = "ACTIVE" /\ type = "DISCONNECT" ->
               Raise(w2, x, "disconnect", "DISCONNECT")
         [] w.s[x].st = "DISCONNECTED" /\ type = "RECEIVED" -> w
         [] OTHER -> Abort(w, "sinproc: active")

SinprocFeed(w, x, type, o) ==
    CASE w.s[x].st = "NONE" -> Abort(w, "event to a freed half")
      [] w.s[x].fsm = "STOPPING" -> SinprocShutdown(w, x, type)
      [] w.s[x].st \in {"CONNECTING", "READY"} -> SinprocHandshake(w, x, type, o)
      [] OTHER -> SinprocActive(w, x, type)

-----------------------------------------------------------------------------
(* nn_binproc and nn_cinproc. *)

HalvesOf(w, e) == {x \in Halves : x[1] = e /\ w.s[x].st # "NONE"}

(* The end of both shutdown functions: nn_ep_stopped, whose events lead to *)
(* the destruction of the endpoint.                                        *)
EpFinish(w, e) == IF HalvesOf(w, e) = {} THEN [w EXCEPT !.ep[e] = "GONE"] ELSE w

(* CONNECT: the peer has started the handshake. *)
AcceptHalf(w, e, from) ==
    SinprocAccept(SinprocInit(w, Peer(from)), Peer(from))

BinprocFeed(w, e, type, from) ==
    CASE w.ep[e] = "ACTIVE" /\ type = "CONNECT"    -> AcceptHalf(w, e, from)
      [] w.ep[e] = "ACTIVE" /\ type = "STOPPED"    -> SinprocTerm(w, from)
      [] w.ep[e] = "ACTIVE" /\ type = "DISCONNECT" -> SinprocStop(w, from)
      [] w.ep[e] = "STOPPING" /\ type = "STOPPED" -> EpFinish(SinprocTerm(w, from), e)
      [] OTHER -> Abort(w, "binproc: event")

(* nn_cinproc_shutdown takes every event for a STOPPED of the half it      *)
(* comes from.                                                             *)
CinprocFeed(w, e, type, from) ==
    CASE w.ep[e] = "ACTIVE" /\ type = "CONNECT" -> AcceptHalf(w, e, from)
      [] w.ep[e] = "ACTIVE" /\ type \in {"DISCONNECT", "STOPPED"} -> w
      [] w.ep[e] = "STOPPING" /\ from[1] = e -> EpFinish(SinprocTerm(w, from), e)
      [] OTHER -> Abort(w, "cinproc: event")

EpFeed(w, e, type, from) ==
    CASE w.ep[e] = "GONE" -> Abort(w, "event to a freed endpoint")
      [] OTHER -> IF e \in Binders THEN BinprocFeed(w, e, type, from)
                                   ELSE CinprocFeed(w, e, type, from)

(* nn_ctx_leave, as long as there are events in the context. *)
LocalEvent(w, o) ==
    LET e  == Head(w.evq)
        w1 == [w EXCEPT !.evq = Tail(@)]
        x  == e.from
    IN CASE w.evq = <<>> \/ w.failed # "" -> w
         [] w.evq # <<>> /\ e.type = "OUT" -> SockOut(w1, x, o)
         [] w.evq # <<>> /\ e.type = "IN"  -> SockIn(w1, x, o)
         [] OTHER -> EpFeed(w1, x[1], e.type, x)

MaxLocal == 2 * Cardinality(Eps) + 3
Leave(w, o) ==
    LET f[n \in 0..MaxLocal] == IF n = 0 THEN w ELSE LocalEvent(f[n - 1], o)
    IN f[MaxLocal]

-----------------------------------------------------------------------------
(* The steps. *)

Running == failed = ""

Decisions == [use : BOOLEAN, refused : BOOLEAN]

(* Thread t leaves the context after w: its queue goes on the stack. *)
Done(t, w, o) ==
    LET v1 == Leave(w, o)
        v  == Check(v1, v1.evq = <<>>, "context left with events")
    IN /\ ep' = v.ep /\ bound' = v.bound /\ connected' = v.connected
       /\ s' = v.s /\ sent' = v.sent /\ delivered' = v.delivered
       /\ failed' = v.failed /\ trouble' = v.trouble
       /\ thr' = IF v.out = <<>> THEN v.thr ELSE [v.thr EXCEPT ![t] = <<v.out>> \o @]

FreeThread(t) == Running /\ thr[t] = <<>>

(* A call begins. There is trouble ahead when another thread has not       *)
(* finished the making or the breaking of a connection, or, if the call is *)
(* a stop, anything.                                                       *)
Setup == {"CONNECT", "READY", "ACCEPTED", "DISCONNECT"}
UnderWay(types) ==
    \E t \in Threads : \E k \in DOMAIN thr[t] : \E j \in DOMAIN thr[t][k] :
        thr[t][k][j].type \in types
Begin(types) ==
    [World EXCEPT !.trouble = IF UnderWay(types) THEN @ \cup {"overlap"} ELSE @]

(* nn_ins_bind: the address is free; every connecter that waits gets a     *)
(* connection.                                                             *)
Bind(t, e) ==
    /\ FreeThread(t) /\ ep[e] = "NONE"
    /\ bound = {}
    /\ LET w0 == [Begin(Setup) EXCEPT !.ep[e] = "ACTIVE", !.bound = {e}]
           f[n \in 0..Len(connected)] ==
              IF n = 0 THEN w0
              ELSE SinprocConnect(SinprocInit(f[n - 1], <<e, connected[n]>>),
                                  <<e, connected[n]>>)
       IN \E o \in Decisions : Done(t, f[Len(connected)], o)

(* EADDRINUSE. *)
BindRefused(t, e) ==
    /\ FreeThread(t) /\ ep[e] = "NONE"
    /\ bound # {}
    /\ Done(t, [Begin(Setup) EXCEPT !.ep[e] = "REFUSED"], [use |-> FALSE, refused |-> FALSE])

(* nn_ins_connect. *)
Connect(t, e) ==
    /\ FreeThread(t) /\ ep[e] = "NONE"
    /\ LET w0 == [Begin(Setup) EXCEPT !.ep[e] = "ACTIVE", !.connected = Append(@, e)]
           x  == <<e, CHOOSE b \in bound : TRUE>>
           w1 == IF bound = {} THEN w0 ELSE SinprocConnect(SinprocInit(w0, x), x)
       IN \E o \in Decisions : Done(t, w1, o)

(* nn_ep_stop of either: out of the table, and all halves are stopped. *)
Stop(t, e) ==
    /\ FreeThread(t) /\ ep[e] = "ACTIVE"
    /\ LET other(c) == c # e
           w0 == [Begin(Setup \cup {"SENT", "RECEIVED"})
                     EXCEPT !.bound = @ \ {e}, !.connected = SelectSeq(@, other)]
           halted == FoldSet(LAMBDA x, w : SinprocStop(w, x), w0, HalvesOf(World, e))
           w1 == [halted EXCEPT !.ep[e] = "STOPPING"]
       IN \E o \in Decisions : Done(t, EpFinish(w1, e), o)

Send(t, x) ==
    /\ FreeThread(t)
    /\ s[x].pipe = "ACTIVE" /\ s[x].out = "IDLE" /\ MaySend(World, x)
    /\ \E o \in Decisions : Done(t, PipeSend(Begin(Setup), x), o)

Recv(t, x) ==
    /\ FreeThread(t)
    /\ s[x].pipe = "ACTIVE" /\ s[x].in = "IDLE"
    /\ \E o \in Decisions : Done(t, PipeRecv(Begin(Setup), x), o)

(* The next event for another context. *)
Deliver(t) ==
    /\ Running /\ thr[t] # <<>>
    /\ LET q == Head(thr[t])
           e == Head(q)
           rest == IF Len(q) = 1 THEN Tail(thr[t]) ELSE <<Tail(q)>> \o Tail(thr[t])
           w == [World EXCEPT !.thr[t] = rest]
       IN \E o \in Decisions :
            Done(t, IF Len(e.to) = 1 THEN EpFeed(w, e.to[1], e.type, e.from)
                                     ELSE SinprocFeed(w, e.to, e.type, o), o)

Next ==
    \E t \in Threads :
        \/ Deliver(t)
        \/ \E e \in Binders : Bind(t, e) \/ BindRefused(t, e)
        \/ \E e \in Connecters : Connect(t, e)
        \/ \E e \in Eps : Stop(t, e)
        \/ \E x \in Halves : Send(t, x) \/ Recv(t, x)

(* A thread that has events to deliver goes on until it has none: what     *)
(* WF_vars(Deliver(t)) comes to, checked much faster.                      *)
Fairness == \A t \in Threads : []<>(thr[t] = <<>> \/ failed # "")

Spec == Init /\ [][Next]_vars /\ Fairness

-----------------------------------------------------------------------------
(* Properties. *)

(* The connection machinery hits none of its assertions and touches no     *)
(* memory that is freed, as long as no call of another thread overlaps the *)
(* making or the stopping of a connection and the protocol refuses no      *)
(* pipe. Both of these do end the process, in ten different ways:          *)
(* sinproc.c has no protection against an event that is still under way    *)
(* between two contexts.                                                   *)
FailsOnlyInTrouble == failed # "" => trouble # {}

Both(x, state) == s[x].st = state /\ s[Peer(x)].st = state

(* Messages arrive complete and in order, whatever the queue's limit, and  *)
(* none is lost or doubled on its way from the sender's half through the   *)
(* receiver's queue.                                                       *)
InOrder ==
    \A x \in Halves :
        LET y == Peer(x)
            way == delivered[y] \o s[y].queue
                   \o (IF s[x].msg = 0 THEN <<>> ELSE <<s[x].msg>>)
        IN /\ delivered[y] = [k \in 1..Len(delivered[y]) |-> k]
           /\ Running /\ Both(x, "ACTIVE") => way = [k \in 1..sent[x] |-> k]

(* A sender that waits is not forgotten: its message is announced, or kept *)
(* waiting by a full queue that the user is told to read, or it has been   *)
(* taken and the answer is under way.                                      *)
NoStuckSender ==
    Running => \A x \in Halves :
        Both(x, "ACTIVE") /\ s[x].sending =>
            \/ Active(World, <<Peer(x), "sent">>)
            \/ Active(World, <<x, "received">>)
            \/ s[Peer(x)].receiving /\ s[Peer(x)].in = "IDLE"

LifeOf(e) ==
    CASE failed # "" -> "crashed"
      [] ep[e] = "NONE" -> "none"
      [] ep[e] = "ACTIVE" -> "running"
      [] ep[e] = "STOPPING" -> "stopping"
      [] ep[e] = "GONE" -> "gone"
      [] ep[e] = "REFUSED" -> "refused"

OfferOf(x) ==
    LET on == Running /\ s[x].pipe = "ACTIVE"
    IN [on |-> on, snd |-> on /\ s[x].out = "IDLE", rcv |-> on /\ s[x].in = "IDLE"]

ABinder == CHOOSE e \in Binders : TRUE
AConnecter == CHOOSE e \in Connecters : TRUE

BoundEndpoint == INSTANCE AbsEndpoint WITH
    Pipes <- Connecters,
    life  <- LifeOf(ABinder),
    offer <- [f \in Connecters |-> OfferOf(<<ABinder, f>>)]

ConnectedEndpoint == INSTANCE AbsEndpoint WITH
    Pipes <- Binders,
    life  <- LifeOf(AConnecter),
    offer <- [f \in Binders |-> OfferOf(<<AConnecter, f>>)]

(* The transport keeps what it promises its socket. *)
KeepsContract == BoundEndpoint!Spec /\ ConnectedEndpoint!Spec
=============================================================================
