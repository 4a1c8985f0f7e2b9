--------------------------------- MODULE Stream ---------------------------------
(***************************************************************************)
(* One endpoint of the tcp, ipc or ws transport, alone with its socket, the*)
(* worker thread, the operating system and a peer that does what it likes. *)
(* The modules below it hold the code; here is who runs it and when.       *)
(*                                                                         *)
(* Everything that touches the endpoint runs inside the context of its     *)
(* socket (aio/ctx.c): the thread that leaves the context first delivers   *)
(* the events raised meanwhile, one after the other. So an action of any   *)
(* thread starts with an empty queue, and Deliver empties it. The worker   *)
(* thread (aio/worker_posix.inc) feeds tasks, descriptor events and timers.*)
(***************************************************************************)
EXTENDS Listener, FiniteSets

CONSTANTS Roles,      \* transports and sides looked at
          Frames,     \* headers of frames a ws peer may send
          ExtLengths, \* extended lengths of frames
          Texts,      \* payloads of the text frames a ws peer may send
          Uses        \* when the protocol uses a pipe that is ready

VARIABLES role, st, fsm, evq, tasks, batch, failed, us, ss, pb, ws, addr,
          gone, inprogress, acc, list, lis

vars == <<role, st, fsm, evq, tasks, batch, failed, us, ss, pb, ws, addr,
          gone, inprogress, acc, list, lis>>

World ==
    [role |-> role, st |-> st, fsm |-> fsm, evq |-> evq, tasks |-> tasks,
     batch |-> batch, failed |-> failed, us |-> us, ss |-> ss, pb |-> pb,
     ws |-> ws, addr |-> addr, gone |-> gone, inprogress |-> inprogress,
     acc |-> acc, list |-> list, lis |-> lis]

Becomes(w) ==
    /\ role' = w.role /\ st' = w.st /\ fsm' = w.fsm /\ evq' = w.evq
    /\ tasks' = w.tasks /\ batch' = w.batch /\ failed' = w.failed
    /\ us' = w.us /\ ss' = w.ss /\ pb' = w.pb /\ ws' = w.ws
    /\ addr' = w.addr /\ gone' = w.gone /\ inprogress' = w.inprogress
    /\ acc' = w.acc /\ list' = w.list /\ lis' = w.lis

NnEp == <<"nn_ep", 0>>

Machines == {Ep, NnEp, Dns} \cup {U(i) : i \in 0..NConn} \cup {Tmr(i) : i \in 0..NConn}
            \cup {Hdr(i) : i \in Conns} \cup {Sess(i) : i \in Conns}
            \cup {Conn(i) : i \in Conns}

SocketOwner(r, i) ==
    IF i = 0 \/ ~r.bind THEN <<Ep, "USOCK">> ELSE <<Conn(i), "USOCK">>

Init ==
    /\ role \in Roles
    /\ st = [m \in Machines |-> "IDLE"]
    /\ fsm = [m \in Machines |-> "IDLE"]
    /\ evq = <<>> /\ tasks = <<>> /\ batch = 0 /\ failed = ""
    /\ us = [i \in 0..NConn |-> ClosedSocket(SocketOwner(role, i))]
    /\ ss = [i \in Conns |-> NoSession]
    /\ pb = [i \in Conns |-> NoPipe]
    /\ ws = [i \in Conns |-> NoWs]
    /\ addr = FALSE /\ gone = FALSE /\ inprogress = 0
    /\ acc = None /\ list = <<>> /\ lis = {}

-----------------------------------------------------------------------------
(* The outside world. io is what the next system call of the step returns, *)
(* data what a step finds out or receives otherwise.                       *)

Attempts == IF role.tran = "ipc" THEN {"connect", "nosocket"}
            ELSE {"connect", "nosocket", "noiface", "nobind"}

Incomplete == {"more", "toolong", "full", "after_end", "nul"}
Answers == CASE role.tran # "ws" -> {"valid", "invalid"}
             [] role.bind -> Incomplete \cup {"valid", "malformed",
                   "missing_header", "not_websocket", "other_version",
                   "not_a_peer", "unknown_type"}
             [] OTHER -> Incomplete \cup {"valid", "malformed",
                   "missing_header", "not_websocket", "not_101", "other_key"}

Payloads(n) == {t \in Texts : Len(t) = n}

Received(i) ==
    CASE ss[i].in = "HDR" -> {"empty", "body", "toobig"}
                             \cup IF role.tran = "ipc" THEN {"shmem"} ELSE {}
      [] ss[i].in = "RECV_HDR" -> Frames
      [] ss[i].in = "RECV_HDREXT" /\ ws[i].frame.ctl > 125 -> ExtLengths
      [] ss[i].in = "RECV_PAYLOAD" ->
            IF IsText(ws[i]) THEN Payloads(ws[i].frame.len) ELSE {"-"}
      [] OTHER -> {"-"}

DataOf(e) ==
    LET kind == e.to[1]
        i == e.to[2]
    IN CASE kind = "hdr" /\ e.type = "RECEIVED" -> Answers
         [] kind = "sess" /\ e.type = "RECEIVED" -> Received(i)
         [] kind = "sess" /\ e.src = "HDR" /\ e.type = "STOPPED" -> {"accepted", "refused"}
         [] kind = "sock" -> Uses
         [] e.to = Ep /\ st[Ep] = "STOPPING_DNS" -> Attempts
         [] e.to = Ep /\ st[Ep] = "STOPPING_BACKOFF" ->
               IF role.tran = "ipc" THEN Attempts ELSE {"literal", "query"}
         [] OTHER -> {"-"}

Outcomes(data) == [io : {"ok", "again", "error"}, data : data]

(* accept() can also run out of something else, or fail for a reason that  *)
(* the code does not expect (EPROTO, EPERM).                               *)
AcceptOutcomes(data) == [io : {"error2", "unexpected"}, data : data]
CallsAccept(e) == \/ e.type = "ACCEPT_ERROR"
                  \/ e.to = Ep /\ e.type = "ACCEPTED"

(* A connection is accepted only if there is memory for the next acceptor. *)
AcceptBound(w) == w.acc # None /\ w.us[w.acc].fd => Free(w) # {}
Accepts(w) == AcceptBound(w) /\ Becomes(w)

-----------------------------------------------------------------------------
(* The socket. A protocol uses a pipe as soon as it is ready ("now", as    *)
(* nn_req_in does) or when its user asks for it ("later").                 *)

(* nn_pipe_send and nn_pipe_recv, by the protocol. *)
NnPipeSend(w, i, o) ==
    [SessSend(Check(w, w.pb[i].out = "IDLE", "pipe: send"), i, o)
        EXCEPT !.pb[i].out = "ASYNC"]
NnPipeRecv(w, i, o) ==
    [SessRecv(Check(w, w.pb[i].in = "IDLE", "pipe: recv"), i, o)
        EXCEPT !.pb[i].in = "ASYNC"]

(* nn_sock_handler: events of pipes and of the endpoint. The protocol may  *)
(* use the pipe at once or when the user calls.                            *)
SockFeed(w, i, type, o) ==
    CASE type = "EP_STOPPED" ->
            Goto(IF role.bind THEN ListenerDestroy(w) ELSE ConnecterDestroy(w), NnEp, "GONE")
      [] w.pb[i].st # "ACTIVE" -> Abort(w, "pipe: event after its removal")
      [] type = "IN"  -> IF o.data = "now" THEN NnPipeRecv(w, i, o) ELSE w
      [] type = "OUT" -> IF o.data = "now" THEN NnPipeSend(w, i, o) ELSE w

(* nn_ep_shutdown after the stop. *)
NnEpFeed(w) ==
    FsmStopped(Goto(Check(w, w.st[NnEp] = "STOPPING", "ep: stopped"), NnEp, "IDLE"),
               NnEp, <<<<"sock", 0>>, "EP">>, "EP_STOPPED")

-----------------------------------------------------------------------------
(* The steps. *)

Running == failed = ""
Quiet == Running /\ evq = <<>>

(* nn_ctx_leave takes the first event; nn_fsm_event_process. *)
Process(w, e, o) ==
    LET i == e.to[2]
        kind == e.to[1]
    IN CASE kind = "hdr"   -> HdrFeed(w, i, e.src, e.type, o)
         [] kind = "sess"  -> SessFeed(w, i, e.src, e.type, o)
         [] kind = "conn"  -> ConnFeed(w, i, e.src, e.type, o)
         [] kind = "nn_ep" -> NnEpFeed(w)
         [] kind = "sock"  -> SockFeed(w, i, e.type, o)
         [] kind = "ep" ->
               IF role.bind THEN ListenerFeed(w, e.src, e.type, e.obj[1][2], o)
                            ELSE ConnecterFeed(w, e.src, e.type, o)

Deliver ==
    /\ Running /\ evq # <<>>
    /\ \E o \in Outcomes(DataOf(Head(evq)))
              \cup IF CallsAccept(Head(evq)) THEN AcceptOutcomes({"-"}) ELSE {} :
          Accepts(Process([World EXCEPT !.evq = Tail(@)], Head(evq), o))

(* nn_sock_add_ep: bind or connect. *)
ListenFails == {"badaddr", "nosocket", "nobind", "nolisten"}
StartData ==
    CASE role.bind -> {"listen"} \cup (ListenFails \ IF role.tran = "ipc" THEN {"badaddr"} ELSE {})
                      \cup IF role.tran = "tcp" THEN {"port0"} ELSE {}
      [] role.tran = "ipc" -> Attempts
      [] OTHER -> {"literal", "query", "badaddr"}
Create ==
    /\ Quiet /\ st[NnEp] = "IDLE" /\ st[Ep] = "IDLE"
    /\ \E o \in Outcomes(StartData)
              \cup IF role.bind THEN AcceptOutcomes({"listen"}) ELSE {} :
          LET w == IF role.bind THEN ListenerCreate(World, o) ELSE ConnecterCreate(World, o)
              bad == o.data \in IF role.bind THEN ListenFails ELSE {"badaddr"}
          IN Becomes(FsmStarted(Goto(w, NnEp, IF bad THEN "REFUSED" ELSE "ACTIVE"), NnEp))

(* nn_sock_rm_ep, or the close of the socket: nn_ep_stop. *)
StopEndpoint ==
    /\ Quiet /\ st[NnEp] = "ACTIVE"
    /\ \E o \in Outcomes({"cancelled", "running"}) :
          LET w == IF role.bind THEN BtcpStop(World) ELSE CtcpStop(World, o)
          IN Becomes(FsmStopping(Goto(w, NnEp, "STOPPING"), NnEp))

(* The user sends or receives. *)
UserSend(i) ==
    /\ Quiet /\ pb[i].st = "ACTIVE" /\ pb[i].out = "IDLE"
    /\ \E o \in Outcomes({"-"}) : Becomes(NnPipeSend(World, i, o))
UserRecv(i) ==
    /\ Quiet /\ pb[i].st = "ACTIVE" /\ pb[i].in = "IDLE"
    /\ \E o \in Outcomes({"-"}) : Becomes(NnPipeRecv(World, i, o))

(* The worker takes over the tasks posted so far, and runs them. *)
TakeTasks ==
    /\ Quiet /\ batch = 0 /\ tasks # <<>>
    /\ Becomes([World EXCEPT !.batch = Len(tasks)])

TimerOwner(i) == IF i = 0 THEN <<Ep, "TIMER">> ELSE <<Hdr(i), "TIMER">>

RunTask ==
    /\ Quiet /\ batch > 0
    /\ LET t == Head(tasks)
           i == t.to[2]
           w == [World EXCEPT !.tasks = Tail(@), !.batch = @ - 1]
       IN Becomes(IF t.to[1] = "timer" THEN TimerTask(w, t.to, t.task, TimerOwner(i))
                                       ELSE UsockTask(w, i, t.task))

(* A descriptor is ready. *)
FdEvent(i, type) ==
    /\ Quiet /\ batch = 0 /\ us[i].reg
    /\ CASE type = "IN"  -> us[i].in
         [] type = "OUT" -> us[i].out
         [] type = "ERR" -> i # 0
    /\ \E o \in Outcomes({"-"}) \cup IF i = 0 THEN AcceptOutcomes({"-"}) ELSE {} :
          Accepts(UsockFd(World, i, type, o))

Expire(i) ==
    /\ Quiet /\ batch = 0 /\ st[Tmr(i)] = "RUNNING"
    /\ Becomes(TimerExpires(World, Tmr(i), TimerOwner(i)))

LookupDone ==
    /\ Quiet /\ st[Dns] \in {"RESOLVING", "STOPPING"}
    /\ \E result \in {"found", "failed", "cancelled"} :
          /\ result = "cancelled" => st[Dns] = "STOPPING"
          /\ Becomes(DnsNotify(World, result))

Worker == TakeTasks \/ RunTask

Next ==
    \/ Create \/ StopEndpoint \/ Deliver \/ Worker \/ LookupDone
    \/ \E i \in Conns : UserSend(i) \/ UserRecv(i)
    \/ \E i \in 0..NConn : \/ Expire(i)
                           \/ \E type \in {"IN", "OUT", "ERR"} : FdEvent(i, type)

(* The threads get into the context in their turn, and nn_ctx_leave gets   *)
(* to the end of its queue: no peer outruns the receiver forever. So every *)
(* task is run, every timer expires and every lookup ends, as strong       *)
(* fairness of Worker, Expire and LookupDone has it; said of the states,   *)
(* this is checked much faster. Nothing is assumed of the user or the peer.*)
Served(pending) == ~pending \/ failed # ""

TaskPending(m, task) == \E k \in DOMAIN tasks : tasks[k] = [to |-> m, task |-> task]

Fairness ==
    /\ []<>Served(evq # <<>>)
    /\ []<>Served(st[Dns] \in {"RESOLVING", "STOPPING"})
    /\ \A i \in 0..NConn :
          /\ \A task \in InternalTasks \cup {"stop"} : []<>Served(TaskPending(U(i), task))
          /\ \A task \in {"start", "stop"} : []<>Served(TaskPending(Tmr(i), task))
          /\ []<>Served(st[Tmr(i)] = "RUNNING")

Spec == Init /\ [][Next]_vars /\ Fairness

-----------------------------------------------------------------------------
(* Properties. *)

(* The assertions that a run of the transports can hit. Connections that   *)
(* end in an unlucky moment:                                               *)
(*   - nn_ctcp_start_connecting waits and tries again when bind() fails,   *)
(*     but the socket it has opened is still there;                        *)
(*   - nn_stcp is DONE after a message that is too big, and does not expect*)
(*     the events its socket and its pipe have raised already;             *)
(*   - a pipe that is removed has an event queued;                         *)
(*   - a listener frees the socket of a connection while the worker has    *)
(*     taken over a task of it.                                            *)
(* Errors of the operating system that accept() is not expected to have.   *)
(* Peers that the code does not expect:                                    *)
(*   - an ipc message of another type;                                     *)
(*   - a half of the ws handshake that fills the receiver's buffer exactly,*)
(*     has octets after its empty line, has a NUL in it, or does not parse;*)
(*   - ws fragments that end inside a code point of four octets, and what  *)
(*     is left of a message that was not complete.                         *)
KnownAborts ==
    {"usock: descriptor already open", "session: event after the end",
     "session: send while it is not active", "pipe: event after its removal",
     "machine destroyed with a task under way",
     "usock: unexpected error of accept", "ipc: message type",
     "handshake: buffer filled", "handshake: octets after the end",
     "handshake: complete but not parsed", "handshake: no response code",
     "ws: message left over", "ws: message malformed",
     "ws: code point left over", "ws: four octets of a code point"}

(* No other assertion that the modules below have, of the machines, their  *)
(* events and tasks and of the parsers, can fail, whatever the peer, the   *)
(* operating system and the user do and when.                              *)
OnlyKnownAborts == failed \in KnownAborts \cup {""}

(* An endpoint that is gone, or could not be created, has closed all its   *)
(* descriptors and taken them out of the pollset, and left neither tasks   *)
(* with the worker nor events in the context.                              *)
NothingLeft ==
    Quiet /\ st[NnEp] \in {"GONE", "REFUSED"} =>
        /\ tasks = <<>>
        /\ \A i \in 0..NConn : ~us[i].fd /\ ~us[i].reg
        /\ \A m \in Machines : m[1] = "timer" => st[m] = "IDLE"

(* No readiness is lost between the posting of a task and the poller: a    *)
(* session that waits for data or for room to send has its descriptor in   *)
(* the pollset for that, or the task that puts it there is under way, as   *)
(* long as the socket is not about to report an error.                     *)
NoLostReadiness ==
    Quiet => \A i \in Conns :
        st[Sess(i)] = "ACTIVE" /\ st[U(i)] = "ACTIVE" =>
            /\ ss[i].in \in {"HDR", "BODY", "RECV_HDR", "RECV_HDREXT", "RECV_PAYLOAD"}
                  => us[i].in \/ TaskPending(U(i), "recv")
            /\ ss[i].out = "SENDING" => us[i].out \/ TaskPending(U(i), "send")

(* A listener in service has one acceptor that waits, and the poller waits *)
(* for connections on its behalf, also after an error of accept().         *)
KeepsListening ==
    Quiet /\ role.bind /\ st[Ep] = "ACTIVE" /\ us[0].fd =>
        /\ acc # None /\ lis = {acc}
        /\ us[0].owner = <<Conn(acc), "LISTENER">>
        /\ us[0].in \/ TaskPending(U(0), "accept")

BetweenConnections ==
    /\ ~role.bind /\ ~gone /\ failed = ""
    /\ st[Ep] \in {"RESOLVING", "STOPPING_DNS", "STOPPING_SESS",
                  "STOPPING_USOCK", "WAITING", "STOPPING_BACKOFF"}

(* A connecter goes on until it has a connection again: it does not stay   *)
(* for ever in any of the states between two connections. (One of ws does, *)
(* after a closing handshake: nn_cws_handler says so.)                     *)
KeepsTrying ==
    []<>~BetweenConnections \/ []<><<st'[Ep] # st[Ep]>>_vars

WellFormed(b) ==
    LET is(k, lo, hi) == b[k] \in lo..hi
        tail(k) == is(k, 128, 191)
        two   == is(1, 194, 223) /\ tail(2)
        three == /\ \/ b[1] = 224 /\ is(2, 160, 191)
                    \/ (is(1, 225, 236) \/ is(1, 238, 239)) /\ tail(2)
                    \/ b[1] = 237 /\ is(2, 128, 159)
                 /\ tail(3)
        four  == /\ \/ b[1] = 240 /\ is(2, 144, 191)
                    \/ is(1, 241, 243) /\ tail(2)
                    \/ b[1] = 244 /\ is(2, 128, 143)
                 /\ tail(3) /\ tail(4)
    IN CASE Len(b) = 1 -> b[1] <= 127 [] Len(b) = 2 -> two
         [] Len(b) = 3 -> three [] Len(b) = 4 -> four [] OTHER -> FALSE

IsUtf8(b) ==
    LET f[n \in 0..Len(b)] ==
            \/ n = 0
            \/ \E k \in 1..4 : k <= n /\ f[n - k] /\ WellFormed(SubSeq(b, n - k + 1, n))
    IN f[Len(b)]


LifeOf(s) ==
    CASE failed # "" -> "crashed"
      [] s = "GONE" -> "gone"
      [] s = "REFUSED" -> "refused"
      [] s = "ACTIVE" -> "running"
      [] s = "STOPPING" \/ evq # <<>> -> "stopping"
      [] OTHER -> "none"

MayUse(i, dir, type) ==
    pb[i].st = "ACTIVE" /\ dir = "IDLE" /\ ~Queued(World, <<Pipe(i), type>>)

OfferOf(i) ==
    [on |-> Running /\ pb[i].st = "ACTIVE",
     snd |-> Running /\ MayUse(i, pb[i].out, "OUT"),
     rcv |-> Running /\ MayUse(i, pb[i].in, "IN")]

Endpoint == INSTANCE AbsEndpoint WITH
    Pipes <- Conns,
    life  <- LifeOf(st[NnEp]),
    offer <- [i \in Conns |-> OfferOf(i)]

(* The transport keeps what it promises the socket: nn_ep and nn_pipe see  *)
(* the endpoint that AbsEndpoint describes.                                *)
KeepsContract == Endpoint!Spec
=============================================================================
