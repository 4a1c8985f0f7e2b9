------------------------------- MODULE Connecter -------------------------------
(***************************************************************************)
(* The connecting side of an endpoint: tcp/ctcp.c, ipc/cipc.c and ws/cws.c,*)
(* with the name lookup (utils/dns_getaddrinfo_a.inc) and the back-off     *)
(* timer (utils/backoff.c) they use. The machine tries to connect, hands   *)
(* the connection to the session, and tries again after a while when it is *)
(* lost. The session is reused for every connection.                       *)
(*                                                                         *)
(*   w.addr        dns_result.error = 0                                    *)
(*   w.gone        cws.peer_gone                                           *)
(*   w.inprogress  NN_STAT_INPROGRESS_CONNECTIONS, as counted              *)
(***************************************************************************)
EXTENDS Sws

Ep      == <<"ep", 0>>
Dns     == <<"dns", 0>>
Backoff == Tmr(0)

-----------------------------------------------------------------------------
(* The session of the transport. *)

SessStart(w, i, o) ==
    CASE w.role.tran = "tcp" -> StcpStart(w, i, o)
      [] w.role.tran = "ipc" -> SipcStart(w, i, o)
      [] w.role.tran = "ws"  -> SwsStart(w, i, o)

SessSend(w, i, o) ==
    CASE w.role.tran = "tcp" -> StcpSend(w, i, o)
      [] w.role.tran = "ipc" -> SipcSend(w, i, o)
      [] w.role.tran = "ws"  -> SwsSend(w, i, o)

SessRecv(w, i, o) ==
    CASE w.role.tran = "tcp" -> StcpRecv(w, i, o)
      [] w.role.tran = "ipc" -> SipcRecv(w, i, o)
      [] w.role.tran = "ws"  -> SwsRecv(w, i, o)

SessShutdown(w, i) ==
    CASE w.role.tran = "tcp" -> StcpShutdown(w, i)
      [] w.role.tran = "ipc" -> SipcShutdown(w, i)
      [] w.role.tran = "ws"  -> SwsShutdown(w, i)

SessStop(w, i) ==
    CASE w.role.tran = "tcp" -> StcpStop(w, i)
      [] w.role.tran = "ipc" -> SipcStop(w, i)
      [] w.role.tran = "ws"  -> SwsStop(w, i)

SessTerm(w, i) ==
    CASE w.role.tran = "tcp" -> StcpTerm(w, i)
      [] w.role.tran = "ipc" -> SipcTerm(w, i)
      [] w.role.tran = "ws"  -> SwsTerm(w, i)

SessFeed(w, i, src, type, o) ==
    LET s == w.st[Sess(i)]
    IN CASE w.fsm[Sess(i)] = "STOPPING" -> SessShutdown(w, i)
         [] s \in {"PROTOHDR", "STOPPING_STREAMHDR"} ->
               IF w.role.tran = "tcp" THEN StcpProtohdr(w, i, src, type, o)
                                      ELSE SipcProtohdr(w, i, src, type, o)
         [] s \in {"HANDSHAKE", "STOPPING_HANDSHAKE"} ->
               SwsHandshake(w, i, src, type, o)
         [] w.role.tran = "ws" ->
               IF s = "ACTIVE" THEN SwsActive(w, i, src, type, o)
                               ELSE SwsClosing(w, i, src, type)
         [] OTHER -> IF w.role.tran = "tcp" THEN StcpActive(w, i, src, type, o)
                                            ELSE SipcActive(w, i, src, type, o)

HdrFeed(w, i, src, type, o) ==
    IF w.role.tran = "ws" THEN WsHandshakeFeed(w, i, src, type, o)
                          ELSE StreamhdrFeed(w, i, src, type, o)

-----------------------------------------------------------------------------
(* nn_dns. *)

DnsStop(w, o) ==
    LET w1 == FsmStopping(w, Dns)
        stopped == FsmStopped(Goto(w1, Dns, "IDLE"), Dns, <<Ep, "DNS">>, "STOPPED")
    IN CASE w.fsm[Dns] # "ACTIVE" -> w
         [] w.st[Dns] = "RESOLVING" /\ o.data = "running" -> Goto(w1, Dns, "STOPPING")
         [] OTHER -> stopped

(* A literal address needs no lookup. *)
DnsStart(w, o) ==
    LET w1 == FsmStarted(FsmStarting(w, Dns), Dns)
    IN IF o.data = "literal"
       THEN FsmRaise(Goto([w1 EXCEPT !.addr = TRUE], Dns, "DONE"),
                     Dns, "done", <<Ep, "DNS">>, "DONE")
       ELSE Goto(w1, Dns, "RESOLVING")

(* nn_dns_notify, in a thread of the C library. A lookup that was          *)
(* cancelled leaves the result alone, and is expected only when stopping.  *)
DnsNotify(w, result) ==
    LET w1 == IF result = "cancelled" THEN w
              ELSE [w EXCEPT !.addr = (result = "found")]
    IN CASE w.fsm[Dns] = "STOPPING" ->
               FsmStopped(Goto(w1, Dns, "IDLE"), Dns, <<Ep, "DNS">>, "STOPPED")
         [] w.fsm[Dns] # "STOPPING" /\ result = "cancelled" ->
               Abort(w, "dns: cancelled")
         [] OTHER -> FsmRaise(Goto(w1, Dns, "DONE"), Dns, "done", <<Ep, "DNS">>, "DONE")

-----------------------------------------------------------------------------
(* nn_ctcp. *)

BackoffStart(w) == TimerStart(w, Backoff)
(* Seeded fault: nobody will wake the machine up. *)
WaitForever(w) == Goto(w, Ep, "WAITING")

Wait(w) == Goto(BackoffStart(w), Ep, "WAITING")

CtcpStartResolving(w, o) == Goto(DnsStart(w, o), Ep, "RESOLVING")

(* The attempt may fail before it begins; then there is another one later. *)
CtcpStartConnecting(w, o) ==
    LET w1 == UsockStart(w, 1)
        w2 == UsockConnect(UsockBind(w1, 1), 1, o)
    IN CASE o.data \in {"noiface", "nosocket"} -> Wait(w)
         [] o.data = "nobind" -> Wait(UsockBind(w1, 1))
         [] OTHER -> Goto([w2 EXCEPT !.inprogress = @ + 1], Ep, "CONNECTING")

CtcpConnecting(w, src, type, o) ==
    LET w1 == [w EXCEPT !.inprogress = @ - 1]
    IN CASE <<src, type>> = <<"USOCK", "CONNECTED">> ->
               Goto(SessStart(w1, 1, o), Ep, "ACTIVE")
         [] <<src, type>> = <<"USOCK", "ERROR">> ->
               Goto(UsockStop(w1, 1), Ep, "STOPPING_USOCK")
         [] OTHER -> Abort(w, "connecter: connecting")

(* ACTIVE and STOPPING_STCP. (A session raises no SHUTDOWN.) *)
CtcpActive(w, src, type) ==
    LET s == w.st[Ep]
    IN CASE s = "ACTIVE" /\ <<src, type>> = <<"SESS", "ERROR">> ->
               Goto(SessStop(w, 1), Ep, "STOPPING_SESS")
         [] s = "STOPPING_SESS" /\ <<src, type>> = <<"SESS", "STOPPED">> ->
               Goto(UsockStop(w, 1), Ep, "STOPPING_USOCK")
         [] s = "STOPPING_SESS" /\ <<src, type>> = <<"SESS", "SHUTDOWN">> -> w
         [] OTHER -> Abort(w, "connecter: active")

CtcpStoppingUsock(w, src, type) ==
    CASE <<src, type>> = <<"USOCK", "SHUTDOWN">> -> w
      [] <<src, type>> = <<"USOCK", "STOPPED">>  -> Wait(w)
      [] OTHER -> Abort(w, "connecter: stopping usock")

(* WAITING and STOPPING_BACKOFF; start begins the next attempt. *)
CtcpWaiting(w, src, type, start) ==
    CASE w.st[Ep] = "WAITING" /\ <<src, type>> = <<"TIMER", "TIMEOUT">> ->
            Goto(TimerStop(w, Backoff), Ep, "STOPPING_BACKOFF")
      [] w.st[Ep] = "STOPPING_BACKOFF" /\ <<src, type>> = <<"TIMER", "STOPPED">> ->
            start
      [] OTHER -> Abort(w, "connecter: waiting")

(* RESOLVING and STOPPING_DNS. *)
CtcpResolving(w, src, type, o) ==
    CASE w.st[Ep] = "RESOLVING" /\ <<src, type>> = <<"DNS", "DONE">> ->
            Goto(DnsStop(w, o), Ep, "STOPPING_DNS")
      [] w.st[Ep] = "STOPPING_DNS" /\ <<src, type>> = <<"DNS", "STOPPED">> ->
            IF w.addr THEN CtcpStartConnecting(w, o) ELSE Wait(w)
      [] OTHER -> Abort(w, "connecter: resolving")

(* nn_ctcp_handler after the start. *)
CtcpHandler(w, src, type, o) ==
    LET s == w.st[Ep]
    IN CASE s \in {"RESOLVING", "STOPPING_DNS"} -> CtcpResolving(w, src, type, o)
         [] s = "CONNECTING" -> CtcpConnecting(w, src, type, o)
         [] s \in {"ACTIVE", "STOPPING_SESS"} -> CtcpActive(w, src, type)
         [] s = "STOPPING_USOCK" -> CtcpStoppingUsock(w, src, type)
         [] OTHER -> CtcpWaiting(w, src, type, CtcpStartResolving(w, o))

(* nn_ep_stopped: to the endpoint's own machine. *)
EpStopped(w) ==
    CtxRaise(w, [obj |-> <<<<"nn_ep", 0>>, "stopped">>, to |-> <<"nn_ep", 0>>,
                 src |-> "ACTION", type |-> "EP_ACTION_STOPPED"])

(* nn_ctcp_shutdown, which falls from one stage to the next. The stages    *)
(* look at nothing but the machines they wait for.                         *)
CtcpStopping(w) ==
    IF FsmIsIdle(w, Backoff) /\ UsockIsIdle(w, 1) /\ FsmIsIdle(w, Dns)
    THEN EpStopped(FsmStoppedNoevent(Goto(w, Ep, "IDLE"), Ep))
    ELSE w

CtcpShutdown(w, o) ==
    CASE w.st[Ep] = "STOPPING_SESS_FINAL" ->
            IF FsmIsIdle(w, Sess(1))
            THEN CtcpStopping(Goto(DnsStop(UsockStop(TimerStop(w, Backoff), 1), o),
                                   Ep, "STOPPING"))
            ELSE w
      [] w.st[Ep] = "STOPPING" -> CtcpStopping(w)
      [] OTHER -> Abort(w, "connecter: shutdown")

CtcpStop(w, o) ==
    LET w1 == FsmStopping(w, Ep)
        w2 == IF FsmIsIdle(w1, Sess(1)) THEN w1 ELSE SessStop(w1, 1)
    IN CtcpShutdown(Goto(w2, Ep, "STOPPING_SESS_FINAL"), o)

(* nn_ctcp_create: an address that cannot be parsed is refused. *)
CtcpCreate(w, o) ==
    IF o.data = "badaddr" THEN w ELSE CtcpStartResolving(FsmStarted(w, Ep), o)

(* nn_ctcp_destroy. (That no event is queued is not asserted by the code.) *)
CtcpDestroy(w) ==
    LET w1 == UsockTerm(CancelTasks(SessTerm(w, 1), Backoff), 1)
    IN Check(w1, /\ w.st[Ep] = "IDLE" /\ FsmIsIdle(w, Ep)
                 /\ \A m \in {Dns, Backoff, U(1)} : FsmIsIdle(w, m) /\ NotQueued(w, m),
             "connecter destroyed while running")

-----------------------------------------------------------------------------
(* nn_cipc: no lookup, no interface to bind to. *)

CipcStartConnecting(w, o) ==
    LET w1 == UsockConnect(UsockStart(w, 1), 1, o)
    IN IF o.data = "nosocket" THEN Wait(w)
       ELSE Goto([w1 EXCEPT !.inprogress = @ + 1], Ep, "CONNECTING")

(* CONNECTING, ACTIVE and STOPPING_SIPC. *)
CipcConnection(w, src, type, o) ==
    IF w.st[Ep] = "CONNECTING" THEN CtcpConnecting(w, src, type, o)
                               ELSE CtcpActive(w, src, type)

(* STOPPING_USOCK, WAITING and STOPPING_BACKOFF. *)
CipcRetry(w, src, type, o) ==
    IF w.st[Ep] = "STOPPING_USOCK" THEN CtcpStoppingUsock(w, src, type)
    ELSE CtcpWaiting(w, src, type, CipcStartConnecting(w, o))

CipcHandler(w, src, type, o) ==
    IF w.st[Ep] \in {"CONNECTING", "ACTIVE", "STOPPING_SESS"}
    THEN CipcConnection(w, src, type, o)
    ELSE CipcRetry(w, src, type, o)

(* nn_cipc_shutdown; the lookup is never started. *)
CipcShutdown(w, o) == CtcpShutdown(w, o)

CipcCreate(w, o) == CipcStartConnecting(FsmStarted(w, Ep), o)
CipcDestroy(w) == CtcpDestroy(w)

-----------------------------------------------------------------------------
(* nn_cws: as nn_ctcp, but a connection that was closed in an orderly way  *)
(* is not made again.                                                      *)

CwsStartResolving(w, o) == CtcpStartResolving(w, o)
CwsStartConnecting(w, o) == CtcpStartConnecting(w, o)

CwsResolving(w, src, type, o) ==
    IF w.st[Ep] = "STOPPING_DNS" /\ <<src, type>> = <<"DNS", "STOPPED">> /\ w.addr
    THEN CwsStartConnecting(w, o)
    ELSE CtcpResolving(w, src, type, o)

CwsConnecting(w, src, type, o) ==
    LET w1 == CtcpConnecting(w, src, type, o)
    IN IF type = "CONNECTED" THEN [w1 EXCEPT !.gone = FALSE] ELSE w1

(* ACTIVE and STOPPING_SWS. *)
CwsActive(w, src, type) ==
    IF w.st[Ep] = "ACTIVE" /\ <<src, type>> = <<"SESS", "CLOSE_HANDSHAKE">>
    THEN Goto([SessStop(w, 1) EXCEPT !.gone = TRUE], Ep, "STOPPING_SESS")
    ELSE CtcpActive(w, src, type)

(* Without another attempt the machine stays where it is. *)
CwsStoppingUsock(w, src, type) ==
    IF w.gone /\ <<src, type>> = <<"USOCK", "STOPPED">> THEN w
    ELSE CtcpStoppingUsock(w, src, type)

CwsWaiting(w, src, type, o) == CtcpWaiting(w, src, type, CwsStartResolving(w, o))

CwsHandler(w, src, type, o) ==
    LET s == w.st[Ep]
    IN CASE s \in {"RESOLVING", "STOPPING_DNS"} -> CwsResolving(w, src, type, o)
         [] s = "CONNECTING" -> CwsConnecting(w, src, type, o)
         [] s \in {"ACTIVE", "STOPPING_SESS"} -> CwsActive(w, src, type)
         [] s = "STOPPING_USOCK" -> CwsStoppingUsock(w, src, type)
         [] OTHER -> CwsWaiting(w, src, type, o)

CwsShutdown(w, o) == CtcpShutdown(w, o)

CwsCreate(w, o) ==
    IF o.data = "badaddr" THEN w ELSE CwsStartResolving(FsmStarted(w, Ep), o)
CwsDestroy(w) == CtcpDestroy(w)

-----------------------------------------------------------------------------
(* The connecter of the transport. *)

ConnecterCreate(w, o) ==
    CASE w.role.tran = "tcp" -> CtcpCreate(w, o)
      [] w.role.tran = "ipc" -> CipcCreate(w, o)
      [] w.role.tran = "ws"  -> CwsCreate(w, o)

ConnecterFeed(w, src, type, o) ==
    LET stopping == w.fsm[Ep] = "STOPPING"
    IN CASE w.role.tran = "tcp" ->
               IF stopping THEN CtcpShutdown(w, o) ELSE CtcpHandler(w, src, type, o)
         [] w.role.tran = "ipc" ->
               IF stopping THEN CipcShutdown(w, o) ELSE CipcHandler(w, src, type, o)
         [] w.role.tran = "ws" ->
               IF stopping THEN CwsShutdown(w, o) ELSE CwsHandler(w, src, type, o)

ConnecterDestroy(w) ==
    CASE w.role.tran = "tcp" -> CtcpDestroy(w)
      [] w.role.tran = "ipc" -> CipcDestroy(w)
      [] w.role.tran = "ws"  -> CwsDestroy(w)
=============================================================================
