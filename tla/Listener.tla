-------------------------------- MODULE Listener --------------------------------
(***************************************************************************)
(* The listening side of an endpoint: tcp/btcp.c, ipc/bipc.c and ws/bws.c  *)
(* with the acceptors atcp.c, aipc.c and aws.c. The listener keeps one     *)
(* acceptor waiting for a connection; the acceptor borrows the listening   *)
(* socket (socket 0) while it waits, and drives the session afterwards.    *)
(*                                                                         *)
(*   w.acc    the acceptor that waits (btcp.atcp), or None                 *)
(*   w.list   the acceptors with a connection, in order (btcp.atcps)       *)
(*   w.lis    the acceptors that hold the listening socket                 *)
(* NConn is the number of acceptors memory is kept for.                    *)
(***************************************************************************)
EXTENDS Connecter

CONSTANT NConn

Conns == 1..NConn

Conn(i) == <<"conn", i>>

Free(w) == {i \in Conns : i # w.acc /\ \A k \in DOMAIN w.list : w.list[k] # i}

-----------------------------------------------------------------------------
(* nn_atcp. *)

AtcpStart(w, i, o) ==
    LET w1 == SwapOwner(FsmStarting(w, Conn(i)), 0, <<Conn(i), "LISTENER">>)
        w2 == UsockAccept([w1 EXCEPT !.lis = @ \cup {i}], i, 0, o)
    IN FsmStarted(Goto(w2, Conn(i), "ACCEPTING"), Conn(i))

(* The listening socket goes back to the listener. *)
ReturnListener(w, i) ==
    IF i \in w.lis
    THEN SwapOwner([w EXCEPT !.lis = @ \ {i}], 0, <<Ep, "USOCK">>)
    ELSE w

AtcpStopping(w, i) ==
    IF UsockIsIdle(w, i)
    THEN FsmStopped(Goto(ReturnListener(w, i), Conn(i), "IDLE"),
                    Conn(i), <<Ep, "CONN">>, "STOPPED")
    ELSE w

AtcpShutdown(w, i) ==
    CASE w.st[Conn(i)] = "STOPPING_SESS_FINAL" ->
            IF FsmIsIdle(w, Sess(i))
            THEN AtcpStopping(Goto(UsockStop(w, i), Conn(i), "STOPPING"), i)
            ELSE w
      [] w.st[Conn(i)] = "STOPPING" -> AtcpStopping(w, i)
      [] OTHER -> Abort(w, "acceptor: shutdown")

AtcpStop(w, i) ==
    LET w1 == FsmStopping(w, Conn(i))
        w2 == IF FsmIsIdle(w1, Sess(i)) THEN w1 ELSE SessStop(w1, i)
    IN IF w.fsm[Conn(i)] # "ACTIVE" THEN w
       ELSE AtcpShutdown(Goto(w2, Conn(i), "STOPPING_SESS_FINAL"), i)

(* nn_atcp_term; what was in its memory is gone. (That no event is queued  *)
(* is not asserted by the code.)                                           *)
AtcpTerm(w, i) ==
    LET w1 == UsockTerm(SessTerm(w, i), i)
        w2 == Check(w1, /\ w.st[Conn(i)] = "IDLE" /\ FsmIsIdle(w, Conn(i))
                        /\ NotQueued(w, Conn(i)) /\ NotQueued(w, U(i)),
                    "acceptor destroyed while running")
    IN [w2 EXCEPT !.us[i] = ClosedSocket(<<Conn(i), "USOCK">>),
                  !.ss[i] = NoSession, !.pb[i] = NoPipe, !.ws[i] = NoWs]

(* Seeded fault: the listening socket is not given back. *)
AtcpAcceptingGreedy(w, i, src, type, o) ==
    IF type = "ACCEPTED"
    THEN LET w1 == FsmRaise(w, Conn(i), "accepted", <<Ep, "CONN">>, "ACCEPTED")
         IN Goto(SessStart(UsockActivate(w1, i), i, o), Conn(i), "ACTIVE")
    ELSE UsockAccept(w, i, 0, o)

AtcpAccepting(w, i, src, type, o) ==
    LET w1 == ReturnListener(w, i)
        w2 == FsmRaise(w1, Conn(i), "accepted", <<Ep, "CONN">>, "ACCEPTED")
        w3 == SessStart(UsockActivate(w2, i), i, o)
    IN CASE <<src, type>> = <<"USOCK", "ACCEPTED">> -> Goto(w3, Conn(i), "ACTIVE")
         [] <<src, type>> = <<"LISTENER", "ACCEPT_ERROR">> -> UsockAccept(w, i, 0, o)
         [] OTHER -> Abort(w, "acceptor: accepting")

(* ACTIVE, STOPPING_STCP and STOPPING_USOCK; DONE admits no event. (A      *)
(* session raises no SHUTDOWN.)                                            *)
AtcpActive(w, i, src, type) ==
    LET is(s, a, t) == w.st[Conn(i)] = s /\ src = a /\ type = t
    IN CASE is("ACTIVE", "SESS", "ERROR") ->
               Goto(SessStop(w, i), Conn(i), "STOPPING_SESS")
         [] is("STOPPING_SESS", "SESS", "STOPPED") ->
               Goto(UsockStop(w, i), Conn(i), "STOPPING_USOCK")
         [] is("STOPPING_SESS", "SESS", "SHUTDOWN") -> w
         [] is("STOPPING_USOCK", "USOCK", "SHUTDOWN") -> w
         [] is("STOPPING_USOCK", "USOCK", "STOPPED") ->
               FsmRaise(Goto(w, Conn(i), "DONE"), Conn(i), "done",
                        <<Ep, "CONN">>, "ERROR")
         [] OTHER -> Abort(w, "acceptor: active")

AtcpHandler(w, i, src, type, o) ==
    IF w.st[Conn(i)] = "ACCEPTING" THEN AtcpAccepting(w, i, src, type, o)
                                   ELSE AtcpActive(w, i, src, type)

(* nn_aipc repeats nn_atcp. *)
AipcStart(w, i, o) == AtcpStart(w, i, o)
AipcShutdown(w, i) == AtcpShutdown(w, i)
AipcTerm(w, i) == AtcpTerm(w, i)
AipcAccepting(w, i, src, type, o) == AtcpAccepting(w, i, src, type, o)
AipcActive(w, i, src, type) == AtcpActive(w, i, src, type)

AipcHandler(w, i, src, type, o) ==
    IF w.st[Conn(i)] = "ACCEPTING" THEN AipcAccepting(w, i, src, type, o)
                                   ELSE AipcActive(w, i, src, type)

(* nn_aws: a closing handshake ends the connection like an error. *)
AwsStart(w, i, o) == AtcpStart(w, i, o)
AwsShutdown(w, i) == AtcpShutdown(w, i)
AwsTerm(w, i) == AtcpTerm(w, i)
AwsAccepting(w, i, src, type, o) == AtcpAccepting(w, i, src, type, o)

AwsActive(w, i, src, type) ==
    IF w.st[Conn(i)] = "ACTIVE" /\ <<src, type>> = <<"SESS", "CLOSE_HANDSHAKE">>
    THEN Goto(SessStop(w, i), Conn(i), "STOPPING_SESS")
    ELSE AtcpActive(w, i, src, type)

AwsHandler(w, i, src, type, o) ==
    IF w.st[Conn(i)] = "ACCEPTING" THEN AwsAccepting(w, i, src, type, o)
                                   ELSE AwsActive(w, i, src, type)

(* The acceptor of the transport. *)
ConnStart(w, i, o) ==
    CASE w.role.tran = "tcp" -> AtcpStart(w, i, o)
      [] w.role.tran = "ipc" -> AipcStart(w, i, o)
      [] w.role.tran = "ws"  -> AwsStart(w, i, o)

ConnTerm(w, i) ==
    CASE w.role.tran = "tcp" -> AtcpTerm(w, i)
      [] w.role.tran = "ipc" -> AipcTerm(w, i)
      [] w.role.tran = "ws"  -> AwsTerm(w, i)

ConnFeed(w, i, src, type, o) ==
    LET stopping == w.fsm[Conn(i)] = "STOPPING"
    IN CASE w.role.tran = "tcp" ->
               IF stopping THEN AtcpShutdown(w, i) ELSE AtcpHandler(w, i, src, type, o)
         [] w.role.tran = "ipc" ->
               IF stopping THEN AipcShutdown(w, i) ELSE AipcHandler(w, i, src, type, o)
         [] w.role.tran = "ws" ->
               IF stopping THEN AwsShutdown(w, i) ELSE AwsHandler(w, i, src, type, o)

-----------------------------------------------------------------------------
(* nn_btcp. *)

BtcpStartAccepting(w, o) ==
    LET i  == CHOOSE j \in Free(w) : \A k \in Free(w) : j <= k
        w1 == Check(w, w.acc = None, "listener: accepting twice")
    IN ConnStart([w1 EXCEPT !.acc = i], i, o)

(* nn_btcp_listen: o.data is the first of its calls that fails, or         *)
(* "listen". A port of zero is accepted and not listened on.               *)
BtcpListen(w, o) ==
    LET w1 == UsockStart(w, 0)
        w2 == UsockListen(UsockBind(w1, 0), 0)
    IN CASE o.data \in {"nosocket", "port0"} -> w
         [] o.data \in {"nobind", "nolisten"} -> UsockStop(UsockBind(w1, 0), 0)
         [] OTHER -> BtcpStartAccepting(w2, o)

(* The list without i, and i without its memory. *)
Discard(w, i) ==
    LET other(j) == j # i
    IN ConnTerm([w EXCEPT !.list = SelectSeq(@, other)], i)

(* ACTIVE: i is the acceptor the event comes from. *)
BtcpHandler(w, src, type, i, o) ==
    CASE src = "LISTEN_ERR" -> Goto(w, Ep, "FREED")
      [] src = "USOCK" -> Check(w, type \in {"SHUTDOWN", "STOPPED"}, "listener: usock")
      [] <<src, type>> = <<"CONN", "ACCEPTED">> ->
            BtcpStartAccepting([Check(w, w.acc = i, "listener: accepted")
                                    EXCEPT !.list = Append(@, i), !.acc = None], o)
      [] <<src, type>> = <<"CONN", "ERROR">>   -> AtcpStop(w, i)
      [] <<src, type>> = <<"CONN", "STOPPED">> -> Discard(w, i)
      [] OTHER -> Abort(w, "listener: active")

StopAll(w) ==
    LET f[k \in 0..Len(w.list)] == IF k = 0 THEN w ELSE AtcpStop(f[k - 1], w.list[k])
    IN f[Len(w.list)]

BtcpStopped(w) ==
    IF w.list = <<>> THEN EpStopped(FsmStoppedNoevent(Goto(w, Ep, "IDLE"), Ep)) ELSE w

BtcpStoppingUsock(w) ==
    IF UsockIsIdle(w, 0) THEN BtcpStopped(Goto(StopAll(w), Ep, "STOPPING_CONNS"))
                         ELSE w

(* nn_btcp_shutdown, which falls from one stage to the next. *)
BtcpShutdown(w, src, type, i) ==
    CASE w.st[Ep] = "STOPPING_CONN" ->
            IF FsmIsIdle(w, Conn(w.acc))
            THEN LET w1 == [ConnTerm(w, w.acc) EXCEPT !.acc = None]
                 IN BtcpStoppingUsock(Goto(UsockStop(w1, 0), Ep, "STOPPING_USOCK"))
            ELSE w
      [] w.st[Ep] = "STOPPING_USOCK" -> BtcpStoppingUsock(w)
      [] w.st[Ep] = "STOPPING_CONNS" ->
            BtcpStopped(Discard(Check(w, <<src, type>> = <<"CONN", "STOPPED">>,
                                      "listener: shutdown"), i))
      [] OTHER -> Abort(w, "listener: shutdown")

BtcpStop(w) ==
    LET w1 == FsmStopping(w, Ep)
    IN IF w.acc # None
       THEN BtcpShutdown(Goto(AtcpStop(w1, w.acc), Ep, "STOPPING_CONN"),
                         "ACTION", "STOP", None)
       ELSE BtcpShutdown(Goto(w1, Ep, "STOPPING_USOCK"), "ACTION", "STOP", None)

(* nn_btcp_create. An address that cannot be parsed is refused; when it    *)
(* cannot listen the caller gets the error too, and the listener is freed  *)
(* by an event to itself.                                                  *)
BtcpCreate(w, o) ==
    LET w1 == BtcpListen(Goto(FsmStarted(w, Ep), Ep, "ACTIVE"), o)
    IN CASE o.data = "badaddr" -> w
         [] o.data \in {"nosocket", "nobind", "nolisten"} ->
               CtxRaise(w1, [obj |-> <<Ep, "listen_error">>, to |-> Ep,
                             src |-> "LISTEN_ERR", type |-> "LISTEN_ERR"])
         [] OTHER -> w1

BtcpDestroy(w) ==
    UsockTerm(Check(w, /\ w.st[Ep] = "IDLE" /\ w.list = <<>> /\ w.acc = None
                       /\ NotQueued(w, U(0)),
                    "listener destroyed while running"), 0)

(* nn_bipc, which also removes the file of the socket. A listener that     *)
(* cannot listen is left behind.                                           *)
BipcListen(w, o) == BtcpListen(w, o)
BipcHandler(w, src, type, i, o) == BtcpHandler(w, src, type, i, o)
BipcShutdown(w, src, type, i) == BtcpShutdown(w, src, type, i)
BipcCreate(w, o) == BipcListen(Goto(FsmStarted(w, Ep), Ep, "ACTIVE"), o)
BipcDestroy(w) == BtcpDestroy(w)

(* nn_bws; it leaves the listener behind as well. *)
BwsListen(w, o) == BtcpListen(w, o)
BwsHandler(w, src, type, i, o) == BtcpHandler(w, src, type, i, o)
BwsShutdown(w, src, type, i) == BtcpShutdown(w, src, type, i)
BwsCreate(w, o) ==
    IF o.data = "badaddr" THEN w ELSE BwsListen(Goto(FsmStarted(w, Ep), Ep, "ACTIVE"), o)
BwsDestroy(w) == BtcpDestroy(w)

(* The listener of the transport. *)
ListenerCreate(w, o) ==
    CASE w.role.tran = "tcp" -> BtcpCreate(w, o)
      [] w.role.tran = "ipc" -> BipcCreate(w, o)
      [] w.role.tran = "ws"  -> BwsCreate(w, o)

ListenerDestroy(w) ==
    CASE w.role.tran = "tcp" -> BtcpDestroy(w)
      [] w.role.tran = "ipc" -> BipcDestroy(w)
      [] w.role.tran = "ws"  -> BwsDestroy(w)

ListenerFeed(w, src, type, i, o) ==
    LET stopping == w.fsm[Ep] = "STOPPING"
    IN CASE w.role.tran = "tcp" ->
               IF stopping THEN BtcpShutdown(w, src, type, i)
                           ELSE BtcpHandler(w, src, type, i, o)
         [] w.role.tran = "ipc" ->
               IF stopping THEN BipcShutdown(w, src, type, i)
                           ELSE BipcHandler(w, src, type, i, o)
         [] w.role.tran = "ws" ->
               IF stopping THEN BwsShutdown(w, src, type, i)
                           ELSE BwsHandler(w, src, type, i, o)
=============================================================================
