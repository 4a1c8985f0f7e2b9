-------------------------------- MODULE Session --------------------------------
(***************************************************************************)
(* A connection of the tcp or the ipc transport from the moment it is      *)
(* established to the moment it is broken: the exchange of protocol        *)
(* headers (transports/utils/streamhdr.c), the session (tcp/stcp.c,        *)
(* ipc/sipc.c) and its pipe to the socket (core/pipe.c).                   *)
(*                                                                         *)
(* For the connection i:                                                   *)
(*   w.ss[i]  in, out: instate and outstate of the session; held: the      *)
(*            header machine still has the underlying socket               *)
(*   w.pb[i]  st, in, out: the state, instate and outstate of the pipe     *)
(* A step that receives something draws from o.data what it was.           *)
(***************************************************************************)
EXTENDS Usock

Hdr(i)  == <<"hdr", i>>
Sess(i) == <<"sess", i>>
Pipe(i) == <<"pipe", i>>
Tmr(i)  == <<"timer", i>>

(* The machine that owns the session and its socket: the connecter, or the *)
(* acceptor of the connection.                                             *)
ConnOwner(w, i) == IF w.role.bind THEN <<"conn", i>> ELSE <<"ep", 0>>

NoSession == [in |-> "NONE", out |-> "NONE", held |-> FALSE]
NoPipe    == [st |-> "IDLE", in |-> "DEACTIVATED", out |-> "DEACTIVATED"]

(* No event of the machine is queued. The code does not assert this when a *)
(* machine is destroyed; its events would be delivered from freed memory.  *)
NotQueued(w, m) == \A k \in DOMAIN w.evq : w.evq[k].obj[1] # m

-----------------------------------------------------------------------------
(* nn_pipebase. *)

PipeRaise(w, i, type) == FsmRaise(w, Pipe(i), type, <<<<"sock", i>>, "PIPE">>, type)

(* nn_sock_add refuses the pipe when o.data says so; o tells the caller. *)
PipeStart(w, i, o) ==
    LET w1 == Check(w, w.pb[i].st = "IDLE", "pipe: started twice")
        w2 == [w1 EXCEPT !.pb[i] = [st |-> "ACTIVE", in |-> "ASYNC", out |-> "IDLE"]]
    IN IF o.data = "refused" THEN [w2 EXCEPT !.pb[i].st = "FAILED"]
                             ELSE PipeRaise(w2, i, "OUT")

PipeStop(w, i) == [w EXCEPT !.pb[i].st = "IDLE"]

PipeReceived(w, i) ==
    PipeRaise([Check(w, w.pb[i].in = "ASYNC", "pipe: received")
                  EXCEPT !.pb[i].in = "IDLE"], i, "IN")

PipeSent(w, i) ==
    PipeRaise([Check(w, w.pb[i].out = "ASYNC", "pipe: sent")
                  EXCEPT !.pb[i].out = "IDLE"], i, "OUT")

-----------------------------------------------------------------------------
(* nn_streamhdr. *)

StreamhdrStart(w, i, o) ==
    LET w1 == Check(FsmStarting(w, Hdr(i)), ~w.ss[i].held, "streamhdr: start")
        w2 == SwapOwner([w1 EXCEPT !.ss[i].held = TRUE], i, <<Hdr(i), "USOCK">>)
        w3 == UsockSend(TimerStart(w2, Tmr(i)), i, o)
    IN FsmStarted(Goto(w3, Hdr(i), "SENDING"), Hdr(i))

StreamhdrShutdown(w, i) ==
    IF FsmIsIdle(w, Tmr(i))
    THEN FsmStopped(Goto(w, Hdr(i), "IDLE"), Hdr(i), <<Sess(i), "HDR">>, "STOPPED")
    ELSE w

(* Seeded fault: the timer is not stopped, but waited for. *)
StreamhdrStopNoTimer(w, i) ==
    IF w.fsm[Hdr(i)] # "ACTIVE" THEN w
    ELSE StreamhdrShutdown(Goto(FsmStopping(w, Hdr(i)), Hdr(i), "STOPPING"), i)

StreamhdrStop(w, i) ==
    IF w.fsm[Hdr(i)] # "ACTIVE" THEN w
    ELSE StreamhdrShutdown(
            Goto(TimerStop(FsmStopping(w, Hdr(i)), Tmr(i)), Hdr(i), "STOPPING"), i)

(* The end of the exchange: the session gets its socket back. *)
HdrLeave(w, i, type) ==
    LET w1 == SwapOwner([w EXCEPT !.ss[i].held = FALSE], i, <<Sess(i), "USOCK">>)
    IN FsmRaise(Goto(w1, Hdr(i), "DONE"), Hdr(i), "done", <<Sess(i), "HDR">>, type)

(* SENDING and RECEIVING. *)
StreamhdrExchange(w, i, src, type, o) ==
    LET s == w.st[Hdr(i)]
        end(next) == Goto(TimerStop(w, Tmr(i)), Hdr(i), next)
    IN CASE <<src, type>> = <<"USOCK", "SHUTDOWN">> -> w
         [] <<src, type>> \in {<<"USOCK", "ERROR">>, <<"TIMER", "TIMEOUT">>} ->
               end("STOPPING_TIMER_ERROR")
         [] s = "SENDING" /\ <<src, type>> = <<"USOCK", "SENT">> ->
               Goto(UsockRecv(w, i, o), Hdr(i), "RECEIVING")
         [] s = "RECEIVING" /\ <<src, type>> = <<"USOCK", "RECEIVED">> ->
               end(IF o.data = "valid" THEN "STOPPING_TIMER_DONE"
                                       ELSE "STOPPING_TIMER_ERROR")
         [] OTHER -> Abort(w, "streamhdr: exchange")

(* The states that wait for the timer; DONE admits no event. *)
HdrTimerStopped(w, i, src, type) ==
    LET s == w.st[Hdr(i)]
        stopped == <<src, type>> = <<"TIMER", "STOPPED">>
    IN CASE s # "DONE" /\ src = "USOCK" -> w
         [] s = "STOPPING_TIMER_DONE" /\ stopped  -> HdrLeave(w, i, "OK")
         [] s = "STOPPING_TIMER_ERROR" /\ stopped -> HdrLeave(w, i, "ERROR")
         [] OTHER -> Abort(w, "header exchange done")

StreamhdrFeed(w, i, src, type, o) ==
    CASE w.fsm[Hdr(i)] = "STOPPING" -> StreamhdrShutdown(w, i)
      [] w.st[Hdr(i)] \in {"SENDING", "RECEIVING"} ->
            StreamhdrExchange(w, i, src, type, o)
      [] OTHER -> HdrTimerStopped(w, i, src, type)

-----------------------------------------------------------------------------
(* nn_stcp. *)

(* The session is over: the owner is told and has to stop it. *)
SessDone(w, i, type) ==
    FsmRaise(Goto(w, Sess(i), "DONE"), Sess(i), "done",
             <<ConnOwner(w, i), "SESS">>, type)

StcpStart(w, i, o) ==
    LET w1 == SwapOwner(FsmStarting(w, Sess(i)), i, <<Sess(i), "USOCK">>)
        w2 == StreamhdrStart(w1, i, o)
    IN FsmStarted(Goto(w2, Sess(i), "PROTOHDR"), Sess(i))

(* nn_stcp_send and nn_stcp_recv, called by the protocol through the pipe. *)
StcpSend(w, i, o) ==
    LET w1 == Check(w, w.st[Sess(i)] = "ACTIVE" /\ w.ss[i].out = "IDLE",
                    "session: send while it is not active")
    IN [UsockSend(w1, i, o) EXCEPT !.ss[i].out = "SENDING"]

StcpRecv(w, i, o) ==
    LET w1 == Check(w, w.st[Sess(i)] = "ACTIVE" /\ w.ss[i].in = "HASMSG",
                    "session: recv while it is not active")
    IN UsockRecv([w1 EXCEPT !.ss[i].in = "HDR"], i, o)

StcpShutdown(w, i) ==
    IF FsmIsIdle(w, Hdr(i))
    THEN FsmStopped(Goto(SwapOwner(w, i, <<ConnOwner(w, i), "USOCK">>),
                         Sess(i), "IDLE"),
                    Sess(i), <<ConnOwner(w, i), "SESS">>, "STOPPED")
    ELSE w

StcpStop(w, i) ==
    LET w1 == PipeStop(FsmStopping(w, Sess(i)), i)
    IN IF w.fsm[Sess(i)] # "ACTIVE" THEN w
       ELSE StcpShutdown(Goto(StreamhdrStop(w1, i), Sess(i), "STOPPING"), i)

(* nn_stcp_term: with it go the header machine, its timer and the pipe.    *)
(* (That no event is queued is not asserted by the code.)                  *)
StcpTerm(w, i) ==
    LET gone == {Sess(i), Hdr(i), Tmr(i), Pipe(i)}
    IN CancelTasks(
         Check(w, /\ w.st[Sess(i)] = "IDLE" /\ w.st[Hdr(i)] = "IDLE"
                  /\ w.pb[i].st = "IDLE"
                  /\ \A m \in {Sess(i), Hdr(i), Tmr(i)} : FsmIsIdle(w, m)
                  /\ \A m \in gone : NotQueued(w, m),
               "session destroyed while running"), Tmr(i))

(* PROTOHDR and STOPPING_STREAMHDR: once the headers are exchanged the     *)
(* pipe is offered to the socket.                                          *)
StcpProtohdr(w, i, src, type, o) ==
    LET s  == w.st[Sess(i)]
        w1 == PipeStart(w, i, o)
        w2 == UsockRecv([w1 EXCEPT !.ss[i].in = "HDR"], i, o)
    IN CASE s = "PROTOHDR" /\ <<src, type>> = <<"HDR", "OK">> ->
               Goto(StreamhdrStop(w, i), Sess(i), "STOPPING_STREAMHDR")
         [] s = "PROTOHDR" /\ <<src, type>> = <<"HDR", "ERROR">> ->
               SessDone(w, i, "ERROR")
         [] s = "STOPPING_STREAMHDR" /\ <<src, type>> = <<"HDR", "STOPPED">> ->
               IF w1.pb[i].st = "FAILED" THEN SessDone(w1, i, "ERROR")
               ELSE Goto([w2 EXCEPT !.ss[i].out = "IDLE"], Sess(i), "ACTIVE")
         [] OTHER -> Abort(w, "session: protohdr")

(* ACTIVE, RECEIVED: the size of the message comes first. *)
StcpReceived(w, i, o) ==
    LET s == w.ss[i].in
        hasmsg == PipeReceived([w EXCEPT !.ss[i].in = "HASMSG"], i)
    IN CASE s = "HDR" /\ o.data = "toobig" -> SessDone(w, i, "ERROR")
         [] s = "HDR" /\ o.data = "empty"  -> hasmsg
         [] s = "HDR" /\ o.data = "body"   ->
               UsockRecv([w EXCEPT !.ss[i].in = "BODY"], i, o)
         [] s = "BODY" -> hasmsg
         [] OTHER -> Abort(w, "session: instate")

(* ACTIVE and SHUTTING_DOWN; DONE admits no event. *)
StcpActive(w, i, src, type, o) ==
    LET s == w.st[Sess(i)]
        is(a, t) == s = a /\ src = "USOCK" /\ type = t
    IN CASE is("ACTIVE", "SENT") ->
               PipeSent([Check(w, w.ss[i].out = "SENDING", "session: sent")
                             EXCEPT !.ss[i].out = "IDLE"], i)
         [] is("ACTIVE", "RECEIVED") -> StcpReceived(w, i, o)
         [] is("ACTIVE", "SHUTDOWN") -> Goto(PipeStop(w, i), Sess(i), "SHUTTING_DOWN")
         [] is("ACTIVE", "ERROR") -> SessDone(PipeStop(w, i), i, "ERROR")
         [] is("SHUTTING_DOWN", "ERROR") -> SessDone(w, i, "ERROR")
         [] s = "DONE" -> Abort(w, "session: event after the end")
         [] OTHER -> Abort(w, "session: active")

-----------------------------------------------------------------------------
(* nn_sipc repeats nn_stcp. Its messages start with a type, which has to   *)
(* be NN_SIPC_MSG_NORMAL.                                                  *)

SipcStart(w, i, o) == StcpStart(w, i, o)
SipcSend(w, i, o)  == StcpSend(w, i, o)
SipcRecv(w, i, o)  == StcpRecv(w, i, o)
SipcShutdown(w, i) == StcpShutdown(w, i)
SipcStop(w, i) == StcpStop(w, i)
SipcTerm(w, i) == StcpTerm(w, i)
SipcProtohdr(w, i, src, type, o) == StcpProtohdr(w, i, src, type, o)

SipcActive(w, i, src, type, o) ==
    IF /\ w.st[Sess(i)] = "ACTIVE" /\ type = "RECEIVED"
       /\ w.ss[i].in = "HDR" /\ o.data = "shmem"
    THEN Abort(w, "ipc: message type")
    ELSE StcpActive(w, i, src, type, o)
=============================================================================
