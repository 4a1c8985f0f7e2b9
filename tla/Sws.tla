---------------------------------- MODULE Sws ----------------------------------
(***************************************************************************)
(* A connection of the ws transport: the opening handshake                 *)
(* (transports/ws/ws_handshake.c) and the session (sws.c) with its frames, *)
(* fragmented messages, control frames, check of UTF-8 texts and closing.  *)
(*                                                                         *)
(* Beside the fields of Session, for the connection i, w.ws[i] has         *)
(*   resp    response_code of the handshake                                *)
(*   frame   the header of the frame being received: final, op, ctl        *)
(*           (payload_ctl), masked, len (inmsg_current_chunk_len)          *)
(*   cont    continuing                                                    *)
(*   arr     inmsg_array, the sizes of the chunks of the message so far    *)
(*   total   inmsg_total_size                                              *)
(*   msgop   the opcode in inmsg_hdr                                       *)
(*   frag    utf8_code_pt_fragment                                         *)
(*   whole   the text of a message that came in one frame, until the next  *)
(*           frame is asked for (kept for the properties)                  *)
(* Octets are numbers; other contents of messages are left out. The timer  *)
(* and the states that wait for it are those of Session; the handshake     *)
(* takes the place of the streamhdr.                                       *)
(***************************************************************************)
EXTENDS Session, SequencesExt

CONSTANT RcvMaxSize

NoFrame == [final |-> FALSE, op |-> "NONE", ctl |-> 0, masked |-> FALSE, len |-> 0]

(* The fields nn_sws_init sets; nn_sws_start leaves them as they are. *)
NoWs == [resp |-> "NULL", frame |-> NoFrame, cont |-> FALSE, arr |-> <<>>,
         total |-> 0, msgop |-> "NONE", frag |-> <<>>, whole |-> <<>>]

-----------------------------------------------------------------------------
(* The handshake. *)

(* nn_ws_handshake_client_request; its text is left out. *)
WsClientRequest(w, i, o) == UsockSend(w, i, o)

WsHandshakeStart(w, i, o) ==
    LET w1 == Check(FsmStarting(w, Hdr(i)), ~w.ss[i].held, "handshake: start")
        w2 == SwapOwner([w1 EXCEPT !.ss[i].held = TRUE], i, <<Hdr(i), "USOCK">>)
        w3 == TimerStart(w2, Tmr(i))
        w4 == IF w.role.bind
              THEN Goto(UsockRecv(w3, i, o), Hdr(i), "SERVER_RECV")
              ELSE Goto(WsClientRequest(w3, i, o), Hdr(i), "CLIENT_SEND")
    IN FsmStarted(w4, Hdr(i))

WsHandshakeShutdown(w, i) == StreamhdrShutdown(w, i)

WsHandshakeStop(w, i) == StreamhdrStop(w, i)

(* What has been received of the peer's half of the handshake is "more" if *)
(* its empty line has not come. Otherwise it is one of the values below:   *)
(*   full        the buffer is filled to its last octet, which the         *)
(*               receiving states allow: there is no NUL after the text    *)
(*   after_end   octets follow the empty line, in the first receive        *)
(*   nul         the text has a NUL before its empty line                  *)
(*   toolong     the octets asked for next do not fit into the buffer      *)
(* and the rest say what the parser finds.                                 *)

(* The assertions of both parsers. *)
ParserAsserts(w, data) ==
    Check(Check(w, data # "full", "handshake: buffer filled"),
          data # "after_end", "handshake: octets after the end")

(* nn_ws_handshake_parse_client_opening: "RECV_MORE" or the response code. *)
(* NULL is the sentinel that the parser leaves when the request line or a  *)
(* header does not match.                                                  *)
ParseClientOpening(data) ==
    CASE data \in {"more", "toolong", "nul"} -> "RECV_MORE"
      [] data = "valid"           -> "OK"
      [] data = "malformed"       -> "NULL"
      [] data = "missing_header"  -> "WSPROTO"
      [] data = "not_websocket"   -> "WSPROTO"
      [] data = "other_version"   -> "WSVERSION"
      [] data = "not_a_peer"      -> "NOTPEER"
      [] data = "unknown_type"    -> "UNKNOWNTYPE"

(* nn_ws_handshake_parse_server_response. A response that is complete but  *)
(* does not match asks for more.                                           *)
ParseServerResponse(data) ==
    CASE data = "valid" -> "VALID"
      [] data \in {"missing_header", "not_websocket", "not_101", "other_key"} ->
            "INVALID"
      [] data \in {"more", "toolong", "nul", "malformed"} -> "RECV_MORE"

(* nn_ws_handshake_server_reply has a text for every code but the sentinel.*)
WsServerReply(w, i, code, o) ==
    UsockSend(Check([w EXCEPT !.ws[i].resp = code], code # "NULL",
                    "handshake: no response code"), i, o)

HandshakeError(w, i) == Goto(TimerStop(w, Tmr(i)), Hdr(i), "STOPPING_TIMER_ERROR")
HandshakeDone(w, i)  == Goto(TimerStop(w, Tmr(i)), Hdr(i), "STOPPING_TIMER_DONE")

(* RECV_MORE, in SERVER_RECV and CLIENT_RECV: the unfinished end of the    *)
(* text says how much to ask for, so a text that is complete already must  *)
(* not get here. One that would overflow its buffer ends in tooBig.        *)
WsRecvMore(w, i, o, tooBig) ==
    CASE o.data = "more"    -> UsockRecv(w, i, o)
      [] o.data = "toolong" -> tooBig
      [] OTHER -> Abort(w, "handshake: complete but not parsed")

(* SERVER_RECV. *)
WsServerRecv(w, i, o) ==
    LET w1 == ParserAsserts(w, o.data)
        code == ParseClientOpening(o.data)
        reply == Goto(w, Hdr(i), "SERVER_REPLY")
    IN CASE w1.failed # "" -> w1
         [] w1.failed = "" /\ code = "RECV_MORE" ->
               WsRecvMore(w, i, o, WsServerReply(reply, i, "TOO_BIG", o))
         [] OTHER -> WsServerReply(reply, i, code, o)

(* CLIENT_RECV. *)
WsClientRecv(w, i, o) ==
    LET w1 == ParserAsserts(w, o.data)
        r == ParseServerResponse(o.data)
    IN CASE w1.failed # "" -> w1
         [] w1.failed = "" /\ r = "VALID"   -> HandshakeDone(w, i)
         [] w1.failed = "" /\ r = "INVALID" -> HandshakeError(w, i)
         [] OTHER -> WsRecvMore(w, i, o, HandshakeError(w, i))

(* Seeded fault: the timer goes on when the peer has closed. *)
WsHandshakeExchangeSlow(w, i, src, type, o) ==
    CASE <<src, type>> = <<"USOCK", "ERROR">> ->
            Goto(w, Hdr(i), "STOPPING_TIMER_ERROR")
      [] <<src, type>> = <<"TIMER", "TIMEOUT">> -> HandshakeError(w, i)
      [] type = "SENT" -> Goto(UsockRecv(w, i, o), Hdr(i), "CLIENT_RECV")
      [] OTHER -> w

(* The peer's answer, complete or not, ends the states SERVER_REPLY,       *)
(* CLIENT_SEND, SERVER_RECV and CLIENT_RECV, as do errors and the timeout. *)
WsHandshakeExchange(w, i, src, type, o) ==
    LET is(a, t) == w.st[Hdr(i)] = a /\ src = "USOCK" /\ type = t
    IN CASE <<src, type>> = <<"USOCK", "SHUTDOWN">> -> w
         [] <<src, type>> \in {<<"USOCK", "ERROR">>, <<"TIMER", "TIMEOUT">>} ->
               HandshakeError(w, i)
         [] is("SERVER_RECV", "RECEIVED") -> WsServerRecv(w, i, o)
         [] is("SERVER_REPLY", "SENT")    -> HandshakeDone(w, i)
         [] is("CLIENT_SEND", "SENT") ->
               Goto(UsockRecv(w, i, o), Hdr(i), "CLIENT_RECV")
         [] is("CLIENT_RECV", "RECEIVED") -> WsClientRecv(w, i, o)
         [] OTHER -> Abort(w, "handshake: exchange")

WsStoppingTimer(w, i, src, type) == HdrTimerStopped(w, i, src, type)

WsHandshakeFeed(w, i, src, type, o) ==
    CASE w.fsm[Hdr(i)] = "STOPPING" -> WsHandshakeShutdown(w, i)
      [] w.st[Hdr(i)] \in {"SERVER_RECV", "SERVER_REPLY", "CLIENT_SEND", "CLIENT_RECV"} ->
            WsHandshakeExchange(w, i, src, type, o)
      [] OTHER -> WsStoppingTimer(w, i, src, type)

-----------------------------------------------------------------------------
(* UTF-8. *)

Continuation(b) == b \in 128..191


(* nn_utf8_code_point: the length of the code point b starts with, or      *)
(* "FRAGMENT" or "INVALID" (lengths as strings, "1" to "4").               *)
Utf8CodePoint(b) ==
    LET n == Len(b)
        lead == b[1]
        need == CASE lead <= 223 -> 2 [] lead <= 239 -> 3 [] OTHER -> 4
        badSecond == \/ lead = 224 /\ b[2] < 160
                     \/ lead = 237 /\ b[2] >= 160
                     \/ lead = 240 /\ b[2] < 144
                     \/ lead = 244 /\ b[2] >= 144
    IN CASE n = 0 -> "FRAGMENT"
         [] n > 0 /\ lead <= 127 -> "1"
         [] n > 0 /\ (lead \in 128..193 \/ lead > 244) -> "INVALID"
         [] n > 0 /\ lead \in 194..244 ->
               CASE n < 2 -> "FRAGMENT"
                 [] n >= 2 /\ badSecond -> "INVALID"
                 [] n >= 2 /\ ~badSecond /\ n < need -> "FRAGMENT"
                 [] OTHER -> IF \A k \in 2..need : Continuation(b[k])
                             THEN <<"1", "2", "3", "4">>[need] ELSE "INVALID"

Size(v) == CASE v = "1" -> 1 [] v = "2" -> 2 [] v = "3" -> 3 [] v = "4" -> 4

Drop(s, n) == SubSeq(s, n + 1, Len(s))

(* What follows the longest run of code points at the start of b; the      *)
(* second loop of nn_sws_validate_utf8_chunk stops there.                  *)
Remainder(b) ==
    LET f[k \in 0..Len(b)] ==
            LET v == Utf8CodePoint(Drop(b, k))
            IN IF k = Len(b) \/ v \in {"FRAGMENT", "INVALID"} THEN Drop(b, k)
               ELSE f[k + Size(v)]
    IN f[0]

-----------------------------------------------------------------------------
(* The session. *)

(* nn_sws_recv_hdr. The fields of the last frame are not read again. *)
SwsRecvHdr(w, i, o) ==
    LET x  == w.ws[i]
        w1 == Check(w, x.cont \/ x.arr = <<>>, "ws: message left over")
        w2 == [w1 EXCEPT !.ws[i].total = IF x.cont THEN @ ELSE 0,
                         !.ws[i].frame = NoFrame, !.ws[i].whole = <<>>,
                         !.ss[i].in = "RECV_HDR"]
    IN UsockRecv(w2, i, o)

SwsStart(w, i, o) ==
    LET w1 == SwapOwner(FsmStarting(w, Sess(i)), i, <<Sess(i), "USOCK">>)
        w2 == WsHandshakeStart(w1, i, o)
    IN FsmStarted(Goto(w2, Sess(i), "HANDSHAKE"), Sess(i))

(* nn_sws_send; the framing of the message is left to the peer's side. *)
SwsSend(w, i, o) ==
    LET w1 == Check(w, w.st[Sess(i)] = "ACTIVE" /\ w.ss[i].out = "IDLE",
                    "session: send while it is not active")
    IN [UsockSend(w1, i, o) EXCEPT !.ss[i].out = "SENDING"]

(* nn_sws_recv: a message is put together from its chunks. *)
SwsRecv(w, i, o) ==
    LET x  == w.ws[i]
        f  == x.frame
        w1 == Check(w, w.st[Sess(i)] = "ACTIVE", "session: recv while it is not active")
        w2 == Check(w1, /\ f.final /\ x.msgop \in {"TEXT", "BINARY"}
                        /\ FoldLeft(LAMBDA a, b : a + b, 0, x.arr) = x.total,
                   "ws: message malformed")
        w3 == [w2 EXCEPT !.ws[i].arr = <<>>, !.ws[i].cont = FALSE]
    IN CASE w.ss[i].in = "RECVD_CHUNKED" -> SwsRecvHdr(w3, i, o)
         [] w.ss[i].in = "RECVD_CONTROL" ->
               SwsRecvHdr(Check(w1, f.final /\ f.op \in {"PING", "PONG"},
                                "ws: control malformed"), i, o)
         [] OTHER -> Abort(w1, "ws: nothing to receive")

SwsShutdown(w, i) == StcpShutdown(w, i)

SwsStop(w, i) ==
    LET w1 == PipeStop(FsmStopping([w EXCEPT !.ws[i].whole = <<>>], Sess(i)), i)
    IN IF w.fsm[Sess(i)] # "ACTIVE" THEN w
       ELSE SwsShutdown(Goto(WsHandshakeStop(w1, i), Sess(i), "STOPPING"), i)

SwsTerm(w, i) == StcpTerm(w, i)

(* nn_sws_fail_conn: the pipe goes away; a closing frame is sent unless a  *)
(* message is just being sent.                                             *)
SwsFailConn(w, i, o) ==
    LET w1 == Check(w, w.st[Sess(i)] = "ACTIVE", "ws: fail")
        w2 == [PipeStop(w1, i) EXCEPT !.ss[i].in = "CLOSED", !.ws[i].arr = <<>>]
    IN IF w.ss[i].out = "IDLE"
       THEN Goto([UsockSend(w2, i, o) EXCEPT !.ss[i].out = "SENDING"],
                 Sess(i), "CLOSING_CONNECTION")
       ELSE SessDone(w2, i, "CLOSE_HANDSHAKE")

SwsReceived(w, i, instate) == PipeReceived([w EXCEPT !.ss[i].in = instate], i)

(* A chunk of the message is complete. *)
SwsNextFrame(w, i, o) ==
    IF w.ws[i].frame.final THEN SwsReceived(w, i, "RECVD_CHUNKED")
                           ELSE SwsRecvHdr(w, i, o)

(* nn_sws_validate_utf8_chunk. The first octet of the chunk may complete   *)
(* the code point of the chunk before; if it does not, the rest of the     *)
(* chunk is skipped.                                                       *)
SwsValidateUtf8Chunk(w, i, chunk, o) ==
    LET x == w.ws[i]
        split == x.frag # <<>>
        joined == IF split THEN Append(x.frag, Head(chunk)) ELSE <<>>
        v == Utf8CodePoint(joined)
        left == Remainder(IF split THEN Tail(chunk) ELSE chunk)
        kept(f) == [w EXCEPT !.ws[i].frag = f]
        truncated(f) == IF x.frame.final THEN SwsFailConn(kept(f), i, o)
                                         ELSE SwsRecvHdr(kept(f), i, o)
    IN CASE Len(x.frag) = 4 -> Abort(w, "ws: code point left over")
         [] split /\ v = "INVALID"  -> SwsFailConn(kept(joined), i, o)
         [] split /\ v = "FRAGMENT" -> truncated(joined)
         [] split /\ v = "4" -> Abort(w, "ws: four octets of a code point")
         [] OTHER ->
               CASE left = <<>> -> SwsNextFrame(kept(<<>>), i, o)
                 [] left # <<>> /\ Utf8CodePoint(left) = "INVALID" ->
                       SwsFailConn(kept(<<>>), i, o)
                 [] OTHER -> truncated(left)

IsText(x) == \/ x.frame.op = "TEXT"
             \/ x.frame.op = "FRAGMENT" /\ x.msgop = "TEXT"

(* The frame the header announces: memory for it, within NN_RCVMAXSIZE. A  *)
(* total beyond that is one value: it stays too big.                       *)
SwsPayload(w, i, o) ==
    LET f == w.ws[i].frame
        sum == w.ws[i].total + f.len
        total == IF sum > RcvMaxSize THEN RcvMaxSize + 1 ELSE sum
    IN CASE f.op \in {"PING", "PONG", "CLOSE"} ->
               UsockRecv([w EXCEPT !.ss[i].in = "RECV_PAYLOAD"], i, o)
         [] total > RcvMaxSize ->
               SwsFailConn([w EXCEPT !.ws[i].total = total], i, o)
         [] OTHER ->
               UsockRecv([w EXCEPT !.ss[i].in = "RECV_PAYLOAD",
                                   !.ws[i].total = total,
                                   !.ws[i].arr = Append(@, f.len)], i, o)

(* nn_sws_acknowledge_close_handshake: whatever the peer's close code is,  *)
(* the connection is failed; the code sent back is left out.               *)
SwsAcknowledgeClose(w, i, o) == SwsFailConn(w, i, o)

(* A frame without payload. *)
SwsEmptyFrame(w, i, o) ==
    LET f == w.ws[i].frame
    IN CASE f.op = "CLOSE" -> SwsAcknowledgeClose(w, i, o)
         [] f.op \in {"PING", "PONG"} -> SwsReceived(w, i, "RECVD_CONTROL")
         [] OTHER -> SwsNextFrame(w, i, o)

(* PING, PONG and CLOSE frames that are refused. *)
Control(h) == h.op \in {"PING", "PONG", "CLOSE"}
BadControl(h) ==
    Control(h) /\ (h.ctl > 125 \/ ~h.final \/ (h.op = "CLOSE" /\ h.ctl = 1))

(* A new message does not begin before the last one is complete.           *)
BadData(h, cont) == h.op \in {"TEXT", "BINARY"} /\ cont

(* RECV_HDR: the first two bytes of a frame h. ctl is the length field:    *)
(* 126 and 127 stand for an extended length.                               *)
SwsRecvdHdr(w, i, h, o) ==
    LET x == w.ws[i]
        cont == CASE Control(h) -> x.cont
                  [] h.op = "FRAGMENT" -> ~h.final
                  [] OTHER -> x.cont \/ ~h.final
        ext == h.masked \/ h.ctl > 125
        w1 == [w EXCEPT !.ws[i].frame = [final |-> h.final, op |-> h.op,
                            ctl |-> h.ctl, masked |-> h.masked, len |-> h.ctl],
                        !.ws[i].msgop = IF x.cont THEN @ ELSE h.op]
        w2 == [w1 EXCEPT !.ws[i].cont = cont]
    IN CASE h.rsv \/ h.masked # w.role.bind -> SwsFailConn(w, i, o)
         [] h.op = "FRAGMENT" /\ ~x.cont -> SwsFailConn(w, i, o)
         [] h.op = "UNUSED" \/ BadControl(h) \/ BadData(h, x.cont) ->
               SwsFailConn(w1, i, o)
         [] OTHER ->
               CASE ext -> UsockRecv([w2 EXCEPT !.ss[i].in = "RECV_HDREXT"], i, o)
                 [] ~ext /\ h.ctl = 0 -> SwsEmptyFrame(w2, i, o)
                 [] OTHER -> SwsPayload(w2, i, o)

(* RECV_HDREXT: the extended length, if there is one, and the mask. *)
SwsRecvdHdrExt(w, i, o) ==
    LET f  == w.ws[i].frame
        n  == IF f.ctl > 125 THEN o.data ELSE f.ctl
        w1 == [w EXCEPT !.ws[i].frame.len = n]
    IN IF n = 0 THEN SwsEmptyFrame(w1, i, o) ELSE SwsPayload(w1, i, o)

(* RECV_PAYLOAD: o.data is the payload, unmasked. The type of a message is *)
(* that of its first frame.                                                *)
SwsRecvdPayload(w, i, o) ==
    LET x == w.ws[i]
        f == x.frame
        w1 == [w EXCEPT !.ws[i].whole =
                   IF f.op = "TEXT" /\ f.final /\ x.frag = <<>> THEN o.data ELSE <<>>]
    IN CASE f.op \in {"PING", "PONG"} -> SwsReceived(w, i, "RECVD_CONTROL")
         [] f.op = "CLOSE" -> SwsAcknowledgeClose(w, i, o)
         [] IsText(x) -> SwsValidateUtf8Chunk(w1, i, o.data, o)
         [] OTHER -> SwsNextFrame(w, i, o)

(* HANDSHAKE and STOPPING_HANDSHAKE. *)
SwsHandshake(w, i, src, type, o) ==
    LET s  == w.st[Sess(i)]
        w1 == PipeStart(w, i, o)
        w2 == SwsRecvHdr(w1, i, o)
    IN CASE s = "HANDSHAKE" /\ <<src, type>> = <<"HDR", "OK">> ->
               Goto(WsHandshakeStop(w, i), Sess(i), "STOPPING_HANDSHAKE")
         [] s = "HANDSHAKE" /\ <<src, type>> = <<"HDR", "ERROR">> ->
               SessDone(w, i, "CLOSE_HANDSHAKE")
         [] s = "STOPPING_HANDSHAKE" /\ <<src, type>> = <<"HDR", "STOPPED">> ->
               IF w1.pb[i].st = "FAILED" THEN SessDone(w1, i, "ERROR")
               ELSE Goto([w2 EXCEPT !.ss[i].out = "IDLE"], Sess(i), "ACTIVE")
         [] OTHER -> Abort(w, "session: handshake")

(* ACTIVE. *)
SwsActive(w, i, src, type, o) ==
    LET instate == w.ss[i].in
    IN CASE src # "USOCK" -> Abort(w, "session: active")
         [] type = "SENT" ->
               PipeSent([Check(w, w.ss[i].out = "SENDING", "session: sent")
                             EXCEPT !.ss[i].out = "IDLE"], i)
         [] type = "RECEIVED" /\ instate = "RECV_HDR"     -> SwsRecvdHdr(w, i, o.data, o)
         [] type = "RECEIVED" /\ instate = "RECV_HDREXT"  -> SwsRecvdHdrExt(w, i, o)
         [] type = "RECEIVED" /\ instate = "RECV_PAYLOAD" -> SwsRecvdPayload(w, i, o)
         [] type = "SHUTDOWN" -> Goto(PipeStop(w, i), Sess(i), "BROKEN_CONNECTION")
         [] type = "ERROR" -> SessDone(PipeStop(w, i), i, "ERROR")
         [] OTHER -> Abort(w, "session: active")

(* CLOSING_CONNECTION, BROKEN_CONNECTION and DONE. *)
SwsClosing(w, i, src, type) ==
    LET s == w.st[Sess(i)]
        is(a, t) == s = a /\ src = "USOCK" /\ type = t
    IN CASE is("CLOSING_CONNECTION", "SENT") ->
               SessDone([w EXCEPT !.ss[i].out = "IDLE"], i, "CLOSE_HANDSHAKE")
         [] is("CLOSING_CONNECTION", "SHUTDOWN") -> w
         [] is("CLOSING_CONNECTION", "ERROR") -> SessDone(w, i, "ERROR")
         [] is("BROKEN_CONNECTION", "ERROR")  -> SessDone(w, i, "ERROR")
         [] s = "DONE" -> Abort(w, "session: event after the end")
         [] OTHER -> Abort(w, "session: closing")
=============================================================================
