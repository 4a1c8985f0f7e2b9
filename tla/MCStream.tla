------------------------------- MODULE MCStream -------------------------------
(* Instances of Stream for TLC. *)
EXTENDS Stream

TcpIpc == [tran : {"tcp", "ipc"}, bind : BOOLEAN]
WsBoth == [tran : {"ws"}, bind : BOOLEAN]

(* The client's side meets frames of every kind, unmasked as they have to  *)
(* be; the server's side meets a few masked ones and refuses the others.   *)
Frame(op, final, ctl, masked) ==
    [rsv |-> FALSE, masked |-> masked, op |-> op, final |-> final, ctl |-> ctl]

SomeFrames ==
    {Frame("TEXT", TRUE, 4, FALSE), Frame("TEXT", FALSE, 1, FALSE),
     Frame("FRAGMENT", TRUE, 1, FALSE), Frame("FRAGMENT", TRUE, 0, FALSE),
     Frame("FRAGMENT", FALSE, 1, FALSE), Frame("BINARY", TRUE, 126, FALSE),
     Frame("PING", TRUE, 0, FALSE), Frame("PONG", TRUE, 1, FALSE),
     Frame("PING", FALSE, 0, FALSE), Frame("CLOSE", TRUE, 0, FALSE),
     Frame("UNUSED", TRUE, 0, FALSE), Frame("TEXT", TRUE, 1, TRUE),
     Frame("BINARY", TRUE, 126, TRUE)}

(* Octets that start, continue or end a code point, and the boundaries of  *)
(* the ranges in whole texts.                                              *)
SomeTexts ==
    {<<65>>, <<194>>, <<240>>, <<160>>,
     <<65, 194, 128, 65>>, <<65, 65, 193, 128>>, <<128, 65, 65, 65>>,
     <<224, 160, 128, 65>>, <<224, 159, 191, 65>>,
     <<237, 159, 191, 65>>, <<237, 160, 128, 65>>, <<65, 239, 191, 192>>,
     <<240, 144, 128, 128>>, <<240, 143, 191, 191>>,
     <<244, 143, 191, 191>>, <<244, 144, 128, 128>>, <<245, 128, 128, 128>>,
     <<194, 128, 223, 191>>, <<65, 65, 65, 194>>, <<65, 225, 128, 127>>}
===============================================================================
