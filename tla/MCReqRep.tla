------------------------------- MODULE MCReqRep -------------------------------
(* A REQ and a REP socket with breaking connections, for TLC. *)
EXTENDS ReqRep, TLC

MCConns == Pipes \cup Strangers
MCRequestIds == 1 .. MaxRequests
PipeSymmetry == Permutations(Pipes)
=============================================================================
