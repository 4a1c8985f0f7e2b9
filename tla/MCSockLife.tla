------------------------------ MODULE MCSockLife ------------------------------
(* Threads opening, using and closing sockets, for TLC. *)
EXTENDS SockLife, TLC

ObjSymmetry == Permutations(Objs)
=============================================================================
