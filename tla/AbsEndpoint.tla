------------------------------ MODULE AbsEndpoint ------------------------------
(***************************************************************************)
(* What a transport promises to the socket, by the interfaces nn_ep_ops    *)
(* and nn_pipebase of transport.h: an endpoint lives from its creation to  *)
(* the end of the stop it was asked for; it offers pipes to the socket     *)
(* and withdraws them; on a pipe the socket may send when it was told so,  *)
(* once, and receive when it was told so, once. An endpoint that is asked  *)
(* to stop withdraws its pipes and is gone at last. A failed assertion     *)
(* ends all of this: which ones may fail is not the matter of this module. *)
(***************************************************************************)
CONSTANT Pipes

VARIABLES life,   \* of the endpoint
          offer   \* for each pipe: off, or what the socket may do with it

absVars == <<life, offer>>

Off == [on |-> FALSE, snd |-> FALSE, rcv |-> FALSE]
Offers == [on : BOOLEAN, snd : BOOLEAN, rcv : BOOLEAN]

Init == life = "none" /\ offer = [i \in Pipes |-> Off]

Create == life = "none" /\ life' \in {"running", "refused"} /\ UNCHANGED offer

(* Some of the pipes are withdrawn. *)
WithdrawSome == offer' \in [Pipes -> Offers] /\ \A i \in Pipes : offer'[i] \in {offer[i], Off}

(* An endpoint without connections may be gone at once. *)
Stop ==
    /\ life = "running"
    /\ life' \in {"stopping", "gone"}
    /\ WithdrawSome
    /\ life' = "gone" => \A i \in Pipes : ~offer'[i].on

Gone ==
    /\ life = "stopping"
    /\ \A i \in Pipes : ~offer[i].on
    /\ life' = "gone"
    /\ UNCHANGED offer

Offer(i) ==
    /\ life \in {"running", "stopping"}
    /\ ~offer[i].on
    /\ \E snd \in BOOLEAN :
          offer' = [offer EXCEPT ![i] = [on |-> TRUE, snd |-> snd, rcv |-> FALSE]]
    /\ UNCHANGED life

Withdraw == WithdrawSome /\ UNCHANGED life

(* NN_PIPE_OUT and NN_PIPE_IN: the socket is told. *)
MaySend(i) ==
    /\ offer[i].on /\ ~offer[i].snd
    /\ offer' = [offer EXCEPT ![i].snd = TRUE]
    /\ UNCHANGED life
MayRecv(i) ==
    /\ offer[i].on /\ ~offer[i].rcv
    /\ offer' = [offer EXCEPT ![i].rcv = TRUE]
    /\ UNCHANGED life

(* nn_pipe_send and nn_pipe_recv. *)
Send(i) ==
    /\ offer[i].snd
    /\ offer' = [offer EXCEPT ![i].snd = FALSE]
    /\ UNCHANGED life
Recv(i) ==
    /\ offer[i].rcv
    /\ offer' = [offer EXCEPT ![i].rcv = FALSE]
    /\ UNCHANGED life

Crash == life' = "crashed" /\ offer' = [i \in Pipes |-> Off]

Next ==
    \/ Create \/ Stop \/ Withdraw \/ Gone \/ Crash
    \/ \E i \in Pipes : \/ Offer(i) \/ MaySend(i) \/ MayRecv(i)
                        \/ Send(i) \/ Recv(i)

Safety == Init /\ [][Next]_absVars

Spec == Safety /\ (life = "stopping" ~> life \in {"gone", "crashed"})
=============================================================================
