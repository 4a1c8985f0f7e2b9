-------------------------------- MODULE Fanout --------------------------------
(***************************************************************************)
(* The protocols that need no state machine: publish/subscribe (pubsub),   *)
(* bus, pair and pipeline, on top of dist.c, excl.c, lb.c and fq.c, with   *)
(* devices between them and messages in chunks that are shared by counting *)
(* references (utils/msg.c, chunkref.c, chunk.c). Every action of a socket *)
(* is one critical section of its AIO context.                             *)
(*                                                                         *)
(* The transport is one over a stream: a pipe holds on to the message until*)
(* it is sent, and receives into a chunk of its own. The connection buffers*)
(* nothing. A pipe is a node and a connection. Messages are too long to be *)
(* kept in the nn_chunkref itself. The orders in which nn_lb and nn_fq take*)
(* pipes are left open (module Priolist). The trie of a subscriber is a    *)
(* parameter: module Subscriptions puts in the one of trie.c.              *)
(***************************************************************************)
EXTENDS Integers, FiniteSetsExt

CONSTANTS Nets,   \* the networks to look at
          Addrs,  \* memory addresses of pipes, reused when a pipe is gone
          NoPipe,
          EmptyTrie,           \* nn_trie_init
          AddString(_, _),     \* nn_trie_subscribe: the trie it leaves
          RemoveString(_, _),  \* nn_trie_unsubscribe: the trie, and how it ended
          Matches(_, _),       \* nn_trie_match: what it may return
          Worn(_)              \* the trie has lost subscriptions

(* The types that connect (the ispeer functions), and those of one         *)
(* protocol, to which the sockets of a device belong.                      *)
Peers == {<<"PUB", "SUB">>, <<"SUB", "PUB">>, <<"PUSH", "PULL">>, <<"PULL", "PUSH">>,
          <<"PAIR", "PAIR">>} \cup ({"BUS", "XBUS"} \X {"BUS", "XBUS"})
Families == {{"PUB", "SUB"}, {"PUSH", "PULL"}, {"PAIR"}, {"BUS", "XBUS"}}

(* A pipe of a network is a node and a connection it is an end of. *)
PipesOf(N) ==
    {p \in (DOMAIN N.type) \X (DOMAIN N.ends) : p[1] \in {N.ends[p[2]][1], N.ends[p[2]][2]}}

(* A network: type of each node, ends of each connection, the threads of   *)
(* its devices as pairs of nodes, the messages that may be sent, strings   *)
(* to subscribe to, the connections that may break, the ones that are made *)
(* when another one is gone, and bounds.                                   *)
IsNet(N) ==
    /\ IsFiniteSet(DOMAIN N.type) /\ IsFiniteSet(DOMAIN N.ends) /\ IsFiniteSet(N.devices)
    /\ \E family \in Families : \A n \in DOMAIN N.type : N.type[n] \in family
    /\ \A c \in DOMAIN N.ends :
        /\ N.ends[c] \in (DOMAIN N.type) \X (DOMAIN N.type)
        /\ N.ends[c][1] # N.ends[c][2]
        /\ <<N.type[N.ends[c][1]], N.type[N.ends[c][2]]>> \in Peers
    /\ N.devices \subseteq (DOMAIN N.type) \X (DOMAIN N.type)
    /\ N.senders \subseteq DOMAIN N.type
    /\ N.msgs \in Nat
    /\ \A n \in DOMAIN N.type, c \in DOMAIN N.ends : NoPipe # <<n, c>>

ASSUME FanoutAssumption == Addrs \subseteq Nat \ {0} /\ \A N \in Nets : IsNet(N)

VARIABLES
    net,
    up,        \* pipes added to their socket
    broken,    \* connections that are down
    pair,      \* nn_excl.pipe of a PAIR
    ready,     \* pipes in the list for sending (nn_dist, nn_lb, nn_excl.outpipe)
    sending,   \* message a pipe is sending
    inbox,     \* message a pipe has received; it is in the list for receiving
    addr,      \* address of a pipe of an XBUS; nobody looks at the others
    refs,      \* nn_chunk.refcount of each chunk; 0 when freed
    hand,      \* messages in the hands of users, who got each as the nth
    held,      \* message held by a device's thread, with its header
    trie,      \* nn_xsub.trie
    subs,      \* the subscriptions the user has made
    sent,      \* number of messages sent
    handed,    \* how often each message was handed to a user
    echoed,    \* a user received its own message
    aborted,   \* an assertion failed, or freed memory was used
    torn       \* nn_trie_unsubscribe failed an assertion or followed NULL

netVars == <<up, broken, pair, ready, sending, inbox, addr>>
vars == <<net, netVars, refs, hand, held, trie, subs, sent, handed, echoed, aborted,
          torn>>

Nodes == DOMAIN net.type
Conns == DOMAIN net.ends
Pipes == PipesOf(net)
OfNode(n) == {p \in Pipes : p[1] = n}
Other(p) == CHOOSE q \in Pipes : q[2] = p[2] /\ q # p
Is(n, types) == net.type[n] \in types
Ids == 1..net.msgs

(* A chunk by the message in it and the pipe that received it, or NoPipe   *)
(* for the one the user has filled.                                        *)
Chunks == Ids \X (Pipes \cup {NoPipe})

Nil == [id |-> 0, chunk |-> <<0, NoPipe>>]
Message(id, topic, origin) ==
    [id |-> id, chunk |-> <<id, NoPipe>>, topic |-> topic, origin |-> origin]

Init ==
    /\ net \in Nets
    /\ up = {} /\ broken = {} /\ ready = {}
    /\ pair = [n \in Nodes |-> NoPipe]
    /\ sending = [p \in Pipes |-> Nil]
    /\ inbox = [p \in Pipes |-> Nil]
    /\ addr = [p \in Pipes |-> -1]
    /\ refs = [k \in Chunks |-> 0]
    /\ hand = {}
    /\ held = [d \in net.devices |-> [msg |-> Nil, hdr |-> 0]]
    /\ trie = [n \in Nodes |-> EmptyTrie]
    /\ subs = [n \in Nodes |-> [t \in net.strings |-> 0]]
    /\ sent = 0
    /\ handed = [i \in Ids |-> 0]
    /\ echoed = FALSE /\ aborted = FALSE /\ torn = FALSE

-----------------------------------------------------------------------------
(* Chunks. *)

(* nn_msg_term of several messages: a decrement for each. *)
Terminated(r, msgs, in) ==
    [k \in DOMAIN r |-> r[k] - Cardinality({p \in in : msgs[p].chunk = k})]

(* The tag of a chunk that is used is checked (nn_chunk_getptr). *)
Freed(m) == m # Nil /\ refs[m.chunk] = 0

-----------------------------------------------------------------------------
(* Pipes come and go. *)

(* The socket takes the pipe, whose first NN_PIPE_OUT follows. nn_xsub_out *)
(* and nn_xpull_out do nothing with it, the others keep the pipe in their  *)
(* list for sending.                                                       *)
Taken(p, listed) ==
    /\ up' = up \cup {p}
    /\ ready' = IF listed THEN ready \cup {p} ELSE ready
    /\ UNCHANGED broken

XPubAdd(p) == Is(p[1], {"PUB"}) /\ Taken(p, TRUE) /\ UNCHANGED <<pair, addr, aborted>>
XSubAdd(p) == Is(p[1], {"SUB"}) /\ Taken(p, FALSE) /\ UNCHANGED <<pair, addr, aborted>>
XPushAdd(p) == Is(p[1], {"PUSH"}) /\ Taken(p, TRUE) /\ UNCHANGED <<pair, addr, aborted>>
XPullAdd(p) == Is(p[1], {"PULL"}) /\ Taken(p, FALSE) /\ UNCHANGED <<pair, addr, aborted>>

(* The address of a pipe is looked at by an XBUS only. *)
XBusAdd(p) ==
    /\ Is(p[1], {"BUS", "XBUS"})
    /\ Taken(p, TRUE)
    /\ \E a \in Addrs \ {addr[q] : q \in up} :
          addr' = IF Is(p[1], {"XBUS"}) THEN [addr EXCEPT ![p] = a] ELSE addr
    /\ UNCHANGED <<pair, aborted>>

(* The assertions of nn_excl_in and nn_excl_out. *)
ExclInFails(p) == inbox[p] # Nil \/ pair[p[1]] # p
ExclOutFails(p) == ready \cap OfNode(p[1]) # {} \/ pair[p[1]] # p

(* nn_excl_add: a PAIR that has a pipe refuses the next one, whose         *)
(* connection is dropped.                                                  *)
ExclAdd(p) ==
    /\ Is(p[1], {"PAIR"})
    /\ \/ /\ pair[p[1]] # NoPipe
          /\ broken' = broken \cup {p[2]}
          /\ UNCHANGED <<up, ready, pair, aborted>>
       \/ /\ pair[p[1]] = NoPipe
          /\ Taken(p, TRUE)
          /\ pair' = [pair EXCEPT ![p[1]] = p]
          /\ aborted' = (aborted \/ ready \cap OfNode(p[1]) # {})
    /\ UNCHANGED addr

(* nn_sock_add. *)
AddPipe(p) ==
    /\ p \in Pipes \ up /\ p[2] \notin broken
    /\ \A r \in net.replaces : p[2] = r[1] => r[2] \in broken
    /\ \/ XPubAdd(p) \/ XSubAdd(p) \/ XPushAdd(p) \/ XPullAdd(p) \/ XBusAdd(p)
       \/ ExclAdd(p)
    /\ UNCHANGED <<net, sending, inbox, refs, hand, held, trie, subs, sent, handed, echoed,
                   torn>>

Break(c) ==
    /\ c \in net.fragile \ broken
    /\ broken' = broken \cup {c}
    /\ UNCHANGED <<net, up, pair, ready, sending, inbox, addr, refs, hand, held, trie, subs,
                   sent, handed, echoed, aborted, torn>>

(* Seeded fault: the list for sending keeps the pipe. *)
RmPipeKept(p) ==
    /\ p \in up /\ p[2] \in broken
    /\ up' = up \ {p}
    /\ sending' = [sending EXCEPT ![p] = Nil]
    /\ inbox' = [inbox EXCEPT ![p] = Nil]
    /\ refs' = Terminated(Terminated(refs, sending, {p}), inbox, {p})
    /\ pair' = IF pair[p[1]] = p THEN [pair EXCEPT ![p[1]] = NoPipe] ELSE pair
    /\ UNCHANGED <<net, broken, ready, addr, hand, held, trie, subs, sent, handed, echoed,
                   aborted, torn>>

(* nn_excl_rm. The pipe is the one that is known: others were refused.     *)
ExclRm(p) ==
    /\ Is(p[1], {"PAIR"})
    /\ pair' = [pair EXCEPT ![p[1]] = NoPipe]
    /\ ready' = ready \ OfNode(p[1])
    /\ aborted' = (aborted \/ pair[p[1]] = NoPipe)

(* nn_dist_rm and nn_lb_rm: the pipe may be in the list or not. *)
ListRm(p) ==
    /\ ~Is(p[1], {"PAIR"})
    /\ ready' = ready \ {p}
    /\ UNCHANGED <<pair, aborted>>

(* nn_sock_rm; what the pipe was sending and had received is freed with it.*)
RmPipe(p) ==
    /\ p \in up /\ p[2] \in broken
    /\ up' = up \ {p}
    /\ ExclRm(p) \/ ListRm(p)
    /\ sending' = [sending EXCEPT ![p] = Nil]
    /\ inbox' = [inbox EXCEPT ![p] = Nil]
    /\ refs' = Terminated(Terminated(refs, sending, {p}), inbox, {p})
    /\ UNCHANGED <<net, broken, addr, hand, held, trie, subs, sent, handed, echoed, torn>>

(* NN_PIPE_IN and NN_PIPE_OUT meet a socket that asserts. nn_xpub_in does  *)
(* always.                                                                 *)
InFails(p) == Is(p[1], {"PUB"}) \/ (Is(p[1], {"PAIR"}) /\ ExclInFails(p))
OutFails(p) == Is(p[1], {"PAIR"}) /\ ExclOutFails(p)

(* The transport takes the message to the other end: it is freed, with     *)
(* NN_PIPE_OUT, here and received, with NN_PIPE_IN, there. Or it is lost   *)
(* with the connection.                                                    *)
Pass(p) ==
    /\ p \in up /\ sending[p] # Nil
    /\ \/ /\ p[2] \notin broken
          /\ Other(p) \in up /\ inbox[Other(p)] = Nil
          /\ LET copy == [sending[p] EXCEPT !.chunk = <<sending[p].id, Other(p)>>]
             IN /\ inbox' = [inbox EXCEPT ![Other(p)] = copy]
                /\ refs' = [Terminated(refs, sending, {p}) EXCEPT ![copy.chunk] = @ + 1]
          /\ aborted' = (aborted \/ Freed(sending[p]) \/ InFails(Other(p)) \/ OutFails(p))
       \/ /\ p[2] \in broken
          /\ refs' = Terminated(refs, sending, {p})
          /\ aborted' = (aborted \/ OutFails(p))
          /\ UNCHANGED inbox
    /\ sending' = [sending EXCEPT ![p] = Nil]
    /\ ready' = ready \cup {p}
    /\ UNCHANGED <<net, up, broken, pair, addr, hand, held, trie, subs, sent, handed, echoed,
                   torn>>

-----------------------------------------------------------------------------
(* Sending. *)

(* Seeded fault: a copy that is not sent is not freed either. *)
DistSendLeaks(n, m, r, exclude) ==
    LET out == {p \in ready : p[1] = n}
        copies == {p \in out : addr[p] # exclude}
    IN /\ ready' = ready \ copies
       /\ sending' = [p \in Pipes |-> IF p \in copies THEN m ELSE sending[p]]
       /\ refs' = [r EXCEPT ![m.chunk] = @ + Cardinality(out) - 1]
       /\ aborted' = (aborted \/ \E p \in copies : sending[p] # Nil)

(* Seeded fault: the pipe to exclude is not looked at. *)
DistSendToAll(n, m, r, exclude) ==
    LET out == {p \in ready : p[1] = n}
    IN /\ ready' = ready \ out
       /\ sending' = [p \in Pipes |-> IF p \in out THEN m ELSE sending[p]]
       /\ refs' = [r EXCEPT ![m.chunk] = @ + Cardinality(out) - 1]
       /\ aborted' = (aborted \/ \E p \in out : sending[p] # Nil)

(* nn_dist_send: as many references more as there are pipes, a copy for    *)
(* each but the excluded one, whose copy is freed, as the message is in    *)
(* the end.                                                                *)
DistSend(n, m, r, exclude) ==
    LET out == {p \in ready : p[1] = n}
        copies == {p \in out : addr[p] # exclude}
    IN /\ ready' = ready \ copies
       /\ sending' = [p \in Pipes |-> IF p \in copies THEN m ELSE sending[p]]
       /\ refs' = [r EXCEPT ![m.chunk] = @ + Cardinality(out) - Cardinality(out \ copies) - 1]
       /\ aborted' = (aborted \/ \E p \in copies : sending[p] # Nil)

(* Seeded fault: every pipe that is ready gets the message. *)
OneSendToAll(n, m, r) ==
    LET out == ready \cap OfNode(n)
    IN /\ out # {}
       /\ ready' = ready \ out
       /\ sending' = [p \in Pipes |-> IF p \in out THEN m ELSE sending[p]]
       /\ refs' = [r EXCEPT ![m.chunk] = @ + Cardinality(out) - 1]
       /\ aborted' = (aborted \/ \E p \in out : sending[p] # Nil)

(* nn_lb_send and nn_excl_send: one pipe that is ready; none is EAGAIN. *)
OneSend(n, m, r) ==
    \E p \in ready \cap OfNode(n) :
        /\ ready' = ready \ {p}
        /\ sending' = [sending EXCEPT ![p] = m]
        /\ refs' = r
        /\ aborted' = (aborted \/ sending[p] # Nil)

(* The send functions; hdr is the header of the message, which only        *)
(* nn_xbus_send looks at. A PUB or BUS sends to all the pipes.             *)
XPubSend(n, m, r) == Is(n, {"PUB"}) /\ DistSend(n, m, r, 0)
BusSend(n, m, r) == Is(n, {"BUS"}) /\ DistSend(n, m, r, 0)
XBusSend(n, m, r, hdr) == Is(n, {"XBUS"}) /\ DistSend(n, m, r, hdr)
XPushSend(n, m, r) == Is(n, {"PUSH"}) /\ OneSend(n, m, r)
ExclSend(n, m, r) == Is(n, {"PAIR"}) /\ OneSend(n, m, r)

(* nn_sock_send. *)
SockSend(n, m, r, hdr) ==
    \/ XPubSend(n, m, r) \/ BusSend(n, m, r) \/ XBusSend(n, m, r, hdr)
    \/ XPushSend(n, m, r) \/ ExclSend(n, m, r)

(* nn_send, with a new message. *)
Send(n, topic) ==
    /\ n \in net.senders
    /\ sent < net.msgs
    /\ sent' = sent + 1
    /\ LET m == Message(sent', topic, n)
       IN SockSend(n, m, [refs EXCEPT ![m.chunk] = 1], 0)
    /\ UNCHANGED <<net, up, broken, pair, inbox, addr, hand, held, trie, subs, handed, echoed,
                   torn>>

-----------------------------------------------------------------------------
(* Receiving. *)

Full(n) == {p \in OfNode(n) : inbox[p] # Nil}

Emptied(pipes) == inbox' = [p \in Pipes |-> IF p \in pipes THEN Nil ELSE inbox[p]]

(* nn_xsub_recv: what does not match is freed and skipped. *)
MayMatch(n, p) == TRUE \in Matches(trie[n], inbox[p].topic)
MayMiss(n, p) == FALSE \in Matches(trie[n], inbox[p].topic)

XSubRecv(n, p) ==
    /\ Is(n, {"SUB"})
    /\ MayMatch(n, p)
    /\ \E skipped \in SUBSET (Full(n) \ {p}) :
        /\ \A q \in skipped : MayMiss(n, q)
        /\ Emptied(skipped \cup {p})
        /\ refs' = Terminated(refs, inbox, skipped)

XPullRecv(n, p) == Is(n, {"PULL"}) /\ Emptied({p}) /\ UNCHANGED refs
ExclRecv(n, p) == Is(n, {"PAIR"}) /\ Emptied({p}) /\ UNCHANGED refs

(* nn_xbus_recv makes the address of the pipe the header (see DeviceRecv), *)
(* nn_bus_recv drops it.                                                   *)
XBusRecv(n, p) == Is(n, {"XBUS"}) /\ Emptied({p}) /\ UNCHANGED refs
BusRecv(n, p) == Is(n, {"BUS"}) /\ Emptied({p}) /\ UNCHANGED refs

(* nn_sock_recv: the message of pipe p. *)
SockRecv(n, p) ==
    /\ p \in Full(n)
    /\ \/ XSubRecv(n, p) \/ XPullRecv(n, p) \/ ExclRecv(n, p)
       \/ XBusRecv(n, p) \/ BusRecv(n, p)

(* nn_recv. *)
Recv(n, p) ==
    /\ n \in net.receivers
    /\ SockRecv(n, p)
    /\ hand' = hand \cup {[node |-> n, msg |-> inbox[p], nth |-> handed[inbox[p].id]]}
    /\ handed' = [handed EXCEPT ![inbox[p].id] = @ + 1]
    /\ echoed' = (echoed \/ inbox[p].origin = n)
    /\ aborted' = (aborted \/ Freed(inbox[p]))
    /\ UNCHANGED <<net, up, broken, pair, ready, sending, addr, held, trie, subs, sent, torn>>

(* EAGAIN: nothing matches. *)
RecvAgain(n) ==
    /\ Is(n, {"SUB"}) /\ Full(n) # {}
    /\ \A p \in Full(n) : MayMiss(n, p)
    /\ Emptied(Full(n))
    /\ refs' = Terminated(refs, inbox, Full(n))
    /\ UNCHANGED <<net, up, broken, pair, ready, sending, addr, hand, held, trie, subs, sent,
                   handed, echoed, aborted, torn>>

(* nn_freemsg, of any of the messages a user has. *)
FreeMsg(h) ==
    /\ refs' = [refs EXCEPT ![h.msg.chunk] = @ - 1]
    /\ hand' = hand \ {h}
    /\ aborted' = (aborted \/ Freed(h.msg))
    /\ UNCHANGED <<net, netVars, held, trie, subs, sent, handed, echoed, torn>>

-----------------------------------------------------------------------------
(* nn_device_mvmsg, by the thread d from d[1] to d[2], which are the same  *)
(* socket in a loopback device. nn_xbus_recv makes the address of the pipe *)
(* the header.                                                             *)

DeviceRecv(d, p) ==
    /\ held[d].msg = Nil
    /\ SockRecv(d[1], p)
    /\ held' = [held EXCEPT ![d] = [msg |-> inbox[p],
                                    hdr |-> IF Is(d[1], {"XBUS"}) THEN addr[p] ELSE 0]]
    /\ aborted' = (aborted \/ Freed(inbox[p]))
    /\ UNCHANGED <<net, up, broken, pair, ready, sending, addr, hand, trie, subs, sent, handed,
                   echoed, torn>>

DeviceSend(d) ==
    /\ held[d].msg # Nil
    /\ SockSend(d[2], held[d].msg, refs, held[d].hdr)
    /\ held' = [held EXCEPT ![d] = [msg |-> Nil, hdr |-> 0]]
    /\ UNCHANGED <<net, up, broken, pair, inbox, addr, hand, trie, subs, sent, handed, echoed,
                   torn>>

-----------------------------------------------------------------------------
(* nn_xsub_setopt. *)

Total(n) == FoldSet(LAMBDA t, a : a + subs[n][t], 0, net.strings)

Subscribe(n, t) ==
    /\ Is(n, {"SUB"})
    /\ Total(n) < net.maxsubs /\ ~Worn(trie[n])
    /\ trie' = [trie EXCEPT ![n] = AddString(@, t)]
    /\ subs' = [subs EXCEPT ![n][t] = @ + 1]
    /\ UNCHANGED <<net, netVars, refs, hand, held, sent, handed, echoed, aborted, torn>>

(* The user cancels a subscription it has. *)
Unsubscribe(n, t) ==
    /\ Is(n, {"SUB"})
    /\ subs[n][t] > 0 /\ ~Worn(trie[n])
    /\ LET r == RemoveString(trie[n], t)
       IN /\ trie' = [trie EXCEPT ![n] = r.node]
          /\ torn' = (torn \/ r.rc = "crash")
    /\ subs' = [subs EXCEPT ![n][t] = @ - 1]
    /\ UNCHANGED <<net, netVars, refs, hand, held, sent, handed, echoed, aborted>>

-----------------------------------------------------------------------------
Next ==
    \/ \E p \in Pipes : AddPipe(p) \/ RmPipe(p) \/ Pass(p)
    \/ \E c \in Conns : Break(c)
    \/ \E n \in Nodes :
        \/ \E topic \in net.topics : Send(n, topic)
        \/ \E p \in OfNode(n) : Recv(n, p)
        \/ RecvAgain(n)
        \/ \E t \in net.strings : Subscribe(n, t) \/ Unsubscribe(n, t)
    \/ \E h \in hand : FreeMsg(h)
    \/ \E d \in net.devices :
        \/ \E p \in OfNode(d[1]) : DeviceRecv(d, p)
        \/ DeviceSend(d)

Spec == Init /\ [][Next]_vars

-----------------------------------------------------------------------------
(* Properties. *)

(* No assertion of dist.c, excl.c, xpub.c or pipe.c fails and no           *)
(* chunk is used after it was freed, in whatever order pipes come, go and  *)
(* signal.                                                                 *)
NoAbort == ~aborted

Holders(k) ==
    Cardinality({p \in Pipes : sending[p].chunk = k})
    + Cardinality({p \in Pipes : inbox[p].chunk = k})
    + Cardinality({d \in net.devices : held[d].msg.chunk = k})
    + Cardinality({h \in hand : h.msg.chunk = k})

(* A chunk has as many references as there are holders: the pipes that     *)
(* send it, the one that has received it, the devices and the users. So it *)
(* is freed, when the last of them is done with it and not before.         *)
RefsAreHolders == \A k \in Chunks : refs[k] = Holders(k)

UnderWay(i) ==
    Cardinality({p \in Pipes : sending[p].id = i}) + Cardinality({p \in Pipes : inbox[p].id = i})
    + Cardinality({d \in net.devices : held[d].msg.id = i})

(* A message that is pushed, or sent by one of a pair, gets to one user    *)
(* and to no second one, over devices too; it is not lost either, as long  *)
(* as no connection is.                                                    *)
GoesToOne ==
    \A n \in net.senders : Is(n, {"PUSH", "PAIR"}) =>
        \A i \in 1..sent :
            /\ handed[i] + UnderWay(i) <= 1
            /\ broken = {} => handed[i] + UnderWay(i) = 1

(* A node of a bus does not get its own message back from a device it is   *)
(* connected to, unless its connection was replaced while the message was  *)
(* in the device.                                                          *)
NoEcho == echoed => broken # {}

(* No connections lead back to where a message comes from: R has, for each *)
(* sender, the pipes that its messages can arrive by while no connection   *)
(* was replaced.                                                           *)
LeadsAway(N, R) ==
    LET first == {p \in PipesOf(N) : \A r \in N.replaces : p[2] # r[1]}
        joined(p, q) == q[2] = p[2] /\ q # p
    IN /\ \A p, q \in first : p[1] \in N.senders /\ joined(p, q) => <<p[1], q>> \in R
       /\ \A x \in R, d \in N.devices, p, q \in first :
            /\ x[2][1] = d[1] /\ p[1] = d[2] /\ joined(p, q)
            /\ N.type[d[1]] = "XBUS" => p # x[2]
            => <<x[1], q>> \in R
       /\ \A x \in R : x[2][1] # x[1]
=============================================================================
