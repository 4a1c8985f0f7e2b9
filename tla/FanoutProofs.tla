----------------------------- MODULE FanoutProofs -----------------------------
(***************************************************************************)
(* What module Fanout promises, for every network of sockets and devices   *)
(* and whatever trie a subscriber has: no assertion fails and no chunk is  *)
(* used when it is freed (NoAbort), every chunk has as many references as  *)
(* holders (RefsAreHolders), what a PUSH or PAIR socket sends gets to one  *)
(* user (GoesToOne), and no bus brings a message back to its sender        *)
(* (NoEcho).                                                               *)
(*                                                                         *)
(* There are four invariants: types and numbers of the messages (Types),   *)
(* what is known of the pipes (PipesKnown), the counts of references and of*)
(* the places a message is at, and the way messages take.                  *)
(***************************************************************************)
EXTENDS Fanout, FiniteSetTheorems, TLAPS

Msgs == [id : Ids, chunk : Chunks, topic : net.topics, origin : net.senders]
Tokens == [node : Nodes, msg : Msgs, nth : Nat]

(* Messages are numbered in the order they are sent, and so is what is in  *)
(* a chunk: what there can be after s of them.                             *)
Known(s) == {m \in Msgs \cup {Nil} : m.id <= s /\ m.chunk[1] = m.id}

Types ==
    /\ net \in Nets
    /\ up \subseteq Pipes /\ ready \subseteq up
    /\ pair \in [Nodes -> Pipes \cup {NoPipe}]
    /\ sending \in [Pipes -> Known(sent)]
    /\ inbox \in [Pipes -> Known(sent)]
    /\ addr \in [Pipes -> Int]
    /\ refs \in [Chunks -> Int]
    /\ hand \subseteq Tokens /\ IsFiniteSet(hand)
    /\ held \in [net.devices -> [msg : Known(sent), hdr : Int]]
    /\ sent \in 0 .. net.msgs
    /\ handed \in [Ids -> Nat]
    /\ \A h \in hand : h.msg \in Known(sent) /\ h.nth < handed[h.msg.id]

(* What the sockets know of their pipes. A pipe in a list for sending is   *)
(* not sending, a PAIR socket knows the one pipe it has, and nothing is    *)
(* sent by a SUB or PULL socket.                                           *)
PipesKnown ==
    /\ \A p \in ready : sending[p] = Nil
    /\ \A p \in Pipes \ up : sending[p] = Nil /\ inbox[p] = Nil
    /\ \A n \in Nodes : Is(n, {"PAIR"}) => \A p \in OfNode(n) : p \in up <=> pair[n] = p
    /\ \A p \in Pipes : sending[p] # Nil => ~Is(p[1], {"SUB", "PULL"})

(* Every message sent so far is in one place, or lost with a connection.   *)
InOnePlace ==
    (\E n \in net.senders : Is(n, {"PUSH", "PAIR"})) =>
        /\ \A i \in 1 .. sent : /\ handed[i] + UnderWay(i) <= 1
                                /\ broken = {} => handed[i] + UnderWay(i) = 1
        /\ \A i \in Ids : i > sent => handed[i] = 0

(* The pipes are of connections that replace no other; what is being sent, *)
(* was received or is held by a device is on its way along R, and the      *)
(* device knows the pipe it came by.                                       *)
First(u) == \A p \in u : \A r \in net.replaces : p[2] # r[1]
SentOn(s, R) == \A p \in Pipes : s[p] # Nil => <<s[p].origin, Other(p)>> \in R
CameBy(b, R) == \A p \in Pipes : b[p] # Nil => <<b[p].origin, p>> \in R
CameFrom(u, a, d, x, R) ==
    \E p \in u : /\ p[1] = d[1] /\ <<x.msg.origin, p>> \in R
                 /\ Is(d[1], {"XBUS"}) => a[p] = x.hdr
HeldFrom(u, a, h, R) ==
    \A d \in net.devices : h[d].msg # Nil => CameFrom(u, a, d, h[d], R)

(* While no connection was lost, a message is on its way from its sender   *)
(* along R.                                                                *)
OnItsWay(R) ==
    broken = {} => /\ ~echoed /\ First(up) /\ SentOn(sending, R) /\ CameBy(inbox, R)
                   /\ HeldFrom(up, addr, held, R)
-----------------------------------------------------------------------------
(* Counting. *)

(* How many of D have a message in the chunk k, and the message i. *)
At(D, f, k) == Cardinality({x \in D : f[x].chunk = k})
Nr(D, f, i) == Cardinality({x \in D : f[x].id = i})

(* Those of D that are in C have got the message m. *)
Given(D, C, f, g, m) == \A x \in D : g[x] = IF x \in C THEN m ELSE f[x]
GivenTo(D, q, f, g, m) == \A x \in D : g[x] = IF x = q THEN m ELSE f[x]
NoneIn(C, f) == \A x \in C : f[x] = Nil

(* The elements of C are taken out of A, or added. *)
LEMMA Replaced ==
    ASSUME NEW A, IsFiniteSet(A), NEW C, IsFiniteSet(C)
    PROVE  /\ Cardinality(A) \in Nat /\ Cardinality(A \cap C) \in Nat
           /\ Cardinality(A \ C) = Cardinality(A) - Cardinality(A \cap C)
<1>1. IsFiniteSet(A \cap C)
  BY FS_Intersection
<1> QED
  BY <1>1, FS_Difference, FS_CardinalityType

LEMMA Disjoint ==
    ASSUME NEW A, IsFiniteSet(A), NEW C, IsFiniteSet(C), A \cap C = {}
    PROVE  /\ Cardinality(A) \in Nat /\ Cardinality(C) \in Nat
           /\ Cardinality(A \cup C) = Cardinality(A) + Cardinality(C)
<1>1. Cardinality(A \cup C) = Cardinality(A) + Cardinality(C) - Cardinality(A \cap C)
  BY FS_Union
<1>2. Cardinality(A \cap C) = 0
  BY FS_EmptySet
<1>3. Cardinality(A) \in Nat /\ Cardinality(C) \in Nat
  BY FS_CardinalityType
<1> QED
  BY <1>1, <1>2, <1>3

(* One of them. *)
LEMMA One ==
    ASSUME NEW p, NEW f, NEW k
    PROVE  /\ Cardinality({p}) = 1
           /\ At({p}, f, k) = IF f[p].chunk = k THEN 1 ELSE 0
           /\ Nr({p}, f, k) = IF f[p].id = k THEN 1 ELSE 0
<1>1. Cardinality({p}) = 1 /\ Cardinality({}) = 0
  BY FS_Singleton, FS_EmptySet
<1>2. {x \in {p} : f[x].chunk = k} = IF f[p].chunk = k THEN {p} ELSE {}
  OBVIOUS
<1>3. {x \in {p} : f[x].id = k} = IF f[p].id = k THEN {p} ELSE {}
  OBVIOUS
<1>4. At({p}, f, k) = IF f[p].chunk = k THEN 1 ELSE 0
  BY <1>1, <1>2 DEF At
<1>5. Nr({p}, f, k) = IF f[p].id = k THEN 1 ELSE 0
  BY <1>1, <1>3 DEF Nr
<1> QED
  BY <1>1, <1>4, <1>5

(* A set grows or shrinks by one element. *)
LEMMA OneMore ==
    ASSUME NEW A, IsFiniteSet(A), NEW x, x \notin A
    PROVE  Cardinality(A \cup {x}) = Cardinality(A) + 1 /\ Cardinality(A) \in Nat
  BY FS_AddElement, FS_CardinalityType

LEMMA OneLess ==
    ASSUME NEW A, IsFiniteSet(A), NEW x \in A
    PROVE  Cardinality(A \ {x}) = Cardinality(A) - 1 /\ Cardinality(A) \in Nat
  BY FS_RemoveElement, FS_CardinalityType

(* The empty set, and no other finite set, has no elements. *)
LEMMA NoneOrSome ==
    ASSUME NEW A, IsFiniteSet(A)
    PROVE  Cardinality(A) \in Nat /\ (A # {} => Cardinality(A) >= 1)
  BY FS_CardinalityType, FS_EmptySet

-----------------------------------------------------------------------------
(* Networks, pipes and messages. *)

LEMMA NetFacts ==
    ASSUME net \in Nets
    PROVE  /\ IsNet(net)
           /\ IsFiniteSet(Pipes) /\ IsFiniteSet(net.devices)
           /\ \A p \in Pipes : p # NoPipe /\ p[1] \in Nodes /\ p[2] \in Conns
<1>1. IsNet(net)
  BY FanoutAssumption DEF FanoutAssumption
<1>2. IsFiniteSet(Nodes) /\ IsFiniteSet(Conns) /\ IsFiniteSet(net.devices)
  BY <1>1 DEF IsNet, Nodes, Conns
<1>3. IsFiniteSet(Nodes \X Conns)
  BY <1>2, FS_Product
<1>4. Pipes \subseteq Nodes \X Conns
  BY DEF Pipes, PipesOf, Nodes, Conns
<1>5. IsFiniteSet(Pipes)
  BY <1>3, <1>4, FS_Subset
<1>6. ASSUME NEW p \in Pipes
      PROVE  p # NoPipe /\ p[1] \in Nodes /\ p[2] \in Conns
  <2>1. PICK n \in Nodes, c \in Conns : p = <<n, c>>
    BY <1>4
  <2>2. NoPipe # <<n, c>>
    BY <1>1 DEF IsNet, Nodes, Conns
  <2> QED
    BY <2>1, <2>2
<1> QED
  BY <1>1, <1>2, <1>5, <1>6

(* The other end of a connection. *)
LEMMA OtherFacts ==
    ASSUME net \in Nets, NEW p \in Pipes
    PROVE  /\ Other(p) \in Pipes /\ Other(p)[2] = p[2] /\ Other(p) # p
           /\ \A q \in Pipes : q[2] = p[2] /\ q # p => q = Other(p)
           /\ <<net.type[p[1]], net.type[Other(p)[1]]>> \in Peers
<1>1. /\ net.ends[p[2]] \in Nodes \X Nodes
      /\ net.ends[p[2]][1] # net.ends[p[2]][2]
      /\ <<net.type[net.ends[p[2]][1]], net.type[net.ends[p[2]][2]]>> \in Peers
  BY NetFacts DEF IsNet, Nodes, Conns
<1>2. PICK a \in Nodes, b \in Nodes :
        a = net.ends[p[2]][1] /\ b = net.ends[p[2]][2] /\ a # b
  BY <1>1
<1>3. \A q \in Pipes : q[2] = p[2] => q = <<a, p[2]>> \/ q = <<b, p[2]>>
  BY <1>2 DEF Pipes, PipesOf
<1>4. <<a, p[2]>> \in Pipes /\ <<b, p[2]>> \in Pipes
  BY <1>2, NetFacts DEF Pipes, PipesOf, Nodes, Conns
<1>5. PICK o \in Pipes : o[2] = p[2] /\ o # p
  <2>1. p = <<a, p[2]>> \/ p = <<b, p[2]>>
    BY <1>3
  <2>2. <<a, p[2]>> # <<b, p[2]>>
    BY <1>2
  <2> QED
    BY <1>4, <2>1, <2>2
<1>6. Other(p) \in Pipes /\ Other(p)[2] = p[2] /\ Other(p) # p
  BY <1>5 DEF Other
<1>7. \/ p = <<a, p[2]>> /\ Other(p) = <<b, p[2]>>
      \/ p = <<b, p[2]>> /\ Other(p) = <<a, p[2]>>
  <2>1. p = <<a, p[2]>> \/ p = <<b, p[2]>>
    BY <1>3
  <2>2. Other(p) = <<a, p[2]>> \/ Other(p) = <<b, p[2]>>
    BY <1>3, <1>6
  <2> QED
    BY <1>6, <2>1, <2>2, Zenon
<1>8. \A q \in Pipes : q[2] = p[2] /\ q # p => q = Other(p)
  BY <1>3, <1>7
<1>9. <<net.type[a], net.type[b]>> \in Peers /\ <<net.type[b], net.type[a]>> \in Peers
  <2>1. <<net.type[a], net.type[b]>> \in Peers
    BY <1>1, <1>2
  <2> QED
    BY <2>1 DEF Peers
<1>10. \/ p[1] = a /\ Other(p)[1] = b
       \/ p[1] = b /\ Other(p)[1] = a
  BY <1>7
<1> QED
  BY <1>6, <1>8, <1>9, <1>10

(* A message is not Nil, and neither is its chunk. *)
LEMMA MessageFacts ==
    ASSUME net \in Nets
    PROVE  /\ \A m \in Msgs : /\ m # Nil /\ m.id \in Ids /\ m.id \in Nat /\ m.id >= 1
                              /\ m.chunk \in Chunks /\ m.chunk # Nil.chunk
                              /\ m.origin \in net.senders
           /\ Nil.id = 0 /\ Nil.chunk \notin Chunks /\ Nil.chunk[1] = 0
           /\ 0 \notin Ids
<1>1. net.msgs \in Nat
  BY NetFacts DEF IsNet
<1>2. Nil.id = 0 /\ Nil.chunk = <<0, NoPipe>> /\ 0 \notin Ids
  BY <1>1 DEF Nil, Ids
<1>3. Nil.chunk \notin Chunks
  BY <1>2 DEF Chunks
<1>4. ASSUME NEW m \in Msgs
      PROVE  /\ m.id \in Ids /\ m.chunk \in Chunks /\ m.origin \in net.senders
             /\ m.id \in Nat /\ m.id >= 1
  <2>1. m.id \in Ids /\ m.chunk \in Chunks /\ m.origin \in net.senders
    BY DEF Msgs
  <2> QED
    BY <1>1, <2>1 DEF Ids
<1>5. ASSUME NEW m \in Msgs PROVE m # Nil /\ m.chunk # Nil.chunk
  BY <1>2, <1>3, <1>4
<1> QED
  BY <1>2, <1>3, <1>4, <1>5

LEMMA KnownFacts ==
    ASSUME net \in Nets, NEW s \in Nat
    PROVE  /\ \A m \in Known(s) : (m \in Msgs \/ m = Nil) /\ m.id <= s /\ m.chunk[1] = m.id
           /\ \A m \in Msgs : m.id <= s /\ m.chunk[1] = m.id => m \in Known(s)
           /\ Nil \in Known(s)
           /\ Known(s) \subseteq Known(s + 1)
<1>1. Nil.id = 0 /\ Nil.chunk[1] = 0
  BY MessageFacts
<1>2. Nil \in Known(s)
  BY <1>1 DEF Known
<1>3. ASSUME NEW m \in Known(s) PROVE m \in Known(s + 1)
  <2>1. m.id \in Nat
    BY <1>1, MessageFacts DEF Known
  <2>2. m.id <= s + 1
    BY <2>1 DEF Known
  <2> QED
    BY <2>2 DEF Known
<1> QED
  BY <1>2, <1>3 DEF Known

(* A message as it is made by its sender, and as it is received by q. *)
LEMMA MadeFacts ==
    ASSUME net \in Nets, NEW i \in Ids, NEW topic \in net.topics, NEW n \in net.senders
    PROVE  LET m == Message(i, topic, n)
           IN  m \in Msgs /\ m.id = i /\ m.chunk = <<i, NoPipe>> /\ m.origin = n
  BY DEF Message, Msgs, Chunks

LEMMA CopyFacts ==
    ASSUME net \in Nets, NEW m \in Msgs, NEW q \in Pipes
    PROVE  LET copy == [m EXCEPT !.chunk = <<m.id, q>>]
           IN  /\ copy \in Msgs /\ copy.id = m.id /\ copy.chunk = <<m.id, q>>
               /\ copy.origin = m.origin
<1>1. m.id \in Ids
  BY MessageFacts
<1>2. <<m.id, q>> \in Chunks
  BY <1>1 DEF Chunks
<1> QED
  BY <1>2 DEF Msgs

(* The network stays as it is. *)
LEMMA NetStays ==
    ASSUME [Next]_vars
    PROVE  net' = net
  BY DEF Next, vars, netVars, AddPipe, RmPipe, Pass, Break, Send, Recv, RecvAgain, FreeMsg,
         Subscribe, Unsubscribe, DeviceRecv, DeviceSend

LEMMA SameNet ==
    ASSUME net' = net
    PROVE  /\ Nodes' = Nodes /\ Conns' = Conns /\ Pipes' = Pipes /\ Ids' = Ids
           /\ Chunks' = Chunks /\ Msgs' = Msgs /\ Tokens' = Tokens
           /\ \A s : Known(s)' = Known(s)
           /\ \A n : OfNode(n)' = OfNode(n)
<1>1. Nodes' = Nodes /\ Conns' = Conns /\ Ids' = Ids
  BY DEF Nodes, Conns, Ids
<1>2. Pipes' = Pipes
  BY DEF Pipes, PipesOf
<1>3. Chunks' = Chunks
  BY <1>1, <1>2 DEF Chunks
<1>4. Msgs' = Msgs
  BY <1>1, <1>3 DEF Msgs
<1>5. Tokens' = Tokens
  BY <1>1, <1>4 DEF Tokens
<1>6. \A s : Known(s)' = Known(s)
  BY <1>4 DEF Known, Nil
<1>7. \A n : OfNode(n)' = OfNode(n)
  BY <1>2 DEF OfNode
<1> QED
  BY <1>1, <1>2, <1>3, <1>4, <1>5, <1>6, <1>7

-----------------------------------------------------------------------------
(* What the functions of the protocols come to. *)

(* The pipes in C get the message, each with a reference of its own, and   *)
(* the sender's is gone.                                                   *)
Sends(n, m, r, hdr, C) ==
    /\ ready' = ready \ C
    /\ sending' = [p \in Pipes |-> IF p \in C THEN m ELSE sending[p]]
    /\ refs' = [r EXCEPT ![m.chunk] = @ + Cardinality(C) - 1]
    /\ aborted' = (aborted \/ \E p \in C : sending[p] # Nil)
    /\ ~Is(n, {"SUB", "PULL"})
    /\ Is(n, {"PUSH", "PAIR"}) => \E p \in Pipes : C = {p}
    /\ Is(n, {"XBUS"}) => \A p \in C : addr[p] # hdr

LEMMA DistSends ==
    ASSUME Types, NEW n \in Nodes, NEW m \in Msgs, NEW r \in [Chunks -> Int], NEW exclude,
           NEW hdr, DistSend(n, m, r, exclude), Is(n, {"PUB", "BUS", "XBUS"}),
           Is(n, {"XBUS"}) => hdr = exclude
    PROVE  \E C \in SUBSET (ready \cap OfNode(n)) : Sends(n, m, r, hdr, C)
<1> DEFINE out == {p \in ready : p[1] = n}
           C == {p \in out : addr[p] # exclude}
<1>1. out = ready \cap OfNode(n) /\ C \in SUBSET out /\ out \subseteq Pipes
  BY DEF Types, OfNode
<1>2. /\ ready' = ready \ C
      /\ sending' = [p \in Pipes |-> IF p \in C THEN m ELSE sending[p]]
      /\ refs' = [r EXCEPT ![m.chunk] = @ + Cardinality(out) - Cardinality(out \ C) - 1]
      /\ aborted' = (aborted \/ \E p \in C : sending[p] # Nil)
  BY DEF DistSend
<1>3. \A p \in C : addr[p] # exclude
  OBVIOUS
<1> HIDE DEF out, C
<1>4. IsFiniteSet(out) /\ IsFiniteSet(C)
  <2>1. IsFiniteSet(Pipes)
    BY NetFacts DEF Types
  <2>2. C \subseteq Pipes
    BY <1>1
  <2> QED
    BY <1>1, <2>1, <2>2, FS_Subset
<1>5. /\ Cardinality(out) \in Nat /\ Cardinality(C) \in Nat
      /\ Cardinality(out) - Cardinality(out \ C) = Cardinality(C)
  <2>1. out \cap C = C
    BY <1>1
  <2>2. Cardinality(out \ C) = Cardinality(out) - Cardinality(out \cap C)
    BY <1>4, FS_Difference
  <2>3. Cardinality(out) \in Nat /\ Cardinality(C) \in Nat
    BY <1>4, FS_CardinalityType
  <2>4. Cardinality(out \ C) = Cardinality(out) - Cardinality(C)
    BY <2>1, <2>2, Zenon
  <2> QED
    BY <2>3, <2>4
<1>6. r[m.chunk] \in Int
  BY MessageFacts DEF Types
<1>7. Cardinality(out \ C) \in Nat
  BY <1>4, FS_Difference, FS_CardinalityType
<1>8. r[m.chunk] + Cardinality(out) - Cardinality(out \ C) - 1 = r[m.chunk] + Cardinality(C) - 1
  BY <1>5, <1>6, <1>7
<1>9. refs' = [r EXCEPT ![m.chunk] = @ + Cardinality(C) - 1]
  BY <1>2, <1>8
<1>10. ~Is(n, {"SUB", "PULL"}) /\ ~Is(n, {"PUSH", "PAIR"})
  BY DEF Is
<1>11. Sends(n, m, r, hdr, C)
  BY <1>2, <1>3, <1>9, <1>10 DEF Sends
<1> QED
  BY <1>1, <1>11

LEMMA OneSends ==
    ASSUME Types, NEW n \in Nodes, NEW m \in Msgs, NEW r \in [Chunks -> Int],
           NEW hdr, OneSend(n, m, r), Is(n, {"PUSH", "PAIR"})
    PROVE  \E C \in SUBSET (ready \cap OfNode(n)) : Sends(n, m, r, hdr, C)
<1>1. PICK p \in ready \cap OfNode(n) :
        /\ ready' = ready \ {p}
        /\ sending' = [sending EXCEPT ![p] = m]
        /\ refs' = r
        /\ aborted' = (aborted \/ sending[p] # Nil)
  BY DEF OneSend
<1>2. p \in Pipes
  BY DEF Types
<1>3. sending' = [q \in Pipes |-> IF q \in {p} THEN m ELSE sending[q]]
  BY <1>1, <1>2 DEF Types
<1>4. m.chunk \in Chunks /\ r[m.chunk] \in Int
  BY MessageFacts DEF Types
<1>5. Cardinality({p}) = 1
  BY FS_Singleton
<1>6. r[m.chunk] + Cardinality({p}) - 1 = r[m.chunk]
  BY <1>4, <1>5
<1>7. refs' = [r EXCEPT ![m.chunk] = @ + Cardinality({p}) - 1]
  BY <1>1, <1>4, <1>6
<1>8. ~Is(n, {"SUB", "PULL"}) /\ ~Is(n, {"XBUS"})
  BY DEF Is
<1>9. Sends(n, m, r, hdr, {p})
  BY <1>1, <1>2, <1>3, <1>7, <1>8 DEF Sends
<1> QED
  BY <1>1, <1>9

LEMMA SockSends ==
    ASSUME Types, NEW n \in Nodes, NEW m \in Msgs, NEW r \in [Chunks -> Int],
           NEW hdr, SockSend(n, m, r, hdr)
    PROVE  \E C \in SUBSET (ready \cap OfNode(n)) : Sends(n, m, r, hdr, C)
<1>1. CASE XPubSend(n, m, r) \/ BusSend(n, m, r)
  <2>1. DistSend(n, m, r, 0) /\ Is(n, {"PUB", "BUS", "XBUS"}) /\ ~Is(n, {"XBUS"})
    BY <1>1 DEF XPubSend, BusSend, Is
  <2> QED
    BY <2>1, DistSends
<1>2. CASE XBusSend(n, m, r, hdr)
  <2>1. DistSend(n, m, r, hdr) /\ Is(n, {"PUB", "BUS", "XBUS"})
    BY <1>2 DEF XBusSend, Is
  <2> QED
    BY <2>1, DistSends
<1>3. CASE XPushSend(n, m, r) \/ ExclSend(n, m, r)
  <2>1. OneSend(n, m, r) /\ Is(n, {"PUSH", "PAIR"})
    BY <1>3 DEF XPushSend, ExclSend, Is
  <2> QED
    BY <2>1, OneSends
<1> QED
  BY <1>1, <1>2, <1>3 DEF SockSend

(* The pipe p and the ones that are skipped are emptied, what was skipped  *)
(* is freed. Only a SUB socket skips.                                      *)
Receives(n, p, skipped) ==
    /\ inbox' = [q \in Pipes |-> IF q \in skipped \cup {p} THEN Nil ELSE inbox[q]]
    /\ refs' = Terminated(refs, inbox, skipped)
    /\ ~Is(n, {"SUB"}) => skipped = {}

LEMMA NothingTerminated ==
    ASSUME Types, NEW msgs
    PROVE  Terminated(refs, msgs, {}) = refs
<1>1. \A k : {p \in {} : msgs[p].chunk = k} = {}
  OBVIOUS
<1>2. Cardinality({}) = 0
  BY FS_EmptySet
<1>3. \A k : Cardinality({p \in {} : msgs[p].chunk = k}) = 0
  BY <1>1, <1>2
<1>4. refs \in [Chunks -> Int]
  BY DEF Types
<1>5. \A k \in Chunks : refs[k] - Cardinality({p \in {} : msgs[p].chunk = k}) = refs[k]
  BY <1>3, <1>4
<1> QED
  BY <1>4, <1>5 DEF Terminated

LEMMA SockReceives ==
    ASSUME Types, NEW n \in Nodes, NEW p, SockRecv(n, p)
    PROVE  /\ p \in OfNode(n) /\ p \in Pipes /\ p[1] = n /\ inbox[p] \in Msgs /\ inbox[p] # Nil
           /\ \E skipped \in SUBSET (Full(n) \ {p}) : Receives(n, p, skipped)
<1>1. p \in OfNode(n) /\ inbox[p] # Nil
  BY DEF SockRecv, Full
<1>2. p \in Pipes /\ inbox[p] \in Msgs /\ p[1] = n
  BY <1>1 DEF OfNode, Types, Known
<1>3. CASE XSubRecv(n, p)
  <2>1. PICK skipped \in SUBSET (Full(n) \ {p}) :
            Emptied(skipped \cup {p}) /\ refs' = Terminated(refs, inbox, skipped)
    BY <1>3 DEF XSubRecv
  <2>2. Is(n, {"SUB"})
    BY <1>3 DEF XSubRecv
  <2>3. Receives(n, p, skipped)
    BY <2>1, <2>2 DEF Emptied, Receives
  <2> QED
    BY <1>1, <1>2, <2>3
<1>4. CASE Emptied({p}) /\ UNCHANGED refs
  <2>1. {p} = {} \cup {p}
    OBVIOUS
  <2>2. Terminated(refs, inbox, {}) = refs
    BY NothingTerminated
  <2>3. Receives(n, p, {})
    BY <1>4, <2>1, <2>2 DEF Emptied, Receives
  <2> QED
    BY <1>1, <1>2, <2>3
<1> QED
  BY <1>1, <1>2, <1>3, <1>4 DEF SockRecv, XPullRecv, ExclRecv, XBusRecv, BusRecv

(* A pipe is refused by a PAIR that has one, or taken. *)
Refused(p) ==
    /\ Is(p[1], {"PAIR"}) /\ pair[p[1]] # NoPipe
    /\ broken' = broken \cup {p[2]}
    /\ UNCHANGED <<up, ready, pair, addr, aborted>>

Accepted(p) ==
    /\ up' = up \cup {p}
    /\ ready' = ready \/ ready' = ready \cup {p}
    /\ UNCHANGED broken
    /\ addr' \in [Pipes -> Int] /\ \A q \in Pipes \ {p} : addr'[q] = addr[q]
    /\ Is(p[1], {"PAIR"}) => /\ pair[p[1]] = NoPipe
                             /\ pair' = [pair EXCEPT ![p[1]] = p]
                             /\ aborted' = (aborted \/ ready \cap OfNode(p[1]) # {})
    /\ ~Is(p[1], {"PAIR"}) => UNCHANGED <<pair, aborted>>

LEMMA PipeAdded ==
    ASSUME Types, NEW p, AddPipe(p)
    PROVE  /\ p \in Pipes /\ p \notin up /\ p[2] \notin broken
           /\ \A r \in net.replaces : p[2] = r[1] => r[2] \in broken
           /\ UNCHANGED <<net, sending, inbox, refs, hand, held, trie, subs, sent, handed, echoed>>
           /\ Refused(p) \/ Accepted(p)
<1>1. /\ p \in Pipes /\ p \notin up /\ p[2] \notin broken
      /\ \A r \in net.replaces : p[2] = r[1] => r[2] \in broken
      /\ UNCHANGED <<net, sending, inbox, refs, hand, held, trie, subs, sent, handed, echoed>>
  BY DEF AddPipe
<1>2. addr \in [Pipes -> Int]
  BY DEF Types
<1>3. CASE XPubAdd(p) \/ XSubAdd(p) \/ XPushAdd(p) \/ XPullAdd(p)
  BY <1>1, <1>2, <1>3 DEF XPubAdd, XSubAdd, XPushAdd, XPullAdd, Taken, Is, Accepted
<1>4. CASE XBusAdd(p)
  <2>1. \A a \in Addrs : a \in Int
    BY FanoutAssumption DEF FanoutAssumption
  <2>2. addr' \in [Pipes -> Int] /\ \A q \in Pipes \ {p} : addr'[q] = addr[q]
    BY <1>1, <1>2, <1>4, <2>1 DEF XBusAdd
  <2> QED
    BY <1>1, <1>4, <2>2 DEF XBusAdd, Taken, Is, Accepted
<1>5. CASE ExclAdd(p)
  BY <1>1, <1>2, <1>5 DEF ExclAdd, Taken, Accepted, Refused
<1> QED
  BY <1>1, <1>3, <1>4, <1>5 DEF AddPipe

-----------------------------------------------------------------------------
(* Types. *)

(* The invariant of the state after a step, said with the sets before it. *)
LEMMA TypesAfter ==
    ASSUME net \in Nets, net' = net, up' \subseteq Pipes, ready' \subseteq up',
           pair' \in [Nodes -> Pipes \cup {NoPipe}],
           sending' \in [Pipes -> Known(sent')], inbox' \in [Pipes -> Known(sent')],
           addr' \in [Pipes -> Int], refs' \in [Chunks -> Int],
           hand' \subseteq Tokens, IsFiniteSet(hand'),
           held' \in [net.devices -> [msg : Known(sent'), hdr : Int]],
           sent' \in 0 .. net.msgs, handed' \in [Ids -> Nat],
           \A h \in hand' : h.msg \in Known(sent') /\ h.nth < handed'[h.msg.id]
    PROVE  Types'
<1>1. /\ Nodes' = Nodes /\ Pipes' = Pipes /\ Ids' = Ids /\ Chunks' = Chunks
      /\ Tokens' = Tokens /\ Known(sent)' = Known(sent')
  BY SameNet DEF Known, Nil
<1> QED
  BY <1>1 DEF Types

(* What the counts come to are numbers. *)
LEMMA TerminatedType ==
    ASSUME net \in Nets, NEW r \in [Chunks -> Int], NEW msgs, NEW in \in SUBSET Pipes
    PROVE  /\ Terminated(r, msgs, in) \in [Chunks -> Int]
           /\ \A k \in Chunks : /\ At(in, msgs, k) \in Nat
                                /\ Terminated(r, msgs, in)[k] = r[k] - At(in, msgs, k)
<1>1. ASSUME NEW k PROVE At(in, msgs, k) \in Nat
  <2>1. IsFiniteSet({p \in in : msgs[p].chunk = k})
    BY NetFacts, FS_Subset
  <2> QED
    BY <2>1, FS_CardinalityType DEF At
<1>2. Terminated(r, msgs, in) = [k \in Chunks |-> r[k] - At(in, msgs, k)]
  BY DEF Terminated, At
<1>3. \A k \in Chunks : r[k] - At(in, msgs, k) \in Int
  BY <1>1
<1> QED
  BY <1>1, <1>2, <1>3

LEMMA SendsType ==
    ASSUME Types, NEW n, NEW m \in Known(sent'), m # Nil, sent' \in {sent, sent + 1},
           NEW r \in [Chunks -> Int], NEW hdr,
           NEW C \in SUBSET (ready \cap OfNode(n)), Sends(n, m, r, hdr, C)
    PROVE  /\ ready' \subseteq up
           /\ sending' \in [Pipes -> Known(sent')]
           /\ refs' \in [Chunks -> Int]
<1>1. ready' \subseteq up
  BY DEF Sends, Types
<1>2. net \in Nets /\ sent \in Nat
  BY NetFacts DEF Types, IsNet
<1>3. Known(sent) \subseteq Known(sent')
  BY <1>2, KnownFacts
<1>4. sending' \in [Pipes -> Known(sent')]
  BY <1>3 DEF Sends, Types
<1>5. Cardinality(C) \in Nat
  <2>1. C \subseteq Pipes
    BY DEF OfNode
  <2> QED
    BY <1>2, <2>1, NetFacts, FS_Subset, FS_CardinalityType
<1>6. m.chunk \in Chunks
  BY <1>2, KnownFacts, MessageFacts
<1>7. refs' \in [Chunks -> Int]
  BY <1>5, <1>6 DEF Sends
<1> QED
  BY <1>1, <1>4, <1>7

LEMMA ReceivesType ==
    ASSUME Types, NEW n, NEW p \in Pipes, NEW skipped \in SUBSET (Full(n) \ {p}),
           Receives(n, p, skipped)
    PROVE  /\ inbox' \in [Pipes -> Known(sent)]
           /\ refs' \in [Chunks -> Int]
<1>1. Nil \in Known(sent)
  BY NetFacts, KnownFacts DEF Types, IsNet
<1>2. skipped \subseteq Pipes
  BY DEF Full, OfNode
<1> QED
  BY <1>1, <1>2, TerminatedType DEF Receives, Types

LEMMA TypesInit ==
    ASSUME Init
    PROVE  Types
<1>1. net \in Nets /\ net.msgs \in Nat
  BY NetFacts DEF Init, IsNet
<1>2. Nil \in Known(0)
  BY <1>1, KnownFacts
<1>3. IsFiniteSet({})
  BY FS_EmptySet
<1> QED
  BY <1>1, <1>2, <1>3 DEF Init, Types

LEMMA TypesStep ==
    ASSUME Types, [Next]_vars
    PROVE  Types'
<1>0. /\ net \in Nets /\ net' = net /\ net.msgs \in Nat /\ sent \in Nat /\ Nil \in Known(sent)
      /\ \A d \in net.devices : d[1] \in Nodes /\ d[2] \in Nodes
  <2>1. net \in Nets /\ net' = net
    BY NetStays DEF Types
  <2>2. net.msgs \in Nat /\ net.devices \subseteq Nodes \X Nodes
    BY <2>1, NetFacts DEF IsNet, Nodes
  <2>3. sent \in Nat
    BY <2>2 DEF Types
  <2> QED
    BY <2>1, <2>2, <2>3, KnownFacts
<1>1. ASSUME NEW p \in Pipes, AddPipe(p) PROVE Types'
  <2>1. /\ p \notin up
        /\ UNCHANGED <<net, sending, inbox, refs, hand, held, trie, subs, sent, handed, echoed>>
        /\ Refused(p) \/ Accepted(p)
    BY <1>1, PipeAdded
  <2>2. up' \subseteq Pipes /\ ready' \subseteq up' /\ addr' \in [Pipes -> Int]
    BY <2>1 DEF Types, Refused, Accepted
  <2>3. pair' \in [Nodes -> Pipes \cup {NoPipe}]
    BY <2>1 DEF Types, Refused, Accepted
  <2> QED
    BY <1>0, <2>1, <2>2, <2>3, TypesAfter DEF Types
<1>2. ASSUME NEW p \in Pipes, RmPipe(p) PROVE Types'
  <2>1. /\ UNCHANGED <<net, broken, addr, hand, held, trie, subs, sent, handed, echoed>>
        /\ up' = up \ {p} /\ (ExclRm(p) \/ ListRm(p))
        /\ sending' = [sending EXCEPT ![p] = Nil]
        /\ inbox' = [inbox EXCEPT ![p] = Nil]
        /\ refs' = Terminated(Terminated(refs, sending, {p}), inbox, {p})
    BY <1>2 DEF RmPipe
  <2>2. up' \subseteq Pipes /\ pair' \in [Nodes -> Pipes \cup {NoPipe}]
    BY <2>1 DEF Types, ExclRm, ListRm
  <2>3. ready' \subseteq up'
    BY <2>1 DEF Types, ExclRm, ListRm, OfNode
  <2>4. sending' \in [Pipes -> Known(sent)] /\ inbox' \in [Pipes -> Known(sent)]
    BY <1>0, <2>1 DEF Types
  <2>5. refs' \in [Chunks -> Int]
    BY <1>0, <2>1, TerminatedType DEF Types
  <2> QED
    BY <1>0, <2>1, <2>2, <2>3, <2>4, <2>5, TypesAfter DEF Types
<1>3. ASSUME NEW p \in Pipes, Pass(p) PROVE Types'
  <2>1. /\ UNCHANGED <<net, up, broken, pair, addr, hand, held, trie, subs, sent, handed, echoed>>
        /\ p \in up /\ sending[p] # Nil
        /\ sending' = [sending EXCEPT ![p] = Nil]
        /\ ready' = ready \cup {p}
    BY <1>3 DEF Pass
  <2>2. ready' \subseteq up /\ sending' \in [Pipes -> Known(sent)]
    BY <1>0, <2>1 DEF Types
  <2>3. Terminated(refs, sending, {p}) \in [Chunks -> Int]
    BY <1>0, TerminatedType DEF Types
  <2>4. inbox' \in [Pipes -> Known(sent)] /\ refs' \in [Chunks -> Int]
    <3> DEFINE copy == [sending[p] EXCEPT !.chunk = <<sending[p].id, Other(p)>>]
    <3>1. \/ /\ inbox' = [inbox EXCEPT ![Other(p)] = copy]
             /\ refs' = [Terminated(refs, sending, {p}) EXCEPT ![copy.chunk] = @ + 1]
          \/ inbox' = inbox /\ refs' = Terminated(refs, sending, {p})
      BY <1>3 DEF Pass
    <3>2. Other(p) \in Pipes
      BY <1>0, OtherFacts
    <3>3. sending[p] \in Msgs /\ sending[p].id <= sent
      BY <1>0, <2>1, KnownFacts DEF Types
    <3>4. copy \in Msgs /\ copy.id = sending[p].id /\ copy.chunk = <<sending[p].id, Other(p)>>
      BY <1>0, <3>2, <3>3, CopyFacts
    <3> HIDE DEF copy
    <3>5. copy.chunk[1] = copy.id
      BY <3>4
    <3>6. copy \in Known(sent) /\ copy.chunk \in Chunks
      BY <1>0, <3>3, <3>4, <3>5, KnownFacts, MessageFacts
    <3> DEFINE r == Terminated(refs, sending, {p})
    <3>7. r \in [Chunks -> Int]
      BY <2>3
    <3>8. \/ /\ inbox' = [inbox EXCEPT ![Other(p)] = copy]
             /\ refs' = [r EXCEPT ![copy.chunk] = @ + 1]
          \/ inbox' = inbox /\ refs' = r
      BY <3>1
    <3> HIDE DEF r
    <3>9. inbox' \in [Pipes -> Known(sent)]
      BY <3>2, <3>6, <3>8 DEF Types
    <3>10. refs' \in [Chunks -> Int]
      BY <3>6, <3>7, <3>8
    <3> QED
      BY <3>9, <3>10
  <2> QED
    BY <1>0, <2>1, <2>2, <2>4, TypesAfter DEF Types
<1>4. ASSUME NEW c \in Conns, Break(c) PROVE Types'
  BY <1>0, <1>4, TypesAfter DEF Types, Break
<1>5. ASSUME NEW n \in Nodes, NEW topic \in net.topics, Send(n, topic) PROVE Types'
  <2> DEFINE m == Message(sent + 1, topic, n)
             r == [refs EXCEPT ![m.chunk] = 1]
  <2>1. /\ UNCHANGED <<net, up, broken, pair, inbox, addr, hand, held, trie, subs, handed, echoed>>
        /\ n \in net.senders /\ sent < net.msgs /\ sent' = sent + 1
        /\ SockSend(n, m, r, 0)
    BY <1>5 DEF Send
  <2>2. sent + 1 \in Ids /\ sent' \in 0 .. net.msgs
    BY <1>0, <2>1 DEF Ids
  <2>3. m \in Msgs /\ m.id = sent + 1 /\ m.chunk = <<sent + 1, NoPipe>>
    BY <1>0, <2>1, <2>2, MadeFacts
  <2> HIDE DEF m
  <2>4. r \in [Chunks -> Int]
    <3>1. refs \in [Chunks -> Int] /\ m.chunk \in Chunks /\ 1 \in Int
      BY <1>0, <2>3, MessageFacts DEF Types
    <3> QED
      BY <3>1
  <2> HIDE DEF r
  <2>5. m \in Known(sent')
    BY <1>0, <2>1, <2>3, KnownFacts
  <2>6. PICK C \in SUBSET (ready \cap OfNode(n)) : Sends(n, m, r, 0, C)
    BY <2>1, <2>3, <2>4, SockSends
  <2>7. ready' \subseteq up /\ sending' \in [Pipes -> Known(sent')] /\ refs' \in [Chunks -> Int]
    BY <1>0, <2>1, <2>3, <2>4, <2>5, <2>6, MessageFacts, SendsType
  <2>8. Known(sent) \subseteq Known(sent')
    BY <1>0, <2>1, KnownFacts
  <2>9. /\ inbox' \in [Pipes -> Known(sent')]
        /\ held' \in [net.devices -> [msg : Known(sent'), hdr : Int]]
        /\ \A h \in hand' : h.msg \in Known(sent') /\ h.nth < handed'[h.msg.id]
    BY <2>1, <2>8 DEF Types
  <2> QED
    BY <1>0, <2>1, <2>2, <2>7, <2>9, TypesAfter DEF Types
<1>6. ASSUME NEW n \in Nodes, NEW p \in OfNode(n), Recv(n, p) PROVE Types'
  <2> DEFINE h0 == [node |-> n, msg |-> inbox[p], nth |-> handed[inbox[p].id]]
  <2>1. /\ UNCHANGED <<net, up, broken, pair, ready, sending, addr, held, trie, subs, sent>>
        /\ SockRecv(n, p)
        /\ hand' = hand \cup {h0}
        /\ handed' = [handed EXCEPT ![inbox[p].id] = @ + 1]
    BY <1>6 DEF Recv
  <2>2. p \in Pipes /\ inbox[p] \in Msgs /\ inbox[p] \in Known(sent)
    BY <2>1, SockReceives DEF Types
  <2>3. PICK skipped \in SUBSET (Full(n) \ {p}) : Receives(n, p, skipped)
    BY <2>1, SockReceives
  <2>4. inbox' \in [Pipes -> Known(sent)] /\ refs' \in [Chunks -> Int]
    BY <2>2, <2>3, ReceivesType
  <2>5. inbox[p].id \in Ids /\ handed \in [Ids -> Nat]
    BY <1>0, <2>2, MessageFacts DEF Types
  <2>6. handed' \in [Ids -> Nat] /\ \A i \in Ids : handed'[i] >= handed[i]
    BY <2>1, <2>5
  <2>7. h0 \in Tokens /\ h0.msg = inbox[p] /\ h0.nth = handed[inbox[p].id]
    BY <2>2, <2>5 DEF Tokens
  <2> HIDE DEF h0
  <2>8. hand' \subseteq Tokens /\ IsFiniteSet(hand')
    BY <2>1, <2>7, FS_AddElement DEF Types
  <2>9. ASSUME NEW h \in hand' PROVE h.msg \in Known(sent) /\ h.nth < handed'[h.msg.id]
    <3>1. CASE h \in hand
      <4>1. h.msg \in Msgs /\ h.nth \in Nat /\ h.msg \in Known(sent) /\ h.nth < handed[h.msg.id]
        BY <3>1 DEF Types, Tokens
      <4>2. h.msg.id \in Ids
        BY <1>0, <4>1, MessageFacts
      <4> QED
        BY <2>5, <2>6, <4>1, <4>2
    <3>2. CASE h = h0
      <4>1. handed'[inbox[p].id] = handed[inbox[p].id] + 1 /\ handed[inbox[p].id] \in Nat
        BY <2>1, <2>5
      <4> QED
        BY <2>2, <2>7, <3>2, <4>1
    <3> QED
      BY <2>1, <3>1, <3>2
  <2> QED
    BY <1>0, <2>1, <2>4, <2>6, <2>8, <2>9, TypesAfter DEF Types
<1>7. ASSUME NEW n \in Nodes, RecvAgain(n) PROVE Types'
  <2>1. /\ UNCHANGED <<net, up, broken, pair, ready, sending, addr, hand, held, trie, subs, sent,
                       handed, echoed, aborted>>
        /\ Emptied(Full(n)) /\ refs' = Terminated(refs, inbox, Full(n))
    BY <1>7 DEF RecvAgain
  <2>2. inbox' \in [Pipes -> Known(sent)]
    BY <1>0, <2>1 DEF Emptied, Types
  <2>3. Full(n) \subseteq Pipes
    BY DEF Full, OfNode
  <2>4. refs' \in [Chunks -> Int]
    BY <1>0, <2>1, <2>3, TerminatedType DEF Types
  <2> QED
    BY <1>0, <2>1, <2>2, <2>4, TypesAfter DEF Types
<1>8. ASSUME NEW h \in hand, FreeMsg(h) PROVE Types'
  <2>1. /\ UNCHANGED <<net, up, broken, pair, ready, sending, inbox, addr, held, trie, subs, sent,
                       handed, echoed>>
        /\ refs' = [refs EXCEPT ![h.msg.chunk] = @ - 1]
        /\ hand' = hand \ {h}
    BY <1>8 DEF FreeMsg, netVars
  <2>2. h.msg.chunk \in Chunks
    BY <1>0, MessageFacts DEF Types, Tokens
  <2>3. refs' \in [Chunks -> Int]
    BY <2>1, <2>2 DEF Types
  <2>4. hand' \subseteq Tokens /\ IsFiniteSet(hand')
    BY <2>1, FS_RemoveElement DEF Types
  <2> QED
    BY <1>0, <2>1, <2>3, <2>4, TypesAfter DEF Types
<1>9. ASSUME NEW n \in Nodes, NEW t \in net.strings, Subscribe(n, t) \/ Unsubscribe(n, t)
      PROVE  Types'
  BY <1>0, <1>9, TypesAfter DEF Types, Subscribe, Unsubscribe, netVars
<1>10. ASSUME NEW d \in net.devices, NEW p \in OfNode(d[1]), DeviceRecv(d, p) PROVE Types'
  <2>1. /\ UNCHANGED <<net, up, broken, pair, ready, sending, addr, hand, trie, subs, sent, handed,
                       echoed>>
        /\ SockRecv(d[1], p)
        /\ held' = [held EXCEPT ![d] = [msg |-> inbox[p],
                                        hdr |-> IF Is(d[1], {"XBUS"}) THEN addr[p] ELSE 0]]
    BY <1>10 DEF DeviceRecv
  <2>2. p \in Pipes /\ inbox[p] \in Known(sent)
    BY <1>0, <2>1, SockReceives DEF Types
  <2>3. PICK skipped \in SUBSET (Full(d[1]) \ {p}) : Receives(d[1], p, skipped)
    BY <1>0, <2>1, SockReceives
  <2>4. inbox' \in [Pipes -> Known(sent)] /\ refs' \in [Chunks -> Int]
    BY <2>2, <2>3, ReceivesType
  <2>5. (IF Is(d[1], {"XBUS"}) THEN addr[p] ELSE 0) \in Int
    BY <2>2 DEF Types
  <2>6. held' \in [net.devices -> [msg : Known(sent), hdr : Int]]
    BY <2>1, <2>2, <2>5 DEF Types
  <2> QED
    BY <1>0, <2>1, <2>4, <2>6, TypesAfter DEF Types
<1>11. ASSUME NEW d \in net.devices, DeviceSend(d) PROVE Types'
  <2>1. /\ UNCHANGED <<net, up, broken, pair, inbox, addr, hand, trie, subs, sent, handed, echoed>>
        /\ held[d].msg # Nil /\ SockSend(d[2], held[d].msg, refs, held[d].hdr)
        /\ held' = [held EXCEPT ![d] = [msg |-> Nil, hdr |-> 0]]
    BY <1>11 DEF DeviceSend
  <2>2. held[d].msg \in Known(sent) /\ refs \in [Chunks -> Int]
    BY DEF Types
  <2>3. held[d].msg \in Msgs
    BY <1>0, <2>1, <2>2, KnownFacts
  <2>4. PICK C \in SUBSET (ready \cap OfNode(d[2])) :
            Sends(d[2], held[d].msg, refs, held[d].hdr, C)
    BY <1>0, <2>1, <2>2, <2>3, SockSends
  <2>5. ready' \subseteq up /\ sending' \in [Pipes -> Known(sent')] /\ refs' \in [Chunks -> Int]
    BY <2>1, <2>2, <2>4, SendsType
  <2>6. held' \in [net.devices -> [msg : Known(sent), hdr : Int]]
    BY <1>0, <2>1 DEF Types
  <2> QED
    BY <1>0, <2>1, <2>5, <2>6, TypesAfter DEF Types
<1>12. CASE UNCHANGED vars
  BY <1>0, <1>12, TypesAfter DEF Types, vars, netVars
<1> QED
  BY <1>1, <1>2, <1>3, <1>4, <1>5, <1>6, <1>7, <1>8, <1>9, <1>10, <1>11, <1>12 DEF Next

(* Everything in module Fanout has the values it is meant to have; so do   *)
(* the messages that dist.c, excl.c, lb.c and fq.c hand on, whose chunks   *)
(* hold the message they say.                                              *)
THEOREM FanoutTypes == Spec => []Types
<1>1. Init => Types
  BY TypesInit
<1>2. Types /\ [Next]_vars => Types'
  BY TypesStep
<1> QED
  BY <1>1, <1>2, PTL DEF Spec

-----------------------------------------------------------------------------
(* What the actions come to. *)

LEMMA Basics ==
    ASSUME Types
    PROVE  /\ net \in Nets /\ net.msgs \in Nat /\ sent \in Nat /\ Nil \in Known(sent)
           /\ IsFiniteSet(Pipes) /\ IsFiniteSet(net.devices)
           /\ \A d \in net.devices : d[1] \in Nodes /\ d[2] \in Nodes
           /\ \A p \in Pipes : p # NoPipe /\ p[1] \in Nodes /\ p[2] \in Conns /\ p \in OfNode(p[1])
           /\ \A n : \A p \in OfNode(n) : p \in Pipes /\ p[1] = n
           /\ \A p \in Pipes : sending[p] \in Msgs \/ sending[p] = Nil
           /\ \A p \in Pipes : inbox[p] \in Msgs \/ inbox[p] = Nil
           /\ \A d \in net.devices : held[d].msg \in Msgs \/ held[d].msg = Nil
           /\ \A h \in hand : h.msg \in Msgs
<1>1. net \in Nets
  BY DEF Types
<1>2. net.msgs \in Nat /\ net.devices \subseteq Nodes \X Nodes
  BY <1>1, NetFacts DEF IsNet, Nodes
<1>3. sent \in Nat
  BY <1>2 DEF Types
<1>4. Nil \in Known(sent) /\ \A m \in Known(sent) : m \in Msgs \/ m = Nil
  BY <1>1, <1>3, KnownFacts
<1>5. /\ \A p \in Pipes : sending[p] \in Known(sent) /\ inbox[p] \in Known(sent)
      /\ \A d \in net.devices : held[d].msg \in Known(sent)
      /\ \A h \in hand : h.msg \in Msgs
  BY DEF Types, Tokens
<1>6. /\ IsFiniteSet(Pipes) /\ IsFiniteSet(net.devices)
      /\ \A p \in Pipes : p # NoPipe /\ p[1] \in Nodes /\ p[2] \in Conns
  BY <1>1, NetFacts
<1>7. /\ \A p \in Pipes : p \in OfNode(p[1])
      /\ \A n : \A p \in OfNode(n) : p \in Pipes /\ p[1] = n
  BY DEF OfNode
<1> QED
  BY <1>1, <1>2, <1>3, <1>4, <1>5, <1>6, <1>7

(* A message is made and sent. *)
LEMMA SendFacts ==
    ASSUME Types, NEW n \in Nodes, NEW topic \in net.topics, Send(n, topic)
    PROVE  /\ UNCHANGED <<net, up, broken, pair, inbox, addr, hand, held, handed, echoed>>
           /\ n \in net.senders /\ sent' = sent + 1 /\ sent + 1 \in Ids
           /\ \E m \in Msgs :
                /\ m.id = sent + 1 /\ m.chunk = <<sent + 1, NoPipe>> /\ m.origin = n
                /\ [refs EXCEPT ![m.chunk] = 1] \in [Chunks -> Int]
                /\ \E C \in SUBSET (ready \cap OfNode(n)) :
                      Sends(n, m, [refs EXCEPT ![m.chunk] = 1], 0, C)
<1> DEFINE m == Message(sent + 1, topic, n)
           r == [refs EXCEPT ![m.chunk] = 1]
<1>1. /\ UNCHANGED <<net, up, broken, pair, inbox, addr, hand, held, handed, echoed>>
      /\ n \in net.senders /\ sent < net.msgs /\ sent' = sent + 1
      /\ SockSend(n, m, r, 0)
  BY DEF Send
<1>2. sent + 1 \in Ids
  BY <1>1, Basics DEF Ids
<1>3. m \in Msgs /\ m.id = sent + 1 /\ m.chunk = <<sent + 1, NoPipe>> /\ m.origin = n
  BY <1>1, <1>2, Basics, MadeFacts
<1> HIDE DEF m
<1>4. r \in [Chunks -> Int]
  <2>1. refs \in [Chunks -> Int] /\ net \in Nets
    BY DEF Types
  <2>2. m.chunk \in Chunks
    BY <1>3, <2>1, MessageFacts
  <2> QED
    BY <2>1, <2>2
<1>5. \E C \in SUBSET (ready \cap OfNode(n)) : Sends(n, m, r, 0, C)
  BY <1>1, <1>3, <1>4, SockSends
<1> QED
  BY <1>1, <1>2, <1>3, <1>4, <1>5

LEMMA DeviceSendFacts ==
    ASSUME Types, NEW d \in net.devices, DeviceSend(d)
    PROVE  /\ UNCHANGED <<net, up, broken, pair, inbox, addr, hand, sent, handed, echoed>>
           /\ held[d].msg \in Msgs /\ held[d].msg # Nil
           /\ held' = [held EXCEPT ![d] = [msg |-> Nil, hdr |-> 0]]
           /\ \E C \in SUBSET (ready \cap OfNode(d[2])) :
                 Sends(d[2], held[d].msg, refs, held[d].hdr, C)
<1>1. /\ UNCHANGED <<net, up, broken, pair, inbox, addr, hand, sent, handed, echoed>>
      /\ held[d].msg # Nil /\ SockSend(d[2], held[d].msg, refs, held[d].hdr)
      /\ held' = [held EXCEPT ![d] = [msg |-> Nil, hdr |-> 0]]
  BY DEF DeviceSend
<1>2. held[d].msg \in Msgs /\ refs \in [Chunks -> Int] /\ d[2] \in Nodes
  BY <1>1, Basics DEF Types
<1> QED
  BY <1>1, <1>2, SockSends

LEMMA RecvFacts ==
    ASSUME Types, NEW n \in Nodes, NEW p, Recv(n, p)
    PROVE  /\ UNCHANGED <<net, up, broken, pair, ready, sending, addr, held, sent>>
           /\ p \in Pipes /\ p[1] = n /\ inbox[p] \in Msgs /\ inbox[p] # Nil
           /\ inbox[p].id \in Ids
           /\ hand' = hand \cup {[node |-> n, msg |-> inbox[p], nth |-> handed[inbox[p].id]]}
           /\ [node |-> n, msg |-> inbox[p], nth |-> handed[inbox[p].id]] \notin hand
           /\ handed' = [handed EXCEPT ![inbox[p].id] = @ + 1]
           /\ echoed' = (echoed \/ inbox[p].origin = n)
           /\ aborted' = (aborted \/ Freed(inbox[p]))
           /\ \E skipped \in SUBSET (Full(n) \ {p}) : Receives(n, p, skipped)
<1>1. /\ UNCHANGED <<net, up, broken, pair, ready, sending, addr, held, sent>>
      /\ SockRecv(n, p)
      /\ hand' = hand \cup {[node |-> n, msg |-> inbox[p], nth |-> handed[inbox[p].id]]}
      /\ handed' = [handed EXCEPT ![inbox[p].id] = @ + 1]
      /\ echoed' = (echoed \/ inbox[p].origin = n)
      /\ aborted' = (aborted \/ Freed(inbox[p]))
  BY DEF Recv
<1>2. /\ p \in Pipes /\ p[1] = n /\ inbox[p] \in Msgs /\ inbox[p] # Nil
      /\ \E skipped \in SUBSET (Full(n) \ {p}) : Receives(n, p, skipped)
  BY <1>1, SockReceives
<1>3. inbox[p].id \in Ids /\ handed[inbox[p].id] \in Nat
  BY <1>2, Basics, MessageFacts DEF Types
<1>4. ASSUME [node |-> n, msg |-> inbox[p], nth |-> handed[inbox[p].id]] \in hand
      PROVE  FALSE
  <2>1. \A h \in hand : h.nth < handed[h.msg.id]
    BY DEF Types
  <2>2. handed[inbox[p].id] < handed[inbox[p].id]
    BY <1>4, <2>1
  <2> QED
    BY <1>3, <2>2
<1> QED
  BY <1>1, <1>2, <1>3, <1>4

LEMMA DeviceRecvFacts ==
    ASSUME Types, NEW d \in net.devices, NEW p, DeviceRecv(d, p)
    PROVE  /\ UNCHANGED <<net, up, broken, pair, ready, sending, addr, hand, sent, handed, echoed>>
           /\ p \in Pipes /\ p[1] = d[1] /\ inbox[p] \in Msgs /\ inbox[p] # Nil
           /\ held[d].msg = Nil
           /\ held' = [held EXCEPT ![d] = [msg |-> inbox[p],
                                           hdr |-> IF Is(d[1], {"XBUS"}) THEN addr[p] ELSE 0]]
           /\ aborted' = (aborted \/ Freed(inbox[p]))
           /\ \E skipped \in SUBSET (Full(d[1]) \ {p}) : Receives(d[1], p, skipped)
<1>1. SockRecv(d[1], p) /\ d[1] \in Nodes
  BY Basics DEF DeviceRecv
<1>2. /\ p \in Pipes /\ p[1] = d[1] /\ inbox[p] \in Msgs /\ inbox[p] # Nil
      /\ \E skipped \in SUBSET (Full(d[1]) \ {p}) : Receives(d[1], p, skipped)
  BY <1>1, SockReceives
<1> QED
  BY <1>2 DEF DeviceRecv

-----------------------------------------------------------------------------
(* What the sockets know of their pipes. *)

LEMMA PipesKnownAfter ==
    ASSUME net' = net,
           \A p \in ready' : sending'[p] = Nil,
           \A p \in Pipes \ up' : sending'[p] = Nil /\ inbox'[p] = Nil,
           \A n \in Nodes : Is(n, {"PAIR"}) =>
               \A p \in OfNode(n) : p \in up' <=> pair'[n] = p,
           \A p \in Pipes : sending'[p] # Nil => ~Is(p[1], {"SUB", "PULL"})
    PROVE  PipesKnown'
<1>1. Pipes' = Pipes /\ Nodes' = Nodes /\ \A n : OfNode(n)' = OfNode(n)
  BY SameNet
<1>2. \A n, T : Is(n, T)' = Is(n, T)
  BY DEF Is
<1> QED
  BY <1>1, <1>2 DEF PipesKnown, Nil, OfNode, Is

LEMMA SendsKnown ==
    ASSUME Types, PipesKnown, NEW n \in Nodes, NEW m, NEW r, NEW hdr, UNCHANGED <<up, inbox, pair, net>>,
           NEW C \in SUBSET (ready \cap OfNode(n)), Sends(n, m, r, hdr, C)
    PROVE  PipesKnown'
<1>1. /\ C \subseteq up /\ \A p \in C : p \in Pipes /\ p[1] = n
      /\ ready' = ready \ C /\ ready \subseteq Pipes
      /\ \A p \in Pipes : sending'[p] = IF p \in C THEN m ELSE sending[p]
  BY DEF Types, OfNode, Sends
<1>2. ~Is(n, {"SUB", "PULL"})
  BY DEF Sends
<1>3. \A p \in ready' : sending'[p] = Nil
  BY <1>1 DEF PipesKnown
<1>4. \A p \in Pipes \ up' : sending'[p] = Nil /\ inbox'[p] = Nil
  BY <1>1 DEF PipesKnown
<1>5. \A p \in Pipes : sending'[p] # Nil => ~Is(p[1], {"SUB", "PULL"})
  BY <1>1, <1>2 DEF PipesKnown
<1> QED
  BY <1>3, <1>4, <1>5, PipesKnownAfter DEF PipesKnown

(* A receive empties pipes. *)
LEMMA EmptiedKnown ==
    ASSUME Types, PipesKnown, UNCHANGED <<up, ready, sending, pair, net>>,
           NEW E, inbox' = [p \in Pipes |-> IF p \in E THEN Nil ELSE inbox[p]]
    PROVE  PipesKnown'
<1>1. \A p \in Pipes \ up' : sending'[p] = Nil /\ inbox'[p] = Nil
  BY DEF PipesKnown
<1> QED
  BY <1>1, PipesKnownAfter DEF PipesKnown

LEMMA PipesKnownStep ==
    ASSUME Types, PipesKnown, [Next]_vars
    PROVE  PipesKnown'
<1>1. ASSUME NEW p \in Pipes, AddPipe(p) PROVE PipesKnown'
  <2>1. /\ p \notin up /\ UNCHANGED <<net, sending, inbox>>
        /\ Refused(p) \/ Accepted(p)
    BY <1>1, PipeAdded
  <2>2. CASE Refused(p)
    BY <2>1, <2>2, PipesKnownAfter DEF PipesKnown, Refused
  <2>3. CASE Accepted(p)
    <3>1. up' = up \cup {p} /\ (ready' = ready \/ ready' = ready \cup {p})
      BY <2>3 DEF Accepted
    <3>2. \A q \in ready' : sending'[q] = Nil
      BY <2>1, <3>1 DEF PipesKnown
    <3>3. \A q \in Pipes \ up' : sending'[q] = Nil /\ inbox'[q] = Nil
      BY <2>1, <3>1 DEF PipesKnown
    <3>4. ASSUME NEW n \in Nodes, Is(n, {"PAIR"}), NEW q \in OfNode(n)
          PROVE  q \in up' <=> pair'[n] = q
      <4>1. q \in Pipes /\ q[1] = n /\ q # NoPipe /\ (q \in up <=> pair[n] = q)
        BY <3>4, Basics DEF PipesKnown
      <4>2. CASE p[1] = n
        <5>1. pair[n] = NoPipe /\ pair' = [pair EXCEPT ![n] = p]
          BY <2>3, <3>4, <4>2 DEF Accepted
        <5>2. pair'[n] = p
          BY <5>1 DEF Types
        <5> QED
          BY <3>1, <4>1, <5>1, <5>2
      <4>3. CASE p[1] # n
        <5>1. pair'[n] = pair[n]
          BY <2>3, <4>3 DEF Accepted, Types
        <5> QED
          BY <3>1, <4>1, <4>3, <5>1
      <4> QED
        BY <4>2, <4>3
    <3>5. \A q \in Pipes : sending'[q] # Nil => ~Is(q[1], {"SUB", "PULL"})
      BY <2>1 DEF PipesKnown
    <3> QED
      BY <2>1, <3>2, <3>3, <3>4, <3>5, PipesKnownAfter
  <2> QED
    BY <2>1, <2>2, <2>3
<1>2. ASSUME NEW p \in Pipes, RmPipe(p) PROVE PipesKnown'
  <2>1. /\ net' = net /\ p \in up /\ up' = up \ {p} /\ (ExclRm(p) \/ ListRm(p))
        /\ sending' = [sending EXCEPT ![p] = Nil] /\ inbox' = [inbox EXCEPT ![p] = Nil]
    BY <1>2 DEF RmPipe
  <2>2. \A q \in Pipes : /\ sending'[q] = IF q = p THEN Nil ELSE sending[q]
                         /\ inbox'[q] = IF q = p THEN Nil ELSE inbox[q]
    BY <2>1 DEF Types
  <2>3. ready' \subseteq ready /\ ready \subseteq Pipes
    BY <2>1 DEF ExclRm, ListRm, Types
  <2>4. \A q \in ready' : sending'[q] = Nil
    BY <2>2, <2>3 DEF PipesKnown
  <2>5. \A q \in Pipes \ up' : sending'[q] = Nil /\ inbox'[q] = Nil
    BY <2>1, <2>2 DEF PipesKnown
  <2>6. ASSUME NEW n \in Nodes, Is(n, {"PAIR"}), NEW q \in OfNode(n)
        PROVE  q \in up' <=> pair'[n] = q
    <3>1. q \in Pipes /\ q[1] = n /\ q # NoPipe /\ (q \in up <=> pair[n] = q)
      BY <2>6, Basics DEF PipesKnown
    <3>2. CASE p[1] = n
      <4>1. pair' = [pair EXCEPT ![n] = NoPipe] /\ pair[n] = p
        BY <2>1, <2>6, <3>2, Basics DEF ExclRm, ListRm, PipesKnown
      <4>2. pair'[n] = NoPipe
        BY <4>1 DEF Types
      <4> QED
        BY <2>1, <3>1, <4>1, <4>2
    <3>3. CASE p[1] # n
      <4>1. pair'[n] = pair[n]
        BY <2>1, <3>3 DEF ExclRm, ListRm, Types
      <4> QED
        BY <2>1, <3>1, <3>3, <4>1
    <3> QED
      BY <3>2, <3>3
  <2>7. \A q \in Pipes : sending'[q] # Nil => ~Is(q[1], {"SUB", "PULL"})
    BY <2>2 DEF PipesKnown
  <2> QED
    BY <2>1, <2>4, <2>5, <2>6, <2>7, PipesKnownAfter
<1>3. ASSUME NEW p \in Pipes, Pass(p) PROVE PipesKnown'
  <2>1. /\ UNCHANGED <<net, up, pair>> /\ p \in up
        /\ sending' = [sending EXCEPT ![p] = Nil] /\ ready' = ready \cup {p}
    BY <1>3 DEF Pass
  <2>2. \A q \in Pipes : sending'[q] = IF q = p THEN Nil ELSE sending[q]
    BY <2>1 DEF Types
  <2>3. \A q \in Pipes \ up : inbox'[q] = inbox[q]
    BY <1>3 DEF Pass, Types
  <2>4. \A q \in ready' : sending'[q] = Nil
    BY <2>1, <2>2 DEF PipesKnown, Types
  <2>5. \A q \in Pipes \ up' : sending'[q] = Nil /\ inbox'[q] = Nil
    BY <2>1, <2>2, <2>3 DEF PipesKnown
  <2>6. \A q \in Pipes : sending'[q] # Nil => ~Is(q[1], {"SUB", "PULL"})
    BY <2>2 DEF PipesKnown
  <2> QED
    BY <2>1, <2>4, <2>5, <2>6, PipesKnownAfter DEF PipesKnown
<1>4. CASE \/ \E c \in Conns : Break(c)
           \/ \E h \in hand : FreeMsg(h)
           \/ \E n \in Nodes, t \in net.strings : Subscribe(n, t) \/ Unsubscribe(n, t)
           \/ UNCHANGED vars
  <2>1. UNCHANGED <<net, up, ready, pair, sending, inbox>>
    BY <1>4 DEF Break, FreeMsg, Subscribe, Unsubscribe, vars, netVars
  <2> QED
    BY <2>1, PipesKnownAfter DEF PipesKnown
<1>5. ASSUME NEW n \in Nodes, NEW topic \in net.topics, Send(n, topic) PROVE PipesKnown'
  <2>1. UNCHANGED <<net, up, pair, inbox>>
    BY <1>5, SendFacts
  <2>2. PICK m \in Msgs : \E C \in SUBSET (ready \cap OfNode(n)) :
            Sends(n, m, [refs EXCEPT ![m.chunk] = 1], 0, C)
    BY <1>5, SendFacts
  <2>3. PICK C \in SUBSET (ready \cap OfNode(n)) : Sends(n, m, [refs EXCEPT ![m.chunk] = 1], 0, C)
    BY <2>2
  <2> QED
    BY <2>1, <2>3, SendsKnown
<1>6. ASSUME NEW n \in Nodes, NEW p \in OfNode(n), Recv(n, p) PROVE PipesKnown'
  <2>1. UNCHANGED <<net, up, pair, ready, sending>>
    BY <1>6, RecvFacts
  <2>2. PICK skipped : Receives(n, p, skipped)
    BY <1>6, RecvFacts
  <2> QED
    BY <2>1, <2>2, EmptiedKnown DEF Receives
<1>7. ASSUME NEW n \in Nodes, RecvAgain(n) PROVE PipesKnown'
  BY <1>7, EmptiedKnown DEF RecvAgain, Emptied
<1>8. ASSUME NEW d \in net.devices, NEW p \in OfNode(d[1]), DeviceRecv(d, p) PROVE PipesKnown'
  <2>1. UNCHANGED <<net, up, pair, ready, sending>>
    BY <1>8, DeviceRecvFacts
  <2>2. PICK skipped : Receives(d[1], p, skipped)
    BY <1>8, DeviceRecvFacts
  <2> QED
    BY <2>1, <2>2, EmptiedKnown DEF Receives
<1>9. ASSUME NEW d \in net.devices, DeviceSend(d) PROVE PipesKnown'
  <2>1. UNCHANGED <<net, up, pair, inbox>> /\ d[2] \in Nodes
    BY <1>9, DeviceSendFacts, Basics
  <2>2. PICK C \in SUBSET (ready \cap OfNode(d[2])) :
            Sends(d[2], held[d].msg, refs, held[d].hdr, C)
    BY <1>9, DeviceSendFacts
  <2> QED
    BY <2>1, <2>2, SendsKnown
<1> QED
  BY <1>1, <1>2, <1>3, <1>4, <1>5, <1>6, <1>7, <1>8, <1>9 DEF Next

(* What the sockets know of their pipes is what there is: a pipe that is   *)
(* in a list for sending (nn_dist, nn_lb, nn_excl.outpipe) is not sending, *)
(* a pipe that is not up has nothing, and nn_excl.pipe is the one pipe a   *)
(* PAIR has taken.                                                         *)
THEOREM SocketsKnowTheirPipes == Spec => []PipesKnown
<1>1. Init => PipesKnown
  <2> SUFFICES ASSUME Init PROVE PipesKnown
    OBVIOUS
  <2>1. \A p \in Pipes : p # NoPipe
    BY NetFacts DEF Init
  <2> QED
    BY <2>1 DEF Init, PipesKnown, OfNode
<1>2. Types /\ PipesKnown /\ [Next]_vars => PipesKnown'
  BY PipesKnownStep
<1> QED
  BY <1>1, <1>2, FanoutTypes, PTL DEF Spec

-----------------------------------------------------------------------------
(* References and holders. *)

(* How many messages in the chunk k are in hands, and what devices hold. *)
InHand(H, k) == Cardinality({h \in H : h.msg.chunk = k})
HeldMsgs(h) == [d \in net.devices |-> h[d].msg]

LEMMA HoldersSum ==
    ASSUME Types, RefsAreHolders, NEW k \in Chunks
    PROVE  refs[k] = At(Pipes, sending, k) + At(Pipes, inbox, k)
                     + At(net.devices, HeldMsgs(held), k) + InHand(hand, k)
<1>1. {d \in net.devices : HeldMsgs(held)[d].chunk = k} = {d \in net.devices : held[d].msg.chunk = k}
  BY DEF HeldMsgs
<1>2. At(net.devices, HeldMsgs(held), k) = Cardinality({d \in net.devices : held[d].msg.chunk = k})
  BY <1>1 DEF At
<1> QED
  BY <1>2 DEF RefsAreHolders, Holders, At, InHand

LEMMA HoldersAfter ==
    ASSUME net' = net,
           \A k \in Chunks : refs'[k] = At(Pipes, sending', k) + At(Pipes, inbox', k)
                                        + At(net.devices, HeldMsgs(held'), k) + InHand(hand', k)
    PROVE  RefsAreHolders'
<1>1. Pipes' = Pipes /\ Chunks' = Chunks
  BY SameNet
<1>2. ASSUME NEW k \in Chunks PROVE refs'[k] = Holders(k)'
  <2>1. {d \in net.devices : HeldMsgs(held')[d].chunk = k}
          = {d \in net.devices : held'[d].msg.chunk = k}
    BY DEF HeldMsgs
  <2>2. At(net.devices, HeldMsgs(held'), k)
          = Cardinality({d \in net.devices : held'[d].msg.chunk = k})
    BY <2>1 DEF At
  <2>3. Holders(k)' = Cardinality({p \in Pipes : sending'[p].chunk = k})
                      + Cardinality({p \in Pipes : inbox'[p].chunk = k})
                      + Cardinality({d \in net.devices : held'[d].msg.chunk = k})
                      + Cardinality({h \in hand' : h.msg.chunk = k})
    BY <1>1 DEF Holders
  <2> QED
    BY <2>2, <2>3 DEF At, InHand
<1> QED
  BY <1>1, <1>2 DEF RefsAreHolders

LEMMA AtType ==
    ASSUME NEW D, IsFiniteSet(D), NEW f, NEW k
    PROVE  At(D, f, k) \in Nat
<1>1. IsFiniteSet({x \in D : f[x].chunk = k})
  BY FS_Subset
<1> QED
  BY <1>1, FS_CardinalityType DEF At

LEMMA InHandType ==
    ASSUME Types, NEW k
    PROVE  InHand(hand, k) \in Nat
<1>1. IsFiniteSet({h \in hand : h.msg.chunk = k})
  BY FS_Subset DEF Types
<1> QED
  BY <1>1, FS_CardinalityType DEF InHand

LEMMA AtNone ==
    ASSUME NEW D, NEW f, NEW k, \A x \in D : f[x].chunk # k
    PROVE  At(D, f, k) = 0
<1>1. {x \in D : f[x].chunk = k} = {}
  OBVIOUS
<1> QED
  BY <1>1, FS_EmptySet DEF At

(* Messages are taken out of C: how many are in the chunk k afterwards, and *)
(* with the number i.                                                      *)
LEMMA TakenOut ==
    ASSUME net \in Nets, NEW D, IsFiniteSet(D), NEW C \in SUBSET D, NEW f, NEW g,
           Given(D, C, f, g, Nil), NEW k \in Chunks
    PROVE  At(D, g, k) = At(D, f, k) - At(C, f, k) /\ At(D, f, k) \in Nat /\ At(C, f, k) \in Nat
<1> DEFINE A == {x \in D : f[x].chunk = k}
           B == {x \in D : g[x].chunk = k}
           Q == {x \in C : f[x].chunk = k}
<1>1. Nil.chunk # k
  BY MessageFacts
<1>2. Q = A \cap C /\ B = A \ C
  BY <1>1 DEF Given
<1>3. IsFiniteSet(A) /\ IsFiniteSet(C)
  BY FS_Subset
<1>4. At(D, f, k) = Cardinality(A) /\ At(C, f, k) = Cardinality(Q) /\ At(D, g, k) = Cardinality(B)
  BY DEF At
<1> HIDE DEF A, B, Q
<1>5. /\ Cardinality(A) \in Nat /\ Cardinality(A \cap C) \in Nat
      /\ Cardinality(A \ C) = Cardinality(A) - Cardinality(A \cap C)
  BY <1>3, Replaced
<1> QED
  BY <1>2, <1>4, <1>5, Zenon

(* The message m is put in C, where there was none. *)
LEMMA PutIn ==
    ASSUME net \in Nets, NEW D, IsFiniteSet(D), NEW C \in SUBSET D, NEW f, NEW g, NEW m,
           Given(D, C, f, g, m), NoneIn(C, f), NEW k \in Chunks
    PROVE  /\ At(D, f, k) \in Nat /\ Cardinality(C) \in Nat
           /\ At(D, g, k) = At(D, f, k) + (IF m.chunk = k THEN Cardinality(C) ELSE 0)
<1> DEFINE A == {x \in D : f[x].chunk = k}
           B == {x \in D : g[x].chunk = k}
<1>1. Nil.chunk # k
  BY MessageFacts
<1>2. A \cap C = {}
  BY <1>1 DEF NoneIn
<1>3. m.chunk = k => B = A \cup C
  BY DEF Given
<1>4. m.chunk # k => B = A
  BY <1>2 DEF Given
<1>5. IsFiniteSet(A) /\ IsFiniteSet(C)
  BY FS_Subset
<1>6. At(D, f, k) = Cardinality(A) /\ At(D, g, k) = Cardinality(B)
  BY DEF At
<1> HIDE DEF A, B
<1>7. /\ Cardinality(A) \in Nat /\ Cardinality(C) \in Nat
      /\ Cardinality(A \cup C) = Cardinality(A) + Cardinality(C)
  BY <1>2, <1>5, Disjoint
<1>8. CASE m.chunk = k
  BY <1>3, <1>6, <1>7, <1>8
<1>9. CASE m.chunk # k
  BY <1>4, <1>6, <1>7, <1>9
<1> QED
  BY <1>8, <1>9

LEMMA TakenOutIds ==
    ASSUME net \in Nets, NEW D, IsFiniteSet(D), NEW C \in SUBSET D, NEW f, NEW g,
           Given(D, C, f, g, Nil), NEW i \in Ids
    PROVE  Nr(D, g, i) = Nr(D, f, i) - Nr(C, f, i) /\ Nr(D, f, i) \in Nat /\ Nr(C, f, i) \in Nat
<1> DEFINE A == {x \in D : f[x].id = i}
           B == {x \in D : g[x].id = i}
           Q == {x \in C : f[x].id = i}
<1>1. Nil.id # i
  BY MessageFacts
<1>2. Q = A \cap C /\ B = A \ C
  BY <1>1 DEF Given
<1>3. IsFiniteSet(A) /\ IsFiniteSet(C)
  BY FS_Subset
<1>4. Nr(D, f, i) = Cardinality(A) /\ Nr(C, f, i) = Cardinality(Q) /\ Nr(D, g, i) = Cardinality(B)
  BY DEF Nr
<1> HIDE DEF A, B, Q
<1>5. /\ Cardinality(A) \in Nat /\ Cardinality(A \cap C) \in Nat
      /\ Cardinality(A \ C) = Cardinality(A) - Cardinality(A \cap C)
  BY <1>3, Replaced
<1> QED
  BY <1>2, <1>4, <1>5, Zenon

LEMMA PutInIds ==
    ASSUME net \in Nets, NEW D, IsFiniteSet(D), NEW C \in SUBSET D, NEW f, NEW g, NEW m,
           Given(D, C, f, g, m), NoneIn(C, f), NEW i \in Ids
    PROVE  /\ Nr(D, f, i) \in Nat /\ Cardinality(C) \in Nat
           /\ Nr(D, g, i) = Nr(D, f, i) + (IF m.id = i THEN Cardinality(C) ELSE 0)
<1> DEFINE A == {x \in D : f[x].id = i}
           B == {x \in D : g[x].id = i}
<1>1. Nil.id # i
  BY MessageFacts
<1>2. A \cap C = {}
  BY <1>1 DEF NoneIn
<1>3. m.id = i => B = A \cup C
  BY DEF Given
<1>4. m.id # i => B = A
  BY <1>2 DEF Given
<1>5. IsFiniteSet(A) /\ IsFiniteSet(C)
  BY FS_Subset
<1>6. Nr(D, f, i) = Cardinality(A) /\ Nr(D, g, i) = Cardinality(B)
  BY DEF Nr
<1> HIDE DEF A, B
<1>7. /\ Cardinality(A) \in Nat /\ Cardinality(C) \in Nat
      /\ Cardinality(A \cup C) = Cardinality(A) + Cardinality(C)
  BY <1>2, <1>5, Disjoint
<1>8. CASE m.id = i
  BY <1>3, <1>6, <1>7, <1>8
<1>9. CASE m.id # i
  BY <1>4, <1>6, <1>7, <1>9
<1> QED
  BY <1>8, <1>9

(* The same of one of them. *)
LEMMA PutInOne ==
    ASSUME net \in Nets, NEW D, IsFiniteSet(D), NEW q \in D, NEW f, NEW g, NEW m,
           GivenTo(D, q, f, g, m), f[q] = Nil, NEW k \in Chunks
    PROVE  /\ At(D, f, k) \in Nat
           /\ At(D, g, k) = At(D, f, k) + (IF m.chunk = k THEN 1 ELSE 0)
<1> DEFINE C == {q}
<1>1. C \in SUBSET D /\ NoneIn(C, f) /\ Given(D, C, f, g, m) /\ Cardinality(C) = 1
  BY FS_Singleton DEF NoneIn, Given, GivenTo
<1> HIDE DEF C
<1>2. /\ At(D, f, k) \in Nat
      /\ At(D, g, k) = At(D, f, k) + (IF m.chunk = k THEN Cardinality(C) ELSE 0)
  BY <1>1, PutIn
<1> QED
  BY <1>1, <1>2

LEMMA TakenOutOne ==
    ASSUME net \in Nets, NEW D, IsFiniteSet(D), NEW q \in D, NEW f, NEW g,
           GivenTo(D, q, f, g, Nil), NEW k \in Chunks
    PROVE  /\ At(D, f, k) \in Nat
           /\ At(D, g, k) = At(D, f, k) - (IF f[q].chunk = k THEN 1 ELSE 0)
<1> DEFINE C == {q}
<1>1. C \in SUBSET D /\ Given(D, C, f, g, Nil)
  BY DEF Given, GivenTo
<1>2. At(C, f, k) = IF f[q].chunk = k THEN 1 ELSE 0
  BY One
<1> HIDE DEF C
<1>3. At(D, g, k) = At(D, f, k) - At(C, f, k) /\ At(D, f, k) \in Nat
  BY <1>1, TakenOut
<1> QED
  BY <1>2, <1>3

LEMMA PutInOneIds ==
    ASSUME net \in Nets, NEW D, IsFiniteSet(D), NEW q \in D, NEW f, NEW g, NEW m,
           GivenTo(D, q, f, g, m), f[q] = Nil, NEW i \in Ids
    PROVE  /\ Nr(D, f, i) \in Nat
           /\ Nr(D, g, i) = Nr(D, f, i) + (IF m.id = i THEN 1 ELSE 0)
<1> DEFINE C == {q}
<1>1. C \in SUBSET D /\ NoneIn(C, f) /\ Given(D, C, f, g, m) /\ Cardinality(C) = 1
  BY FS_Singleton DEF NoneIn, Given, GivenTo
<1> HIDE DEF C
<1>2. /\ Nr(D, f, i) \in Nat
      /\ Nr(D, g, i) = Nr(D, f, i) + (IF m.id = i THEN Cardinality(C) ELSE 0)
  BY <1>1, PutInIds
<1> QED
  BY <1>1, <1>2

LEMMA TakenOutOneIds ==
    ASSUME net \in Nets, NEW D, IsFiniteSet(D), NEW q \in D, NEW f, NEW g,
           GivenTo(D, q, f, g, Nil), NEW i \in Ids
    PROVE  /\ Nr(D, f, i) \in Nat
           /\ Nr(D, g, i) = Nr(D, f, i) - (IF f[q].id = i THEN 1 ELSE 0)
<1> DEFINE C == {q}
<1>1. C \in SUBSET D /\ Given(D, C, f, g, Nil)
  BY DEF Given, GivenTo
<1>2. Nr(C, f, i) = IF f[q].id = i THEN 1 ELSE 0
  BY One
<1> HIDE DEF C
<1>3. Nr(D, g, i) = Nr(D, f, i) - Nr(C, f, i) /\ Nr(D, f, i) \in Nat
  BY <1>1, TakenOutIds
<1> QED
  BY <1>2, <1>3

(* The ones that are skipped, and the one that is received. *)
LEMMA AtOneMore ==
    ASSUME NEW S, IsFiniteSet(S), NEW p, p \notin S, NEW f, NEW k
    PROVE  At(S \cup {p}, f, k) = At(S, f, k) + At({p}, f, k)
<1> DEFINE A == {x \in S : f[x].chunk = k}
<1>1. IsFiniteSet(A) /\ p \notin A
  BY FS_Subset
<1>2. CASE f[p].chunk = k
  <2>1. {x \in S \cup {p} : f[x].chunk = k} = A \cup {p}
    BY <1>2
  <2>2. Cardinality(A \cup {p}) = Cardinality(A) + 1
    BY <1>1, OneMore
  <2>3. At({p}, f, k) = 1
    BY <1>2, One
  <2> QED
    BY <2>1, <2>2, <2>3 DEF At
<1>3. CASE f[p].chunk # k
  <2>1. {x \in S \cup {p} : f[x].chunk = k} = A
    BY <1>3
  <2>2. At({p}, f, k) = 0
    BY <1>3, One
  <2>3. At(S, f, k) \in Nat
    BY AtType
  <2>5. At(S, f, k) = Cardinality(A)
    BY DEF At
  <2>4. At(S \cup {p}, f, k) = Cardinality(A)
    BY <2>1 DEF At
  <2> QED
    BY <2>2, <2>3, <2>5, <2>4
<1> QED
  BY <1>2, <1>3

(* A user gets a message, or gives one back. *)
LEMMA HandMore ==
    ASSUME Types, NEW h, h \notin hand, NEW k
    PROVE  /\ InHand(hand, k) \in Nat
           /\ InHand(hand \cup {h}, k) = InHand(hand, k) + (IF h.msg.chunk = k THEN 1 ELSE 0)
<1> DEFINE A == {x \in hand : x.msg.chunk = k}
<1>1. IsFiniteSet(A) /\ h \notin A
  BY FS_Subset DEF Types
<1>2. h.msg.chunk = k => {x \in hand \cup {h} : x.msg.chunk = k} = A \cup {h}
  OBVIOUS
<1>3. h.msg.chunk # k => {x \in hand \cup {h} : x.msg.chunk = k} = A
  OBVIOUS
<1>4. Cardinality(A \cup {h}) = Cardinality(A) + 1 /\ Cardinality(A) \in Nat
  BY <1>1, OneMore
<1>5. InHand(hand, k) = Cardinality(A)
  BY DEF InHand
<1>6. /\ h.msg.chunk = k => InHand(hand \cup {h}, k) = Cardinality(A \cup {h})
      /\ h.msg.chunk # k => InHand(hand \cup {h}, k) = Cardinality(A)
  BY <1>2, <1>3 DEF InHand
<1> HIDE DEF A
<1> QED
  BY <1>4, <1>5, <1>6

LEMMA HandLess ==
    ASSUME Types, NEW h \in hand, NEW k
    PROVE  /\ InHand(hand, k) \in Nat
           /\ InHand(hand \ {h}, k) = InHand(hand, k) - (IF h.msg.chunk = k THEN 1 ELSE 0)
<1> DEFINE A == {x \in hand : x.msg.chunk = k}
<1>1. IsFiniteSet(A) /\ (h.msg.chunk = k => h \in A)
  BY FS_Subset DEF Types
<1>2. h.msg.chunk = k => {x \in hand \ {h} : x.msg.chunk = k} = A \ {h}
  OBVIOUS
<1>3. h.msg.chunk # k => {x \in hand \ {h} : x.msg.chunk = k} = A
  OBVIOUS
<1> HIDE DEF A
<1>4. h.msg.chunk = k => Cardinality(A \ {h}) = Cardinality(A) - 1
  BY <1>1, OneLess
<1>5. Cardinality(A) \in Nat
  BY <1>1, FS_CardinalityType
<1>6. InHand(hand, k) = Cardinality(A)
  BY DEF A, InHand
<1>7. /\ h.msg.chunk = k => InHand(hand \ {h}, k) = Cardinality(A \ {h})
      /\ h.msg.chunk # k => InHand(hand \ {h}, k) = Cardinality(A)
  BY <1>2, <1>3 DEF InHand
<1> QED
  BY <1>4, <1>5, <1>6, <1>7

LEMMA SendsHolders ==
    ASSUME Types, PipesKnown, NEW n, NEW m \in Msgs, NEW r \in [Chunks -> Int], NEW hdr,
           NEW C \in SUBSET (ready \cap OfNode(n)), Sends(n, m, r, hdr, C), NEW k \in Chunks
    PROVE  /\ At(Pipes, sending, k) \in Nat /\ Cardinality(C) \in Nat
           /\ At(Pipes, sending', k) = At(Pipes, sending, k)
                                       + (IF m.chunk = k THEN Cardinality(C) ELSE 0)
           /\ refs'[k] = r[k] + (IF m.chunk = k THEN Cardinality(C) - 1 ELSE 0)
<1>1. Given(Pipes, C, sending, sending', m)
  BY DEF Sends, Given
<1>2. C \in SUBSET Pipes /\ NoneIn(C, sending)
  BY DEF PipesKnown, OfNode, NoneIn
<1>3. /\ At(Pipes, sending, k) \in Nat /\ Cardinality(C) \in Nat
      /\ At(Pipes, sending', k) = At(Pipes, sending, k)
                                  + (IF m.chunk = k THEN Cardinality(C) ELSE 0)
  BY <1>1, <1>2, Basics, PutIn
<1>4. refs' = [r EXCEPT ![m.chunk] = @ + Cardinality(C) - 1] /\ m.chunk \in Chunks
  BY Basics, MessageFacts DEF Sends
<1>5. refs'[k] = r[k] + (IF m.chunk = k THEN Cardinality(C) - 1 ELSE 0)
  <2> DEFINE c == Cardinality(C)
  <2>1. c \in Nat /\ refs' = [r EXCEPT ![m.chunk] = @ + c - 1]
    BY <1>3, <1>4
  <2> HIDE DEF c
  <2>2. refs'[k] = r[k] + (IF m.chunk = k THEN c - 1 ELSE 0)
    BY <1>4, <2>1
  <2> QED
    BY <2>2 DEF c
<1> QED
  BY <1>3, <1>5

LEMMA ReceivesHolders ==
    ASSUME Types, NEW n, NEW p \in Pipes, NEW skipped \in SUBSET (Full(n) \ {p}),
           Receives(n, p, skipped), NEW k \in Chunks
    PROVE  /\ At(Pipes, inbox, k) \in Nat /\ At(skipped, inbox, k) \in Nat
           /\ At(Pipes, inbox', k) = At(Pipes, inbox, k) - At(skipped, inbox, k)
                                     - (IF inbox[p].chunk = k THEN 1 ELSE 0)
           /\ refs'[k] = refs[k] - At(skipped, inbox, k)
<1>1. skipped \subseteq Pipes /\ p \notin skipped
  BY DEF Full, OfNode
<1>2. IsFiniteSet(skipped) /\ net \in Nets /\ IsFiniteSet(Pipes)
  BY <1>1, Basics, FS_Subset
<1>3. Given(Pipes, skipped \cup {p}, inbox, inbox', Nil)
  BY DEF Receives, Given
<1>4. /\ At(Pipes, inbox', k) = At(Pipes, inbox, k) - At(skipped \cup {p}, inbox, k)
      /\ At(Pipes, inbox, k) \in Nat
  <2>1. skipped \cup {p} \in SUBSET Pipes
    BY <1>1
  <2> QED
    BY <1>2, <1>3, <2>1, TakenOut
<1>5. At(skipped \cup {p}, inbox, k) = At(skipped, inbox, k) + At({p}, inbox, k)
  BY <1>1, <1>2, AtOneMore
<1>6. At({p}, inbox, k) = IF inbox[p].chunk = k THEN 1 ELSE 0
  BY One
<1>7. At(skipped, inbox, k) \in Nat
  BY <1>2, AtType
<1>8. refs'[k] = refs[k] - At(skipped, inbox, k)
  BY <1>1, <1>2, TerminatedType DEF Types, Receives
<1> QED
  BY <1>4, <1>5, <1>6, <1>7, <1>8

LEMMA HeldMsgsAfter ==
    ASSUME Types, NEW d \in net.devices, NEW m, NEW h,
           held' = [held EXCEPT ![d] = [msg |-> m, hdr |-> h]]
    PROVE  GivenTo(net.devices, d, HeldMsgs(held), HeldMsgs(held'), m)
<1>1. \A x \in net.devices : held'[x] = IF x = d THEN [msg |-> m, hdr |-> h] ELSE held[x]
  BY DEF Types
<1>2. \A x \in net.devices : held'[x].msg = IF x = d THEN m ELSE held[x].msg
  BY <1>1
<1>3. \A x \in net.devices : /\ HeldMsgs(held)[x] = held[x].msg
                             /\ HeldMsgs(held')[x] = held'[x].msg
  BY DEF HeldMsgs
<1> QED
  BY <1>2, <1>3 DEF GivenTo

LEMMA RmPipeHolders ==
    ASSUME Types, RefsAreHolders, NEW p \in Pipes, RmPipe(p)
    PROVE  RefsAreHolders'
<1>1. /\ UNCHANGED <<net, hand, held>>
      /\ sending' = [sending EXCEPT ![p] = Nil] /\ inbox' = [inbox EXCEPT ![p] = Nil]
      /\ refs' = Terminated(Terminated(refs, sending, {p}), inbox, {p})
  BY DEF RmPipe
<1>2. Given(Pipes, {p}, sending, sending', Nil) /\ Given(Pipes, {p}, inbox, inbox', Nil)
  BY <1>1 DEF Given, Types
<1>3. ASSUME NEW k \in Chunks
      PROVE  refs'[k] = At(Pipes, sending', k) + At(Pipes, inbox', k)
                        + At(net.devices, HeldMsgs(held'), k) + InHand(hand', k)
  <2>1. /\ At(Pipes, sending', k) = At(Pipes, sending, k) - At({p}, sending, k)
        /\ At(Pipes, inbox', k) = At(Pipes, inbox, k) - At({p}, inbox, k)
        /\ At(Pipes, sending, k) \in Nat /\ At({p}, sending, k) \in Nat
        /\ At(Pipes, inbox, k) \in Nat /\ At({p}, inbox, k) \in Nat
    BY <1>2, Basics, TakenOut
  <2>2. refs'[k] = refs[k] - At({p}, sending, k) - At({p}, inbox, k)
    <3> DEFINE r == Terminated(refs, sending, {p})
    <3>1. r \in [Chunks -> Int] /\ r[k] = refs[k] - At({p}, sending, k)
      BY Basics, TerminatedType DEF Types
    <3> HIDE DEF r
    <3>2. Terminated(r, inbox, {p})[k] = r[k] - At({p}, inbox, k)
      BY <3>1, Basics, TerminatedType
    <3>3. refs'[k] = r[k] - At({p}, inbox, k)
      BY <1>1, <3>2 DEF r
    <3> QED
      BY <3>1, <3>3
  <2>3. refs[k] = At(Pipes, sending, k) + At(Pipes, inbox, k)
                  + At(net.devices, HeldMsgs(held), k) + InHand(hand, k)
    BY HoldersSum
  <2>4. At(net.devices, HeldMsgs(held), k) \in Nat /\ InHand(hand, k) \in Nat
    BY Basics, AtType, InHandType
  <2>5. HeldMsgs(held') = HeldMsgs(held) /\ hand' = hand
    BY <1>1
  <2> QED
    BY <2>1, <2>2, <2>3, <2>4, <2>5
<1> QED
  BY <1>1, <1>3, HoldersAfter

LEMMA PassHolders ==
    ASSUME Types, RefsAreHolders, NEW p \in Pipes, Pass(p)
    PROVE  RefsAreHolders'
<1> DEFINE copy == [sending[p] EXCEPT !.chunk = <<sending[p].id, Other(p)>>]
<1>1. /\ UNCHANGED <<net, hand, held>> /\ sending[p] # Nil
      /\ sending' = [sending EXCEPT ![p] = Nil]
      /\ \/ /\ inbox[Other(p)] = Nil /\ inbox' = [inbox EXCEPT ![Other(p)] = copy]
            /\ refs' = [Terminated(refs, sending, {p}) EXCEPT ![copy.chunk] = @ + 1]
         \/ inbox' = inbox /\ refs' = Terminated(refs, sending, {p})
  BY DEF Pass
<1>2. Given(Pipes, {p}, sending, sending', Nil)
  BY <1>1 DEF Given, Types
<1>3. Other(p) \in Pipes /\ copy.chunk \in Chunks
  <2>1. Other(p) \in Pipes /\ sending[p] \in Msgs
    BY <1>1, Basics, OtherFacts
  <2> QED
    BY <2>1, Basics, CopyFacts, MessageFacts
<1> HIDE DEF copy
<1>4. ASSUME NEW k \in Chunks
      PROVE  refs'[k] = At(Pipes, sending', k) + At(Pipes, inbox', k)
                        + At(net.devices, HeldMsgs(held'), k) + InHand(hand', k)
  <2>1. /\ At(Pipes, sending', k) = At(Pipes, sending, k) - At({p}, sending, k)
        /\ At(Pipes, sending, k) \in Nat /\ At({p}, sending, k) \in Nat
    BY <1>2, Basics, TakenOut
  <2>2. /\ Terminated(refs, sending, {p}) \in [Chunks -> Int]
        /\ Terminated(refs, sending, {p})[k] = refs[k] - At({p}, sending, k)
    BY Basics, TerminatedType DEF Types
  <2>3. refs[k] = At(Pipes, sending, k) + At(Pipes, inbox, k)
                  + At(net.devices, HeldMsgs(held), k) + InHand(hand, k)
    BY HoldersSum
  <2>4. /\ At(net.devices, HeldMsgs(held), k) \in Nat /\ InHand(hand, k) \in Nat
        /\ At(Pipes, inbox, k) \in Nat
    BY Basics, AtType, InHandType
  <2>5. HeldMsgs(held') = HeldMsgs(held) /\ hand' = hand
    BY <1>1
  <2>6. CASE /\ inbox[Other(p)] = Nil /\ inbox' = [inbox EXCEPT ![Other(p)] = copy]
             /\ refs' = [Terminated(refs, sending, {p}) EXCEPT ![copy.chunk] = @ + 1]
    <3>1. GivenTo(Pipes, Other(p), inbox, inbox', copy)
      BY <1>3, <2>6 DEF GivenTo, Types
    <3>2. At(Pipes, inbox', k) = At(Pipes, inbox, k) + (IF copy.chunk = k THEN 1 ELSE 0)
      BY <1>3, <2>6, <3>1, Basics, PutInOne
    <3> DEFINE r == Terminated(refs, sending, {p})
    <3>3. r \in [Chunks -> Int] /\ refs' = [r EXCEPT ![copy.chunk] = @ + 1]
      BY <2>2, <2>6
    <3> HIDE DEF r
    <3>4. refs'[k] = r[k] + (IF copy.chunk = k THEN 1 ELSE 0)
      BY <1>3, <3>3
    <3>5. refs'[k] = refs[k] - At({p}, sending, k) + (IF copy.chunk = k THEN 1 ELSE 0)
      BY <2>2, <3>4 DEF r
    <3> QED
      BY <2>1, <2>3, <2>4, <2>5, <3>2, <3>5
  <2>7. CASE inbox' = inbox /\ refs' = Terminated(refs, sending, {p})
    BY <2>1, <2>2, <2>3, <2>4, <2>5, <2>7
  <2> QED
    BY <1>1, <2>6, <2>7
<1> QED
  BY <1>1, <1>4, HoldersAfter

(* No message is in the chunk that the next one will be in. *)
LEMMA FreshChunk ==
    ASSUME Types, NEW k, k[1] = sent + 1
    PROVE  /\ At(Pipes, sending, k) = 0 /\ At(Pipes, inbox, k) = 0
           /\ At(net.devices, HeldMsgs(held), k) = 0 /\ InHand(hand, k) = 0
<1>1. ASSUME NEW m \in Known(sent) PROVE m.chunk # k
  <2>1. m.chunk[1] = m.id /\ m.id <= sent /\ m.id \in Nat /\ sent \in Nat
    BY Basics, KnownFacts, MessageFacts
  <2> QED
    BY <2>1
<1>2. \A p \in Pipes : sending[p].chunk # k /\ inbox[p].chunk # k
  BY <1>1 DEF Types
<1>3. \A d \in net.devices : HeldMsgs(held)[d].chunk # k
  <2>1. \A d \in net.devices : HeldMsgs(held)[d] \in Known(sent)
    BY DEF Types, HeldMsgs
  <2> QED
    BY <1>1, <2>1
<1>4. InHand(hand, k) = 0
  <2>1. {h \in hand : h.msg.chunk = k} = {}
    BY <1>1 DEF Types
  <2> QED
    BY <2>1, FS_EmptySet DEF InHand
<1> QED
  BY <1>2, <1>3, <1>4, AtNone

LEMMA SendHolders ==
    ASSUME Types, PipesKnown, RefsAreHolders, NEW n \in Nodes, NEW topic \in net.topics,
           Send(n, topic)
    PROVE  RefsAreHolders'
<1>1. UNCHANGED <<net, inbox, hand, held>>
  BY SendFacts
<1>2. PICK m \in Msgs :
        /\ m.id = sent + 1 /\ m.chunk = <<sent + 1, NoPipe>>
        /\ [refs EXCEPT ![m.chunk] = 1] \in [Chunks -> Int]
        /\ \E C \in SUBSET (ready \cap OfNode(n)) :
              Sends(n, m, [refs EXCEPT ![m.chunk] = 1], 0, C)
  BY SendFacts
<1> DEFINE r == [refs EXCEPT ![m.chunk] = 1]
<1>3. PICK C \in SUBSET (ready \cap OfNode(n)) : Sends(n, m, r, 0, C)
  BY <1>2
<1>4. r \in [Chunks -> Int] /\ \A k \in Chunks : r[k] = IF k = m.chunk THEN 1 ELSE refs[k]
  BY <1>2, Basics, MessageFacts DEF Types
<1> HIDE DEF r
<1>5. ASSUME NEW k \in Chunks
      PROVE  refs'[k] = At(Pipes, sending', k) + At(Pipes, inbox', k)
                        + At(net.devices, HeldMsgs(held'), k) + InHand(hand', k)
  <2>1. /\ At(Pipes, sending, k) \in Nat /\ Cardinality(C) \in Nat
        /\ At(Pipes, sending', k) = At(Pipes, sending, k)
                                    + (IF m.chunk = k THEN Cardinality(C) ELSE 0)
        /\ refs'[k] = r[k] + (IF m.chunk = k THEN Cardinality(C) - 1 ELSE 0)
    BY <1>3, <1>4, SendsHolders
  <2>2. refs[k] = At(Pipes, sending, k) + At(Pipes, inbox, k)
                  + At(net.devices, HeldMsgs(held), k) + InHand(hand, k)
    BY HoldersSum
  <2>3. /\ At(net.devices, HeldMsgs(held), k) \in Nat /\ InHand(hand, k) \in Nat
        /\ At(Pipes, inbox, k) \in Nat
    BY Basics, AtType, InHandType
  <2>4. HeldMsgs(held') = HeldMsgs(held) /\ hand' = hand /\ inbox' = inbox
    BY <1>1
  <2>5. CASE m.chunk = k
    <3>1. k[1] = sent + 1
      BY <1>2, <2>5
    <3>2. /\ At(Pipes, sending, k) = 0 /\ At(Pipes, inbox, k) = 0
          /\ At(net.devices, HeldMsgs(held), k) = 0 /\ InHand(hand, k) = 0
      BY <3>1, FreshChunk
    <3>3. r[k] = 1
      BY <1>4, <2>5
    <3> QED
      BY <2>1, <2>4, <2>5, <3>2, <3>3
  <2>6. CASE m.chunk # k
    <3>1. r[k] = refs[k]
      BY <1>4, <2>6
    <3> QED
      BY <2>1, <2>2, <2>3, <2>4, <2>6, <3>1
  <2> QED
    BY <2>5, <2>6
<1> QED
  BY <1>1, <1>5, HoldersAfter

LEMMA RecvHolders ==
    ASSUME Types, RefsAreHolders, NEW n \in Nodes, NEW p, Recv(n, p)
    PROVE  RefsAreHolders'
<1> DEFINE h == [node |-> n, msg |-> inbox[p], nth |-> handed[inbox[p].id]]
<1>1. UNCHANGED <<net, sending, held>> /\ p \in Pipes /\ hand' = hand \cup {h} /\ h \notin hand
  BY RecvFacts
<1>2. PICK skipped \in SUBSET (Full(n) \ {p}) : Receives(n, p, skipped)
  BY RecvFacts
<1>3. h.msg = inbox[p]
  OBVIOUS
<1> HIDE DEF h
<1>4. ASSUME NEW k \in Chunks
      PROVE  refs'[k] = At(Pipes, sending', k) + At(Pipes, inbox', k)
                        + At(net.devices, HeldMsgs(held'), k) + InHand(hand', k)
  <2>1. /\ At(Pipes, inbox, k) \in Nat /\ At(skipped, inbox, k) \in Nat
        /\ At(Pipes, inbox', k) = At(Pipes, inbox, k) - At(skipped, inbox, k)
                                  - (IF inbox[p].chunk = k THEN 1 ELSE 0)
        /\ refs'[k] = refs[k] - At(skipped, inbox, k)
    BY <1>1, <1>2, ReceivesHolders
  <2>2. refs[k] = At(Pipes, sending, k) + At(Pipes, inbox, k)
                  + At(net.devices, HeldMsgs(held), k) + InHand(hand, k)
    BY HoldersSum
  <2>3. At(net.devices, HeldMsgs(held), k) \in Nat /\ At(Pipes, sending, k) \in Nat
    BY Basics, AtType
  <2>4. /\ InHand(hand, k) \in Nat
        /\ InHand(hand', k) = InHand(hand, k) + (IF inbox[p].chunk = k THEN 1 ELSE 0)
    BY <1>1, <1>3, HandMore
  <2>5. HeldMsgs(held') = HeldMsgs(held) /\ sending' = sending
    BY <1>1
  <2> QED
    BY <2>1, <2>2, <2>3, <2>4, <2>5
<1> QED
  BY <1>1, <1>4, HoldersAfter

LEMMA RecvAgainHolders ==
    ASSUME Types, RefsAreHolders, NEW n \in Nodes, RecvAgain(n)
    PROVE  RefsAreHolders'
<1> DEFINE E == Full(n)
<1>1. /\ UNCHANGED <<net, sending, held, hand>> /\ E \in SUBSET Pipes
      /\ Given(Pipes, E, inbox, inbox', Nil) /\ refs' = Terminated(refs, inbox, E)
  BY DEF RecvAgain, Emptied, Given, Full, OfNode
<1> HIDE DEF E
<1>2. ASSUME NEW k \in Chunks
      PROVE  refs'[k] = At(Pipes, sending', k) + At(Pipes, inbox', k)
                        + At(net.devices, HeldMsgs(held'), k) + InHand(hand', k)
  <2>1. /\ At(Pipes, inbox, k) \in Nat /\ At(E, inbox, k) \in Nat
        /\ At(Pipes, inbox', k) = At(Pipes, inbox, k) - At(E, inbox, k)
    BY <1>1, Basics, TakenOut
  <2>2. refs'[k] = refs[k] - At(E, inbox, k)
    BY <1>1, Basics, TerminatedType DEF Types
  <2>3. refs[k] = At(Pipes, sending, k) + At(Pipes, inbox, k)
                  + At(net.devices, HeldMsgs(held), k) + InHand(hand, k)
    BY HoldersSum
  <2>4. /\ At(net.devices, HeldMsgs(held), k) \in Nat /\ At(Pipes, sending, k) \in Nat
        /\ InHand(hand, k) \in Nat
    BY Basics, AtType, InHandType
  <2>5. HeldMsgs(held') = HeldMsgs(held) /\ sending' = sending /\ hand' = hand
    BY <1>1
  <2> QED
    BY <2>1, <2>2, <2>3, <2>4, <2>5
<1> QED
  BY <1>1, <1>2, HoldersAfter

LEMMA FreeMsgHolders ==
    ASSUME Types, RefsAreHolders, NEW h \in hand, FreeMsg(h)
    PROVE  RefsAreHolders'
<1>1. /\ UNCHANGED <<net, sending, inbox, held>>
      /\ refs' = [refs EXCEPT ![h.msg.chunk] = @ - 1] /\ hand' = hand \ {h}
  BY DEF FreeMsg, netVars
<1>2. h.msg.chunk \in Chunks /\ refs \in [Chunks -> Int]
  BY Basics, MessageFacts DEF Types
<1>3. ASSUME NEW k \in Chunks
      PROVE  refs'[k] = At(Pipes, sending', k) + At(Pipes, inbox', k)
                        + At(net.devices, HeldMsgs(held'), k) + InHand(hand', k)
  <2>1. refs'[k] = refs[k] - (IF h.msg.chunk = k THEN 1 ELSE 0)
    BY <1>1, <1>2
  <2>2. refs[k] = At(Pipes, sending, k) + At(Pipes, inbox, k)
                  + At(net.devices, HeldMsgs(held), k) + InHand(hand, k)
    BY HoldersSum
  <2>3. /\ At(net.devices, HeldMsgs(held), k) \in Nat /\ At(Pipes, sending, k) \in Nat
        /\ At(Pipes, inbox, k) \in Nat
    BY Basics, AtType
  <2>4. /\ InHand(hand, k) \in Nat
        /\ InHand(hand', k) = InHand(hand, k) - (IF h.msg.chunk = k THEN 1 ELSE 0)
    BY <1>1, HandLess
  <2>5. HeldMsgs(held') = HeldMsgs(held) /\ sending' = sending /\ inbox' = inbox
    BY <1>1
  <2> QED
    BY <2>1, <2>2, <2>3, <2>4, <2>5
<1> QED
  BY <1>1, <1>3, HoldersAfter

LEMMA DeviceRecvHolders ==
    ASSUME Types, RefsAreHolders, NEW d \in net.devices, NEW p, DeviceRecv(d, p)
    PROVE  RefsAreHolders'
<1>1. UNCHANGED <<net, sending, hand>> /\ p \in Pipes /\ held[d].msg = Nil
  BY DeviceRecvFacts
<1>2. PICK skipped \in SUBSET (Full(d[1]) \ {p}) : Receives(d[1], p, skipped)
  BY DeviceRecvFacts
<1>3. GivenTo(net.devices, d, HeldMsgs(held), HeldMsgs(held'), inbox[p])
  BY DeviceRecvFacts, HeldMsgsAfter
<1>4. HeldMsgs(held)[d] = Nil
  BY <1>1 DEF HeldMsgs
<1>5. ASSUME NEW k \in Chunks
      PROVE  refs'[k] = At(Pipes, sending', k) + At(Pipes, inbox', k)
                        + At(net.devices, HeldMsgs(held'), k) + InHand(hand', k)
  <2>1. /\ At(Pipes, inbox, k) \in Nat /\ At(skipped, inbox, k) \in Nat
        /\ At(Pipes, inbox', k) = At(Pipes, inbox, k) - At(skipped, inbox, k)
                                  - (IF inbox[p].chunk = k THEN 1 ELSE 0)
        /\ refs'[k] = refs[k] - At(skipped, inbox, k)
    BY <1>1, <1>2, ReceivesHolders
  <2>2. refs[k] = At(Pipes, sending, k) + At(Pipes, inbox, k)
                  + At(net.devices, HeldMsgs(held), k) + InHand(hand, k)
    BY HoldersSum
  <2>3. /\ At(net.devices, HeldMsgs(held), k) \in Nat
        /\ At(net.devices, HeldMsgs(held'), k) =
              At(net.devices, HeldMsgs(held), k) + (IF inbox[p].chunk = k THEN 1 ELSE 0)
    BY <1>3, <1>4, Basics, PutInOne
  <2>4. InHand(hand, k) \in Nat /\ At(Pipes, sending, k) \in Nat
    BY Basics, AtType, InHandType
  <2>5. hand' = hand /\ sending' = sending
    BY <1>1
  <2> QED
    BY <2>1, <2>2, <2>3, <2>4, <2>5
<1> QED
  BY <1>1, <1>5, HoldersAfter

LEMMA DeviceSendHolders ==
    ASSUME Types, PipesKnown, RefsAreHolders, NEW d \in net.devices, DeviceSend(d)
    PROVE  RefsAreHolders'
<1> DEFINE m == held[d].msg
<1>1. UNCHANGED <<net, inbox, hand>> /\ m \in Msgs /\ refs \in [Chunks -> Int]
  BY DeviceSendFacts DEF Types
<1>2. PICK C \in SUBSET (ready \cap OfNode(d[2])) : Sends(d[2], m, refs, held[d].hdr, C)
  BY DeviceSendFacts
<1>3. GivenTo(net.devices, d, HeldMsgs(held), HeldMsgs(held'), Nil)
  BY DeviceSendFacts, HeldMsgsAfter
<1>4. HeldMsgs(held)[d] = m
  BY DEF HeldMsgs
<1> HIDE DEF m
<1>5. ASSUME NEW k \in Chunks
      PROVE  refs'[k] = At(Pipes, sending', k) + At(Pipes, inbox', k)
                        + At(net.devices, HeldMsgs(held'), k) + InHand(hand', k)
  <2>1. /\ At(Pipes, sending, k) \in Nat /\ Cardinality(C) \in Nat
        /\ At(Pipes, sending', k) = At(Pipes, sending, k)
                                    + (IF m.chunk = k THEN Cardinality(C) ELSE 0)
        /\ refs'[k] = refs[k] + (IF m.chunk = k THEN Cardinality(C) - 1 ELSE 0)
    BY <1>1, <1>2, SendsHolders
  <2>2. refs[k] = At(Pipes, sending, k) + At(Pipes, inbox, k)
                  + At(net.devices, HeldMsgs(held), k) + InHand(hand, k)
    BY HoldersSum
  <2>3. /\ At(net.devices, HeldMsgs(held), k) \in Nat
        /\ At(net.devices, HeldMsgs(held'), k) =
              At(net.devices, HeldMsgs(held), k) - (IF m.chunk = k THEN 1 ELSE 0)
    BY <1>3, <1>4, Basics, TakenOutOne
  <2>4. InHand(hand, k) \in Nat /\ At(Pipes, inbox, k) \in Nat
    BY Basics, AtType, InHandType
  <2>5. hand' = hand /\ inbox' = inbox
    BY <1>1
  <2> QED
    BY <2>1, <2>2, <2>3, <2>4, <2>5
<1> QED
  BY <1>1, <1>5, HoldersAfter

LEMMA RefsStep ==
    ASSUME Types, PipesKnown, RefsAreHolders, [Next]_vars
    PROVE  RefsAreHolders'
<1>1. CASE \/ \E p \in Pipes : AddPipe(p)
           \/ \E c \in Conns : Break(c)
           \/ \E n \in Nodes, t \in net.strings : Subscribe(n, t) \/ Unsubscribe(n, t)
           \/ UNCHANGED vars
  <2>1. UNCHANGED <<net, sending, inbox, held, hand, refs>>
    BY <1>1 DEF AddPipe, Break, Subscribe, Unsubscribe, vars, netVars
  <2>2. \A k \in Chunks : refs'[k] = At(Pipes, sending', k) + At(Pipes, inbox', k)
                          + At(net.devices, HeldMsgs(held'), k) + InHand(hand', k)
    BY <2>1, HoldersSum
  <2> QED
    BY <2>1, <2>2, HoldersAfter
<1> QED
  BY <1>1, RmPipeHolders, PassHolders, SendHolders, RecvHolders, RecvAgainHolders, FreeMsgHolders,
     DeviceRecvHolders, DeviceSendHolders DEF Next

(* The references of every chunk are its holders (nn_chunk.refcount and    *)
(* nn_msg_bulkcopy_*, nn_msg_term): over every network, whatever is lost   *)
(* and whoever is slow to free, no chunk is freed while it is held and     *)
(* none is kept when it is not.                                            *)
THEOREM ChunksAreCounted == Spec => []RefsAreHolders
<1>1. Init => RefsAreHolders
  <2> SUFFICES ASSUME Init PROVE RefsAreHolders
    OBVIOUS
  <2>1. Nil.chunk \notin Chunks
    BY MessageFacts DEF Init
  <2>2. ASSUME NEW k \in Chunks PROVE refs[k] = Holders(k)
    <3>1. /\ {p \in Pipes : sending[p].chunk = k} = {} /\ {p \in Pipes : inbox[p].chunk = k} = {}
          /\ {d \in net.devices : held[d].msg.chunk = k} = {}
          /\ {h \in hand : h.msg.chunk = k} = {}
      BY <2>1 DEF Init
    <3>2. Holders(k) = 0
      <4>1. /\ Cardinality({p \in Pipes : sending[p].chunk = k}) = 0
            /\ Cardinality({p \in Pipes : inbox[p].chunk = k}) = 0
            /\ Cardinality({d \in net.devices : held[d].msg.chunk = k}) = 0
            /\ Cardinality({h \in hand : h.msg.chunk = k}) = 0
        BY <3>1, FS_EmptySet
      <4> QED
        BY <4>1 DEF Holders
    <3>3. refs[k] = 0
      BY DEF Init
    <3> QED
      BY <3>2, <3>3
  <2> QED
    BY <2>2 DEF RefsAreHolders
<1>2. Types /\ PipesKnown /\ RefsAreHolders /\ [Next]_vars => RefsAreHolders'
  BY RefsStep
<1> QED
  BY <1>1, <1>2, FanoutTypes, SocketsKnowTheirPipes, PTL DEF Spec

-----------------------------------------------------------------------------
(* No assertion fails. *)

LEMMA AtSome ==
    ASSUME NEW D, IsFiniteSet(D), NEW f, NEW p \in D
    PROVE  At(D, f, f[p].chunk) >= 1
<1> DEFINE A == {x \in D : f[x].chunk = f[p].chunk}
<1>1. A # {} /\ IsFiniteSet(A)
  BY FS_Subset
<1>2. At(D, f, f[p].chunk) = Cardinality(A)
  BY DEF At
<1> HIDE DEF A
<1> QED
  BY <1>1, <1>2, NoneOrSome

(* Whoever holds a message holds a reference. *)
LEMMA NotFreed ==
    ASSUME Types, RefsAreHolders
    PROVE  /\ \A p \in Pipes : ~Freed(sending[p]) /\ ~Freed(inbox[p])
           /\ \A h \in hand : ~Freed(h.msg)
<1>1. ASSUME NEW k \in Chunks
      PROVE  /\ refs[k] = At(Pipes, sending, k) + At(Pipes, inbox, k)
                          + At(net.devices, HeldMsgs(held), k) + InHand(hand, k)
             /\ At(Pipes, sending, k) \in Nat /\ At(Pipes, inbox, k) \in Nat
             /\ At(net.devices, HeldMsgs(held), k) \in Nat /\ InHand(hand, k) \in Nat
  BY HoldersSum, Basics, AtType, InHandType
<1>2. ASSUME NEW p \in Pipes, sending[p] # Nil PROVE refs[sending[p].chunk] # 0
  <2>1. sending[p].chunk \in Chunks /\ At(Pipes, sending, sending[p].chunk) >= 1
    BY <1>2, Basics, MessageFacts, AtSome
  <2> QED
    BY <1>1, <2>1
<1>3. ASSUME NEW p \in Pipes, inbox[p] # Nil PROVE refs[inbox[p].chunk] # 0
  <2>1. inbox[p].chunk \in Chunks /\ At(Pipes, inbox, inbox[p].chunk) >= 1
    BY <1>3, Basics, MessageFacts, AtSome
  <2> QED
    BY <1>1, <2>1
<1>4. ASSUME NEW h \in hand PROVE refs[h.msg.chunk] # 0
  <2> DEFINE A == {x \in hand : x.msg.chunk = h.msg.chunk}
  <2>1. A # {} /\ IsFiniteSet(A)
    BY FS_Subset DEF Types
  <2>2. InHand(hand, h.msg.chunk) = Cardinality(A) /\ h.msg.chunk \in Chunks
    BY Basics, MessageFacts DEF InHand
  <2> HIDE DEF A
  <2>3. InHand(hand, h.msg.chunk) >= 1
    BY <2>1, <2>2, NoneOrSome
  <2> QED
    BY <1>1, <2>2, <2>3
<1> QED
  BY <1>2, <1>3, <1>4 DEF Freed

LEMMA PassAsserts ==
    ASSUME Types, PipesKnown, RefsAreHolders, NEW p \in Pipes, Pass(p), ~aborted
    PROVE  ~aborted'
<1>1. /\ p \in up /\ sending[p] # Nil
      /\ \/ /\ Other(p) \in up /\ inbox[Other(p)] = Nil
            /\ aborted' = (aborted \/ Freed(sending[p]) \/ InFails(Other(p)) \/ OutFails(p))
         \/ aborted' = (aborted \/ OutFails(p))
  BY DEF Pass
<1>2. ~Freed(sending[p])
  BY NotFreed
<1>3. ~OutFails(p)
  <2> SUFFICES ASSUME Is(p[1], {"PAIR"}) PROVE ~ExclOutFails(p)
    BY DEF OutFails
  <2>1. \A q \in OfNode(p[1]) : q \in up <=> pair[p[1]] = q
    BY Basics DEF PipesKnown
  <2>2. pair[p[1]] = p
    BY <1>1, <2>1, Basics
  <2>3. ASSUME NEW q \in ready \cap OfNode(p[1]) PROVE FALSE
    <3>1. q = p
      BY <2>1, <2>2 DEF Types
    <3> QED
      BY <1>1, <3>1 DEF PipesKnown
  <2> QED
    BY <2>2, <2>3 DEF ExclOutFails
<1>4. ASSUME Other(p) \in up, inbox[Other(p)] = Nil PROVE ~InFails(Other(p))
  <2>1. Other(p) \in Pipes /\ <<net.type[p[1]], net.type[Other(p)[1]]>> \in Peers
    BY Basics, OtherFacts
  <2>2. ~Is(p[1], {"SUB", "PULL"})
    BY <1>1 DEF PipesKnown
  <2>3. ~Is(Other(p)[1], {"PUB"})
    BY <2>1, <2>2 DEF Is, Peers
  <2>4. Is(Other(p)[1], {"PAIR"}) => pair[Other(p)[1]] = Other(p)
    BY <1>4, <2>1, Basics DEF PipesKnown
  <2> QED
    BY <1>4, <2>3, <2>4 DEF InFails, ExclInFails
<1> QED
  BY <1>1, <1>2, <1>3, <1>4

LEMMA AbortStep ==
    ASSUME Types, PipesKnown, RefsAreHolders, NoAbort, [Next]_vars
    PROVE  NoAbort'
<1>0. ~aborted
  BY DEF NoAbort
<1>1. ASSUME NEW p \in Pipes, AddPipe(p) PROVE ~aborted'
  <2>1. Refused(p) \/ Accepted(p)
    BY <1>1, PipeAdded
  <2>2. ASSUME Is(p[1], {"PAIR"}), pair[p[1]] = NoPipe PROVE ready \cap OfNode(p[1]) = {}
    <3>1. \A q \in OfNode(p[1]) : q \in up <=> pair[p[1]] = q
      BY <2>2, Basics DEF PipesKnown
    <3> QED
      BY <2>2, <3>1, Basics DEF Types
  <2> QED
    BY <1>0, <2>1, <2>2 DEF Refused, Accepted
<1>2. ASSUME NEW p \in Pipes, RmPipe(p) PROVE ~aborted'
  <2>1. p \in up /\ (ExclRm(p) \/ ListRm(p))
    BY <1>2 DEF RmPipe
  <2>2. Is(p[1], {"PAIR"}) => pair[p[1]] # NoPipe
    BY <2>1, Basics DEF PipesKnown
  <2> QED
    BY <1>0, <2>1, <2>2 DEF ExclRm, ListRm
<1>3. ASSUME NEW p \in Pipes, Pass(p) PROVE ~aborted'
  BY <1>0, <1>3, PassAsserts
<1>4. CASE \/ \E c \in Conns : Break(c)
           \/ \E n \in Nodes : RecvAgain(n)
           \/ \E n \in Nodes, t \in net.strings : Subscribe(n, t) \/ Unsubscribe(n, t)
           \/ UNCHANGED vars
  <2>1. UNCHANGED aborted
    BY <1>4 DEF Break, RecvAgain, Subscribe, Unsubscribe, vars
  <2> QED
    BY <2>1 DEF NoAbort
<1>5. ASSUME NEW n, NEW m, NEW r, NEW hdr, NEW C \in SUBSET (ready \cap OfNode(n)),
             Sends(n, m, r, hdr, C)
      PROVE  ~aborted'
  BY <1>0, <1>5 DEF Sends, PipesKnown
<1>6. ASSUME NEW n \in Nodes, NEW topic \in net.topics, Send(n, topic) PROVE ~aborted'
  <2>1. PICK m \in Msgs : \E C \in SUBSET (ready \cap OfNode(n)) :
            Sends(n, m, [refs EXCEPT ![m.chunk] = 1], 0, C)
    BY <1>6, SendFacts
  <2> QED
    BY <1>5, <2>1
<1>7. ASSUME NEW n \in Nodes, NEW p \in OfNode(n), Recv(n, p) PROVE ~aborted'
  BY <1>0, <1>7, RecvFacts, NotFreed
<1>8. ASSUME NEW h \in hand, FreeMsg(h) PROVE ~aborted'
  BY <1>0, <1>8, NotFreed DEF FreeMsg
<1>9. ASSUME NEW d \in net.devices, NEW p \in OfNode(d[1]), DeviceRecv(d, p) PROVE ~aborted'
  BY <1>0, <1>9, DeviceRecvFacts, NotFreed
<1>10. ASSUME NEW d \in net.devices, DeviceSend(d) PROVE ~aborted'
  BY <1>5, <1>10, DeviceSendFacts
<1> QED
  BY <1>1, <1>2, <1>3, <1>4, <1>6, <1>7, <1>8, <1>9, <1>10 DEF Next, NoAbort

(* No assertion of dist.c, excl.c, xpub.c or chunk.c fails in any network: *)
(* a PAIR is signalled by the pipe it knows and by no other, a PUB is sent *)
(* nothing, a pipe is given a message when it has none, and no message is  *)
(* used when its chunk is freed.                                           *)
THEOREM FanoutNeverAborts == Spec => []NoAbort
<1>1. Init => NoAbort
  BY DEF Init, NoAbort
<1>2. Types /\ PipesKnown /\ RefsAreHolders /\ NoAbort /\ [Next]_vars => NoAbort'
  BY AbortStep
<1> QED
  BY <1>1, <1>2, FanoutTypes, SocketsKnowTheirPipes, ChunksAreCounted, PTL DEF Spec

-----------------------------------------------------------------------------
(* Where a message is. *)

Places(h, s, b, g, i) ==
    h[i] + Nr(Pipes, s, i) + Nr(Pipes, b, i) + Nr(net.devices, HeldMsgs(g), i)

LEMMA NrType ==
    ASSUME NEW D, IsFiniteSet(D), NEW f, NEW i
    PROVE  Nr(D, f, i) \in Nat
<1>1. IsFiniteSet({x \in D : f[x].id = i})
  BY FS_Subset
<1> QED
  BY <1>1, FS_CardinalityType DEF Nr

LEMMA NrNone ==
    ASSUME NEW D, NEW f, NEW i, \A x \in D : f[x].id # i
    PROVE  Nr(D, f, i) = 0
<1>1. {x \in D : f[x].id = i} = {}
  OBVIOUS
<1> QED
  BY <1>1, FS_EmptySet DEF Nr

LEMMA PlacesType ==
    ASSUME Types, NEW i \in Ids
    PROVE  /\ handed[i] \in Nat /\ Nr(Pipes, sending, i) \in Nat /\ Nr(Pipes, inbox, i) \in Nat
           /\ Nr(net.devices, HeldMsgs(held), i) \in Nat
           /\ Places(handed, sending, inbox, held, i) \in Nat
<1>1. handed[i] \in Nat
  BY DEF Types
<1>2. /\ Nr(Pipes, sending, i) \in Nat /\ Nr(Pipes, inbox, i) \in Nat
      /\ Nr(net.devices, HeldMsgs(held), i) \in Nat
  BY Basics, NrType
<1> QED
  BY <1>1, <1>2 DEF Places

(* A network with a PUSH or PAIR that sends has no others. *)
LEMMA OnlyOnes ==
    ASSUME net \in Nets, \E n \in net.senders : Is(n, {"PUSH", "PAIR"}), NEW n \in Nodes
    PROVE  Is(n, {"PUSH", "PULL", "PAIR"})
<1>1. PICK family \in Families : \A x \in Nodes : net.type[x] \in family
  BY NetFacts DEF IsNet, Nodes
<1>2. net.senders \subseteq Nodes
  BY NetFacts DEF IsNet, Nodes
<1>3. family = {"PUSH", "PULL"} \/ family = {"PAIR"}
  BY <1>1, <1>2 DEF Families, Is
<1> QED
  BY <1>1, <1>3 DEF Is

LEMMA PlacesSum ==
    ASSUME NEW i
    PROVE  handed[i] + UnderWay(i) = handed[i] + (Nr(Pipes, sending, i) + Nr(Pipes, inbox, i)
                                                  + Nr(net.devices, HeldMsgs(held), i))
<1>1. {d \in net.devices : HeldMsgs(held)[d].id = i} = {d \in net.devices : held[d].msg.id = i}
  BY DEF HeldMsgs
<1>2. Nr(net.devices, HeldMsgs(held), i) = Cardinality({d \in net.devices : held[d].msg.id = i})
  BY <1>1 DEF Nr
<1> QED
  BY <1>2 DEF UnderWay, Nr

LEMMA PlacesKnown ==
    ASSUME Types, InOnePlace, \E n \in net.senders : Is(n, {"PUSH", "PAIR"})
    PROVE  /\ \A i \in 1 .. sent : /\ i \in Ids
                                   /\ Places(handed, sending, inbox, held, i) <= 1
                                   /\ broken = {} => Places(handed, sending, inbox, held, i) = 1
           /\ \A i \in Ids : i > sent => handed[i] = 0
<1>1. ASSUME NEW i \in 1 .. sent
      PROVE  i \in Ids /\ handed[i] + UnderWay(i) = Places(handed, sending, inbox, held, i)
  <2>1. i \in Ids
    BY Basics DEF Types, Ids
  <2> QED
    BY <2>1, PlacesType, PlacesSum DEF Places
<1> QED
  BY <1>1 DEF InOnePlace

LEMMA PlacesAfter ==
    ASSUME Types', net' = net, \A i \in Ids : i > sent' => handed'[i] = 0,
           \A i \in 1 .. sent' :
              /\ Places(handed', sending', inbox', held', i) <= 1
              /\ broken' = {} => Places(handed', sending', inbox', held', i) = 1
    PROVE  InOnePlace'
<1>1. Pipes' = Pipes /\ Ids' = Ids
  BY SameNet
<1>2. ASSUME NEW i \in 1 .. sent'
      PROVE  handed'[i] + UnderWay(i)' = Places(handed', sending', inbox', held', i)
  <2>1. {d \in net.devices : HeldMsgs(held')[d].id = i}
          = {d \in net.devices : held'[d].msg.id = i}
    BY DEF HeldMsgs
  <2>2. Nr(net.devices, HeldMsgs(held'), i)
          = Cardinality({d \in net.devices : held'[d].msg.id = i})
    BY <2>1 DEF Nr
  <2>3. UnderWay(i)' = Nr(Pipes, sending', i) + Nr(Pipes, inbox', i)
                       + Nr(net.devices, HeldMsgs(held'), i)
    BY <1>1, <2>2 DEF UnderWay, Nr
  <2>4. net \in Nets /\ net.msgs \in Nat /\ sent' \in 0 .. net.msgs
    BY NetFacts DEF Types, IsNet
  <2>5. i \in Ids /\ handed' \in [Ids -> Nat]
    BY <1>1, <2>4 DEF Ids, Types
  <2>6. /\ Nr(Pipes, sending', i) \in Nat /\ Nr(Pipes, inbox', i) \in Nat
        /\ Nr(net.devices, HeldMsgs(held'), i) \in Nat
    BY <2>4, NetFacts, NrType
  <2> QED
    BY <2>3, <2>5, <2>6 DEF Places
<1>3. /\ \A i \in 1 .. sent' : /\ handed'[i] + UnderWay(i)' <= 1
                               /\ broken' = {} => handed'[i] + UnderWay(i)' = 1
      /\ \A i \in Ids : i > sent' => handed'[i] = 0
  BY <1>2
<1> QED
  BY <1>1, <1>3 DEF InOnePlace

(* Messages only move, or are lost with a connection. *)
LEMMA Moved ==
    ASSUME Types, Types', InOnePlace, \E n \in net.senders : Is(n, {"PUSH", "PAIR"}),
           net' = net, sent' = sent, \A i \in Ids : i > sent => handed'[i] = handed[i],
           broken' = {} => broken = {},
           \A i \in Ids :
              /\ Places(handed', sending', inbox', held', i) \in Int
              /\ Places(handed', sending', inbox', held', i)
                   <= Places(handed, sending, inbox, held, i)
              /\ broken' = {} => Places(handed', sending', inbox', held', i)
                                   = Places(handed, sending, inbox, held, i)
    PROVE  InOnePlace'
<1>1. /\ \A i \in 1 .. sent : /\ i \in Ids
                              /\ Places(handed, sending, inbox, held, i) <= 1
                              /\ broken = {} => Places(handed, sending, inbox, held, i) = 1
      /\ \A i \in Ids : i > sent => handed[i] = 0
  BY PlacesKnown
<1>2. \A i \in Ids : Places(handed, sending, inbox, held, i) \in Nat
  BY PlacesType
<1>3. \A i \in 1 .. sent' : /\ Places(handed', sending', inbox', held', i) <= 1
                            /\ broken' = {} => Places(handed', sending', inbox', held', i) = 1
  BY <1>1, <1>2
<1>4. \A i \in Ids : i > sent' => handed'[i] = 0
  BY <1>1
<1> QED
  BY <1>3, <1>4, PlacesAfter

(* A PUSH or PAIR sends to one pipe, and no socket but a SUB skips. *)
LEMMA SendsToOne ==
    ASSUME Types, PipesKnown, NEW n \in Nodes, Is(n, {"PUSH", "PULL", "PAIR"}), NEW m, NEW r, NEW hdr,
           NEW C \in SUBSET (ready \cap OfNode(n)), Sends(n, m, r, hdr, C), NEW i \in Ids
    PROVE  /\ Nr(Pipes, sending, i) \in Nat
           /\ Nr(Pipes, sending', i) = Nr(Pipes, sending, i) + (IF m.id = i THEN 1 ELSE 0)
<1>1. Is(n, {"PUSH", "PAIR"})
  BY DEF Sends, Is
<1>2. PICK p \in Pipes : C = {p}
  BY <1>1 DEF Sends
<1>3. GivenTo(Pipes, p, sending, sending', m)
  BY <1>2 DEF Sends, GivenTo
<1>4. sending[p] = Nil
  BY <1>2 DEF PipesKnown
<1> QED
  BY <1>3, <1>4, Basics, PutInOneIds

LEMMA ReceivesOne ==
    ASSUME Types, NEW n \in Nodes, Is(n, {"PUSH", "PULL", "PAIR"}), NEW p \in Pipes, NEW skipped,
           Receives(n, p, skipped), NEW i \in Ids
    PROVE  /\ Nr(Pipes, inbox, i) \in Nat
           /\ Nr(Pipes, inbox', i) = Nr(Pipes, inbox, i) - (IF inbox[p].id = i THEN 1 ELSE 0)
<1>1. skipped = {}
  BY DEF Receives, Is
<1>2. GivenTo(Pipes, p, inbox, inbox', Nil)
  BY <1>1 DEF Receives, GivenTo
<1> QED
  BY <1>2, Basics, TakenOutOneIds

LEMMA RmPipePlaces ==
    ASSUME Types, Types', InOnePlace, \E n \in net.senders : Is(n, {"PUSH", "PAIR"}),
           NEW p \in Pipes, RmPipe(p)
    PROVE  InOnePlace'
<1>1. /\ UNCHANGED <<net, held, handed, sent, broken>> /\ broken # {}
      /\ sending' = [sending EXCEPT ![p] = Nil] /\ inbox' = [inbox EXCEPT ![p] = Nil]
  BY DEF RmPipe
<1>2. GivenTo(Pipes, p, sending, sending', Nil) /\ GivenTo(Pipes, p, inbox, inbox', Nil)
  BY <1>1 DEF GivenTo, Types
<1>3. ASSUME NEW i \in Ids
      PROVE  /\ Places(handed', sending', inbox', held', i) \in Int
             /\ Places(handed', sending', inbox', held', i)
                  <= Places(handed, sending, inbox, held, i)
  <2>1. /\ Nr(Pipes, sending', i) = Nr(Pipes, sending, i) - (IF sending[p].id = i THEN 1 ELSE 0)
        /\ Nr(Pipes, inbox', i) = Nr(Pipes, inbox, i) - (IF inbox[p].id = i THEN 1 ELSE 0)
    BY <1>2, Basics, TakenOutOneIds
  <2>2. handed' = handed /\ HeldMsgs(held') = HeldMsgs(held)
    BY <1>1
  <2> QED
    BY <2>1, <2>2, PlacesType DEF Places
<1> QED
  BY <1>1, <1>3, Moved

LEMMA PassPlaces ==
    ASSUME Types, Types', InOnePlace, \E n \in net.senders : Is(n, {"PUSH", "PAIR"}),
           NEW p \in Pipes, Pass(p)
    PROVE  InOnePlace'
<1> DEFINE copy == [sending[p] EXCEPT !.chunk = <<sending[p].id, Other(p)>>]
<1>1. /\ UNCHANGED <<net, held, handed, sent, broken>> /\ sending[p] # Nil
      /\ sending' = [sending EXCEPT ![p] = Nil]
      /\ \/ inbox[Other(p)] = Nil /\ inbox' = [inbox EXCEPT ![Other(p)] = copy]
         \/ inbox' = inbox /\ broken # {}
  BY DEF Pass
<1>2. GivenTo(Pipes, p, sending, sending', Nil)
  BY <1>1 DEF GivenTo, Types
<1>3. Other(p) \in Pipes /\ copy.id = sending[p].id
  <2>1. Other(p) \in Pipes /\ sending[p] \in Msgs
    BY <1>1, Basics, OtherFacts
  <2> QED
    BY <2>1, Basics, CopyFacts
<1> HIDE DEF copy
<1>4. ASSUME NEW i \in Ids
      PROVE  /\ Places(handed', sending', inbox', held', i) \in Int
             /\ Places(handed', sending', inbox', held', i)
                  <= Places(handed, sending, inbox, held, i)
             /\ broken' = {} => Places(handed', sending', inbox', held', i)
                                  = Places(handed, sending, inbox, held, i)
  <2>1. Nr(Pipes, sending', i) = Nr(Pipes, sending, i) - (IF sending[p].id = i THEN 1 ELSE 0)
    BY <1>2, Basics, TakenOutOneIds
  <2>2. handed' = handed /\ HeldMsgs(held') = HeldMsgs(held) /\ broken' = broken
    BY <1>1
  <2>3. CASE inbox[Other(p)] = Nil /\ inbox' = [inbox EXCEPT ![Other(p)] = copy]
    <3>1. GivenTo(Pipes, Other(p), inbox, inbox', copy)
      BY <1>3, <2>3 DEF GivenTo, Types
    <3>2. Nr(Pipes, inbox', i) = Nr(Pipes, inbox, i) + (IF copy.id = i THEN 1 ELSE 0)
      BY <1>3, <2>3, <3>1, Basics, PutInOneIds
    <3>3. Nr(Pipes, inbox', i) = Nr(Pipes, inbox, i) + (IF sending[p].id = i THEN 1 ELSE 0)
      BY <1>3, <3>2
    <3> QED
      BY <2>1, <2>2, <3>3, PlacesType DEF Places
  <2>4. CASE inbox' = inbox /\ broken # {}
    BY <2>1, <2>2, <2>4, PlacesType DEF Places
  <2> QED
    BY <1>1, <2>3, <2>4
<1> QED
  BY <1>1, <1>4, Moved

LEMMA SendPlaces ==
    ASSUME Types, Types', PipesKnown, InOnePlace,
           \E n \in net.senders : Is(n, {"PUSH", "PAIR"}),
           NEW n \in Nodes, NEW topic \in net.topics, Send(n, topic)
    PROVE  InOnePlace'
<1>1. /\ UNCHANGED <<net, inbox, held, handed, broken>> /\ sent' = sent + 1
      /\ sent + 1 \in Ids
  BY SendFacts
<1>2. PICK m \in Msgs : /\ m.id = sent + 1
                        /\ \E C \in SUBSET (ready \cap OfNode(n)) :
                              Sends(n, m, [refs EXCEPT ![m.chunk] = 1], 0, C)
  BY SendFacts
<1>3. PICK C \in SUBSET (ready \cap OfNode(n)) : Sends(n, m, [refs EXCEPT ![m.chunk] = 1], 0, C)
  BY <1>2
<1>4. Is(n, {"PUSH", "PULL", "PAIR"})
  BY Basics, OnlyOnes
<1>5. ASSUME NEW i \in Ids
      PROVE  Places(handed', sending', inbox', held', i)
               = Places(handed, sending, inbox, held, i) + (IF sent + 1 = i THEN 1 ELSE 0)
  <2>1. Nr(Pipes, sending', i) = Nr(Pipes, sending, i) + (IF m.id = i THEN 1 ELSE 0)
    BY <1>3, <1>4, SendsToOne
  <2>2. handed' = handed /\ HeldMsgs(held') = HeldMsgs(held) /\ inbox' = inbox
    BY <1>1
  <2> QED
    BY <1>2, <2>1, <2>2, PlacesType DEF Places
<1>6. Places(handed, sending, inbox, held, sent + 1) = 0
  <2>1. ASSUME NEW x \in Known(sent) PROVE x.id # sent + 1
    <3>1. x.id <= sent /\ x.id \in Nat /\ sent \in Nat
      BY Basics, KnownFacts, MessageFacts
    <3> QED
      BY <3>1
  <2>2. \A p \in Pipes : sending[p].id # sent + 1 /\ inbox[p].id # sent + 1
    BY <2>1 DEF Types
  <2>3. \A d \in net.devices : HeldMsgs(held)[d].id # sent + 1
    <3>1. \A d \in net.devices : HeldMsgs(held)[d] \in Known(sent)
      BY DEF Types, HeldMsgs
    <3> QED
      BY <2>1, <3>1
  <2>4. /\ Nr(Pipes, sending, sent + 1) = 0 /\ Nr(Pipes, inbox, sent + 1) = 0
        /\ Nr(net.devices, HeldMsgs(held), sent + 1) = 0
    BY <2>2, <2>3, NrNone
  <2>5. handed[sent + 1] = 0
    BY <1>1, Basics, PlacesKnown
  <2> QED
    BY <2>4, <2>5 DEF Places
<1>7. \A i \in 1 .. sent : /\ i \in Ids
                           /\ Places(handed, sending, inbox, held, i) <= 1
                           /\ broken = {} => Places(handed, sending, inbox, held, i) = 1
  BY PlacesKnown
<1>8. ASSUME NEW i \in 1 .. sent'
      PROVE  /\ Places(handed', sending', inbox', held', i) <= 1
             /\ broken' = {} => Places(handed', sending', inbox', held', i) = 1
  <2>1. CASE i = sent + 1
    BY <1>1, <1>5, <1>6, <2>1
  <2>2. CASE i # sent + 1
    <3>1. i \in 1 .. sent
      BY <1>1, <2>2, Basics
    <3>2. Places(handed', sending', inbox', held', i) = Places(handed, sending, inbox, held, i)
      BY <1>5, <1>7, <2>2, <3>1, PlacesType
    <3> QED
      BY <1>1, <1>7, <3>1, <3>2
  <2> QED
    BY <2>1, <2>2
<1>9. \A i \in Ids : i > sent' => handed'[i] = 0
  <2>1. \A i \in Ids : i > sent => handed[i] = 0
    BY PlacesKnown
  <2>2. \A i \in Ids : i > sent + 1 => i > sent
    BY Basics DEF Ids
  <2> QED
    BY <1>1, <2>1, <2>2
<1> QED
  BY <1>1, <1>8, <1>9, PlacesAfter

LEMMA RecvPlaces ==
    ASSUME Types, Types', InOnePlace, \E n \in net.senders : Is(n, {"PUSH", "PAIR"}),
           NEW n \in Nodes, NEW p, Recv(n, p)
    PROVE  InOnePlace'
<1>1. /\ UNCHANGED <<net, sending, held, sent, broken>> /\ p \in Pipes /\ inbox[p].id \in Ids
      /\ handed' = [handed EXCEPT ![inbox[p].id] = @ + 1]
  BY RecvFacts
<1>2. PICK skipped : Receives(n, p, skipped)
  BY RecvFacts
<1>3. Is(n, {"PUSH", "PULL", "PAIR"})
  BY Basics, OnlyOnes
<1>4. \A i \in Ids : handed'[i] = handed[i] + (IF inbox[p].id = i THEN 1 ELSE 0)
  BY <1>1 DEF Types
<1>5. ASSUME NEW i \in Ids
      PROVE  Places(handed', sending', inbox', held', i) = Places(handed, sending, inbox, held, i)
  <2>1. Nr(Pipes, inbox', i) = Nr(Pipes, inbox, i) - (IF inbox[p].id = i THEN 1 ELSE 0)
    BY <1>1, <1>2, <1>3, ReceivesOne
  <2>2. sending' = sending /\ HeldMsgs(held') = HeldMsgs(held)
    BY <1>1
  <2>3. handed'[i] = handed[i] + (IF inbox[p].id = i THEN 1 ELSE 0)
    BY <1>4
  <2>4. /\ handed[i] \in Nat /\ Nr(Pipes, sending, i) \in Nat /\ Nr(Pipes, inbox, i) \in Nat
        /\ Nr(net.devices, HeldMsgs(held), i) \in Nat
    BY PlacesType
  <2> QED
    BY <2>1, <2>2, <2>3, <2>4 DEF Places
<1>6. \A i \in Ids : i > sent => handed'[i] = handed[i]
  <2>1. inbox[p].id <= sent /\ inbox[p].id \in Nat /\ sent \in Nat
    <3>1. net \in Nets /\ sent \in Nat
      BY Basics
    <3>2. inbox[p] \in Known(sent)
      BY <1>1 DEF Types
    <3>3. inbox[p].id \in Nat
      BY <1>1 DEF Ids
    <3> QED
      BY <3>1, <3>2, <3>3, KnownFacts
  <2> QED
    BY <1>4, <2>1, PlacesType DEF Ids
<1>7. \A i \in Ids : /\ Places(handed', sending', inbox', held', i) \in Int
                     /\ Places(handed', sending', inbox', held', i)
                          <= Places(handed, sending, inbox, held, i)
  BY <1>5, PlacesType
<1> QED
  BY <1>1, <1>5, <1>6, <1>7, Moved

LEMMA DeviceRecvPlaces ==
    ASSUME Types, Types', InOnePlace, \E n \in net.senders : Is(n, {"PUSH", "PAIR"}),
           NEW d \in net.devices, NEW p, DeviceRecv(d, p)
    PROVE  InOnePlace'
<1>1. UNCHANGED <<net, sending, handed, sent, broken>> /\ p \in Pipes /\ held[d].msg = Nil
  BY DeviceRecvFacts
<1>2. PICK skipped : Receives(d[1], p, skipped)
  BY DeviceRecvFacts
<1>3. Is(d[1], {"PUSH", "PULL", "PAIR"}) /\ d[1] \in Nodes
  BY Basics, OnlyOnes
<1>4. GivenTo(net.devices, d, HeldMsgs(held), HeldMsgs(held'), inbox[p])
  BY DeviceRecvFacts, HeldMsgsAfter
<1>5. HeldMsgs(held)[d] = Nil
  BY <1>1 DEF HeldMsgs
<1>6. ASSUME NEW i \in Ids
      PROVE  Places(handed', sending', inbox', held', i) = Places(handed, sending, inbox, held, i)
  <2>1. Nr(Pipes, inbox', i) = Nr(Pipes, inbox, i) - (IF inbox[p].id = i THEN 1 ELSE 0)
    BY <1>1, <1>2, <1>3, ReceivesOne
  <2>2. Nr(net.devices, HeldMsgs(held'), i) =
          Nr(net.devices, HeldMsgs(held), i) + (IF inbox[p].id = i THEN 1 ELSE 0)
    BY <1>4, <1>5, Basics, PutInOneIds
  <2>3. sending' = sending /\ handed' = handed
    BY <1>1
  <2> QED
    BY <2>1, <2>2, <2>3, PlacesType DEF Places
<1>7. \A i \in Ids : /\ Places(handed', sending', inbox', held', i) \in Int
                     /\ Places(handed', sending', inbox', held', i)
                          <= Places(handed, sending, inbox, held, i)
  BY <1>6, PlacesType
<1> QED
  BY <1>1, <1>6, <1>7, Moved

LEMMA DeviceSendPlaces ==
    ASSUME Types, Types', PipesKnown, InOnePlace,
           \E n \in net.senders : Is(n, {"PUSH", "PAIR"}), NEW d \in net.devices, DeviceSend(d)
    PROVE  InOnePlace'
<1> DEFINE m == held[d].msg
<1>1. UNCHANGED <<net, inbox, handed, sent, broken>>
  BY DeviceSendFacts
<1>2. PICK C \in SUBSET (ready \cap OfNode(d[2])) : Sends(d[2], m, refs, held[d].hdr, C)
  BY DeviceSendFacts
<1>3. Is(d[2], {"PUSH", "PULL", "PAIR"}) /\ d[2] \in Nodes
  BY Basics, OnlyOnes
<1>4. GivenTo(net.devices, d, HeldMsgs(held), HeldMsgs(held'), Nil)
  BY DeviceSendFacts, HeldMsgsAfter
<1>5. HeldMsgs(held)[d] = m
  BY DEF HeldMsgs
<1> HIDE DEF m
<1>6. ASSUME NEW i \in Ids
      PROVE  Places(handed', sending', inbox', held', i) = Places(handed, sending, inbox, held, i)
  <2>1. Nr(Pipes, sending', i) = Nr(Pipes, sending, i) + (IF m.id = i THEN 1 ELSE 0)
    BY <1>2, <1>3, SendsToOne
  <2>2. Nr(net.devices, HeldMsgs(held'), i) =
          Nr(net.devices, HeldMsgs(held), i) - (IF m.id = i THEN 1 ELSE 0)
    BY <1>4, <1>5, Basics, TakenOutOneIds
  <2>3. inbox' = inbox /\ handed' = handed
    BY <1>1
  <2> QED
    BY <2>1, <2>2, <2>3, PlacesType DEF Places
<1>7. \A i \in Ids : /\ Places(handed', sending', inbox', held', i) \in Int
                     /\ Places(handed', sending', inbox', held', i)
                          <= Places(handed, sending, inbox, held, i)
  BY <1>6, PlacesType
<1> QED
  BY <1>1, <1>6, <1>7, Moved

LEMMA PlacesStep ==
    ASSUME Types, Types', PipesKnown, InOnePlace, [Next]_vars
    PROVE  InOnePlace'
<1>0. CASE ~\E n \in net.senders : Is(n, {"PUSH", "PAIR"})
  <2>1. ~(\E n \in net.senders : Is(n, {"PUSH", "PAIR"}))'
    BY <1>0, NetStays DEF Is
  <2> QED
    BY <2>1 DEF InOnePlace
<1> SUFFICES ASSUME \E n \in net.senders : Is(n, {"PUSH", "PAIR"}) PROVE InOnePlace'
  BY <1>0
<1>1. CASE \/ \E p \in Pipes : AddPipe(p)
           \/ \E c \in Conns : Break(c)
           \/ \E h \in hand : FreeMsg(h)
           \/ \E n \in Nodes, t \in net.strings : Subscribe(n, t) \/ Unsubscribe(n, t)
           \/ UNCHANGED vars
  <2>1. UNCHANGED <<net, sending, inbox, held, handed, sent>>
    BY <1>1 DEF AddPipe, Break, FreeMsg, Subscribe, Unsubscribe, vars, netVars
  <2>2. broken' = {} => broken = {}
    <3>1. ASSUME NEW p \in Pipes, AddPipe(p) PROVE broken' = broken \/ broken' # {}
      BY <3>1, PipeAdded DEF Refused, Accepted
    <3> QED
      BY <1>1, <3>1 DEF Break, FreeMsg, Subscribe, Unsubscribe, vars, netVars
  <2>3. \A i \in Ids : Places(handed', sending', inbox', held', i)
                         = Places(handed, sending, inbox, held, i)
    BY <2>1
  <2>4. \A i \in Ids : /\ Places(handed', sending', inbox', held', i) \in Int
                       /\ Places(handed', sending', inbox', held', i)
                            <= Places(handed, sending, inbox, held, i)
    BY <2>3, PlacesType
  <2> QED
    BY <2>1, <2>2, <2>3, <2>4, Moved
<1>2. ASSUME NEW n \in Nodes, RecvAgain(n) PROVE FALSE
  BY <1>2, Basics, OnlyOnes DEF RecvAgain, Is
<1> QED
  BY <1>1, <1>2, RmPipePlaces, PassPlaces, SendPlaces, RecvPlaces, DeviceRecvPlaces,
     DeviceSendPlaces DEF Next

(* What a PUSH or PAIR sends is in one place at a time, in any network of  *)
(* devices: it is handed to one user and to no second one, and while no    *)
(* connection is lost nothing is lost (nn_lb_send, nn_excl_send and        *)
(* nn_device_mvmsg).                                                       *)
THEOREM DeliveredToOne == Spec => []GoesToOne
<1>1. Init => InOnePlace
  <2>1. ASSUME Init PROVE sent = 0 /\ \A i \in Ids : handed[i] = 0
    BY <2>1 DEF Init
  <2> QED
    BY <2>1 DEF InOnePlace
<1>2. Types /\ Types' /\ PipesKnown /\ InOnePlace /\ [Next]_vars => InOnePlace'
  BY PlacesStep
<1>3. InOnePlace => GoesToOne
  BY DEF InOnePlace, GoesToOne
<1> QED
  BY <1>1, <1>2, <1>3, FanoutTypes, SocketsKnowTheirPipes, PTL DEF Spec

-----------------------------------------------------------------------------
(* The way messages take. *)

(* The way leads on from the sender, and from each device. *)
LEMMA FromSender ==
    ASSUME NEW R, LeadsAway(net, R), NEW p \in Pipes, NEW q \in Pipes,
           \A r \in net.replaces : p[2] # r[1], p[1] \in net.senders, q[2] = p[2], q # p
    PROVE  <<p[1], q>> \in R
  BY DEF LeadsAway, Pipes

LEMMA FromDevice ==
    ASSUME NEW R, LeadsAway(net, R), NEW o, NEW w, <<o, w>> \in R, NEW d \in net.devices,
           NEW p \in Pipes, NEW q \in Pipes, \A r \in net.replaces : p[2] # r[1],
           w[1] = d[1], p[1] = d[2], q[2] = p[2], q # p, net.type[d[1]] = "XBUS" => p # w
    PROVE  <<o, q>> \in R
<1> DEFINE first == {x \in Pipes : \A r \in net.replaces : x[2] # r[1]}
<1>1. \A x \in R, e \in net.devices, a, b \in first :
            /\ x[2][1] = e[1] /\ a[1] = e[2] /\ b[2] = a[2] /\ b # a
            /\ net.type[e[1]] = "XBUS" => a # x[2]
            => <<x[1], b>> \in R
  BY DEF LeadsAway, Pipes
<1>2. p \in first /\ q \in first
  OBVIOUS
<1> HIDE DEF first
<1>3. <<o, w>>[1] = o /\ <<o, w>>[2] = w
  OBVIOUS
<1> QED
  BY <1>1, <1>2, <1>3

LEMMA NotBack ==
    ASSUME NEW R, LeadsAway(net, R), NEW o, NEW p, <<o, p>> \in R
    PROVE  p[1] # o
  BY DEF LeadsAway

LEMMA WayAfter ==
    ASSUME NEW R, net' = net,
           broken' = {} => /\ ~echoed' /\ First(up') /\ SentOn(sending', R) /\ CameBy(inbox', R)
                           /\ HeldFrom(up', addr', held', R)
    PROVE  OnItsWay(R)'
<1>1. Pipes' = Pipes
  BY SameNet
<1>2. \A p : Other(p)' = Other(p)
  BY <1>1 DEF Other
<1>3. /\ First(up)' <=> First(up')
      /\ SentOn(sending, R)' <=> SentOn(sending', R)
      /\ CameBy(inbox, R)' <=> CameBy(inbox', R)
      /\ HeldFrom(up, addr, held, R)' <=> HeldFrom(up', addr', held', R)
  BY <1>1, <1>2 DEF First, SentOn, CameBy, HeldFrom, CameFrom, Is, Nil
<1> QED
  BY <1>3 DEF OnItsWay

LEMMA SendsOnItsWay ==
    ASSUME NEW R, SentOn(sending, R), NEW n, NEW m, NEW r, NEW hdr,
           NEW C \in SUBSET (ready \cap OfNode(n)), Sends(n, m, r, hdr, C),
           \A p \in C : <<m.origin, Other(p)>> \in R
    PROVE  SentOn(sending', R)
<1>1. \A p \in Pipes : sending'[p] = IF p \in C THEN m ELSE sending[p]
  BY DEF Sends
<1> QED
  BY <1>1 DEF SentOn

(* A receive empties pipes. *)
LEMMA EmptiedOnItsWay ==
    ASSUME NEW R, CameBy(inbox, R), NEW E,
           inbox' = [q \in Pipes |-> IF q \in E THEN Nil ELSE inbox[q]]
    PROVE  CameBy(inbox', R)
  BY DEF CameBy

LEMMA WayStep ==
    ASSUME Types, PipesKnown, NEW R, LeadsAway(net, R), OnItsWay(R), [Next]_vars
    PROVE  OnItsWay(R)'
<1>0. /\ net' = net
      /\ broken = {} => /\ ~echoed /\ First(up) /\ SentOn(sending, R) /\ CameBy(inbox, R)
                        /\ HeldFrom(up, addr, held, R)
  BY NetStays DEF OnItsWay
<1>1. ASSUME NEW p \in Pipes, AddPipe(p) PROVE OnItsWay(R)'
  <2>1. /\ UNCHANGED <<sending, inbox, held, echoed>> /\ p \notin up
        /\ \A r \in net.replaces : p[2] = r[1] => r[2] \in broken
        /\ Refused(p) \/ Accepted(p)
    BY <1>1, PipeAdded
  <2>2. CASE Refused(p)
    <3>1. broken' # {}
      BY <2>2 DEF Refused
    <3> QED
      BY <1>0, <3>1, WayAfter
  <2>3. CASE Accepted(p)
    <3>1. /\ up' = up \cup {p} /\ broken' = broken
          /\ \A q \in Pipes \ {p} : addr'[q] = addr[q]
      BY <2>3 DEF Accepted
    <3>2. ASSUME broken = {} PROVE First(up')
      BY <1>0, <2>1, <3>1, <3>2 DEF First
    <3>3. ASSUME broken = {} PROVE HeldFrom(up', addr', held', R)
      <4>1. \A q \in up : addr'[q] = addr[q] /\ q \in up'
        BY <2>1, <3>1 DEF Types
      <4>2. ASSUME NEW d, NEW x, CameFrom(up, addr, d, x, R) PROVE CameFrom(up', addr', d, x, R)
        BY <4>1, <4>2 DEF CameFrom
      <4>3. HeldFrom(up, addr, held, R) /\ held' = held
        BY <1>0, <2>1, <3>3
      <4> QED
        BY <4>2, <4>3 DEF HeldFrom
    <3> QED
      BY <1>0, <2>1, <3>1, <3>2, <3>3, WayAfter
  <2> QED
    BY <2>1, <2>2, <2>3
<1>2. CASE \/ \E p \in Pipes : RmPipe(p)
           \/ \E c \in Conns : Break(c)
  <2>1. broken' # {}
    BY <1>2 DEF RmPipe, Break
  <2> QED
    BY <1>0, <2>1, WayAfter
<1>3. ASSUME NEW p \in Pipes, Pass(p) PROVE OnItsWay(R)'
  <2> DEFINE copy == [sending[p] EXCEPT !.chunk = <<sending[p].id, Other(p)>>]
  <2>1. /\ UNCHANGED <<up, broken, addr, held, echoed>> /\ sending[p] # Nil
        /\ sending' = [sending EXCEPT ![p] = Nil]
        /\ inbox' = [inbox EXCEPT ![Other(p)] = copy] \/ inbox' = inbox
    BY <1>3 DEF Pass
  <2>2. copy.origin = sending[p].origin
    BY <2>1, Basics, OtherFacts, CopyFacts
  <2> HIDE DEF copy
  <2>3. \A q \in Pipes : sending'[q] = IF q = p THEN Nil ELSE sending[q]
    BY <2>1 DEF Types
  <2>4. \A q \in Pipes : inbox'[q] = inbox[q] \/ (q = Other(p) /\ inbox'[q] = copy)
    BY <2>1 DEF Types
  <2>5. ASSUME broken = {} PROVE SentOn(sending', R)
    BY <1>0, <2>3, <2>5 DEF SentOn
  <2>6. ASSUME broken = {} PROVE CameBy(inbox', R)
    <3>1. <<sending[p].origin, Other(p)>> \in R
      BY <1>0, <2>1, <2>6 DEF SentOn
    <3> QED
      BY <1>0, <2>2, <2>4, <2>6, <3>1 DEF CameBy
  <2> QED
    BY <1>0, <2>1, <2>5, <2>6, WayAfter
<1>4. ASSUME NEW n \in Nodes, NEW topic \in net.topics, Send(n, topic) PROVE OnItsWay(R)'
  <2>1. UNCHANGED <<up, broken, inbox, addr, held, echoed>> /\ n \in net.senders
    BY <1>4, SendFacts
  <2>2. PICK m \in Msgs : /\ m.origin = n
                          /\ \E C \in SUBSET (ready \cap OfNode(n)) :
                                Sends(n, m, [refs EXCEPT ![m.chunk] = 1], 0, C)
    BY <1>4, SendFacts
  <2>3. PICK C \in SUBSET (ready \cap OfNode(n)) : Sends(n, m, [refs EXCEPT ![m.chunk] = 1], 0, C)
    BY <2>2
  <2>4. ASSUME broken = {}, NEW p \in C PROVE <<m.origin, Other(p)>> \in R
    <3>1. p \in Pipes /\ p[1] = n /\ \A r \in net.replaces : p[2] # r[1]
      BY <1>0, <2>4, Basics DEF Types, First
    <3>2. Other(p) \in Pipes /\ Other(p)[2] = p[2] /\ Other(p) # p
      BY <3>1, Basics, OtherFacts
    <3> QED
      BY <2>1, <2>2, <3>1, <3>2, FromSender
  <2>5. ASSUME broken = {} PROVE SentOn(sending', R)
    BY <1>0, <2>3, <2>4, <2>5, SendsOnItsWay
  <2> QED
    BY <1>0, <2>1, <2>5, WayAfter
<1>5. ASSUME NEW n \in Nodes, NEW p \in OfNode(n), Recv(n, p) PROVE OnItsWay(R)'
  <2>1. /\ UNCHANGED <<up, broken, sending, addr, held>>
        /\ p \in Pipes /\ p[1] = n /\ inbox[p] # Nil
        /\ echoed' = (echoed \/ inbox[p].origin = n)
    BY <1>5, RecvFacts
  <2>2. PICK skipped : Receives(n, p, skipped)
    BY <1>5, RecvFacts
  <2>3. ASSUME broken = {} PROVE ~echoed'
    <3>1. ~echoed /\ <<inbox[p].origin, p>> \in R
      BY <1>0, <2>1, <2>3 DEF CameBy
    <3>2. p[1] # inbox[p].origin
      BY <3>1, NotBack
    <3> QED
      BY <2>1, <3>1, <3>2
  <2>4. ASSUME broken = {} PROVE CameBy(inbox', R)
    BY <1>0, <2>2, <2>4, EmptiedOnItsWay DEF Receives
  <2> QED
    BY <1>0, <2>1, <2>3, <2>4, WayAfter
<1>6. ASSUME NEW n \in Nodes, RecvAgain(n) PROVE OnItsWay(R)'
  <2>1. UNCHANGED <<up, broken, sending, addr, held, echoed>> /\ Emptied(Full(n))
    BY <1>6 DEF RecvAgain
  <2>2. ASSUME broken = {} PROVE CameBy(inbox', R)
    BY <1>0, <2>1, <2>2, EmptiedOnItsWay DEF Emptied
  <2> QED
    BY <1>0, <2>1, <2>2, WayAfter
<1>7. CASE \/ \E h \in hand : FreeMsg(h)
           \/ \E n \in Nodes, t \in net.strings : Subscribe(n, t) \/ Unsubscribe(n, t)
           \/ UNCHANGED vars
  <2>1. UNCHANGED <<up, broken, sending, inbox, addr, held, echoed>>
    BY <1>7 DEF FreeMsg, Subscribe, Unsubscribe, vars, netVars
  <2> QED
    BY <1>0, <2>1, WayAfter
<1>8. ASSUME NEW d \in net.devices, NEW p \in OfNode(d[1]), DeviceRecv(d, p) PROVE OnItsWay(R)'
  <2>1. /\ UNCHANGED <<up, broken, sending, addr, echoed>>
        /\ p \in Pipes /\ p[1] = d[1] /\ inbox[p] # Nil
        /\ held' = [held EXCEPT ![d] = [msg |-> inbox[p],
                                        hdr |-> IF Is(d[1], {"XBUS"}) THEN addr[p] ELSE 0]]
    BY <1>8, DeviceRecvFacts
  <2>2. PICK skipped : Receives(d[1], p, skipped)
    BY <1>8, DeviceRecvFacts
  <2>3. ASSUME broken = {} PROVE CameBy(inbox', R)
    BY <1>0, <2>2, <2>3, EmptiedOnItsWay DEF Receives
  <2>4. p \in up
    BY <2>1 DEF PipesKnown
  <2>5. ASSUME broken = {} PROVE HeldFrom(up', addr', held', R)
    <3>1. held'[d].msg = inbox[p] /\ (Is(d[1], {"XBUS"}) => held'[d].hdr = addr[p])
      BY <2>1 DEF Types
    <3>2. <<inbox[p].origin, p>> \in R
      BY <1>0, <2>1, <2>5 DEF CameBy
    <3>3. \A e \in net.devices : e # d => held'[e] = held[e]
      BY <2>1 DEF Types
    <3>4. HeldFrom(up, addr, held, R)
      BY <1>0, <2>5
    <3>5. CameFrom(up, addr, d, held'[d], R)
      BY <2>1, <2>4, <3>1, <3>2 DEF CameFrom
    <3>6. up' = up /\ addr' = addr
      BY <2>1
    <3> QED
      BY <3>3, <3>4, <3>5, <3>6 DEF HeldFrom
  <2> QED
    BY <1>0, <2>1, <2>3, <2>5, WayAfter
<1>9. ASSUME NEW d \in net.devices, DeviceSend(d) PROVE OnItsWay(R)'
  <2>1. /\ UNCHANGED <<up, broken, inbox, addr, echoed>> /\ held[d].msg # Nil
        /\ held' = [held EXCEPT ![d] = [msg |-> Nil, hdr |-> 0]]
    BY <1>9, DeviceSendFacts
  <2>2. PICK C \in SUBSET (ready \cap OfNode(d[2])) :
            Sends(d[2], held[d].msg, refs, held[d].hdr, C)
    BY <1>9, DeviceSendFacts
  <2>3. ASSUME broken = {}, NEW p \in C PROVE <<held[d].msg.origin, Other(p)>> \in R
    <3>1. p \in Pipes /\ p[1] = d[2] /\ \A r \in net.replaces : p[2] # r[1]
      BY <1>0, <2>3, Basics DEF Types, First
    <3>2. Other(p) \in Pipes /\ Other(p)[2] = p[2] /\ Other(p) # p
      BY <3>1, Basics, OtherFacts
    <3>3. PICK w \in up : /\ w[1] = d[1] /\ <<held[d].msg.origin, w>> \in R
                          /\ Is(d[1], {"XBUS"}) => addr[w] = held[d].hdr
      <4>1. HeldFrom(up, addr, held, R) /\ held[d].msg # Nil
        BY <1>0, <2>1, <2>3
      <4>2. CameFrom(up, addr, d, held[d], R)
        BY <4>1 DEF HeldFrom
      <4> QED
        BY <4>2 DEF CameFrom
    <3>4. ASSUME net.type[d[1]] = "XBUS", p = w PROVE FALSE
      <4>1. d[1] = d[2]
        BY <3>1, <3>3, <3>4
      <4>2. Is(d[1], {"XBUS"}) /\ Is(d[2], {"XBUS"})
        BY <3>4, <4>1 DEF Is
      <4> QED
        BY <2>2, <3>3, <3>4, <4>2 DEF Sends
    <3> QED
      BY <3>1, <3>2, <3>3, <3>4, FromDevice
  <2>4. ASSUME broken = {} PROVE SentOn(sending', R)
    BY <1>0, <2>2, <2>3, <2>4, SendsOnItsWay
  <2>5. ASSUME broken = {} PROVE HeldFrom(up', addr', held', R)
    <3>1. \A e \in net.devices : held'[e].msg # Nil => held'[e] = held[e]
      BY <2>1 DEF Types
    <3>2. HeldFrom(up, addr, held, R)
      BY <1>0, <2>5
    <3>3. up' = up /\ addr' = addr
      BY <2>1
    <3> QED
      BY <3>1, <3>2, <3>3 DEF HeldFrom
  <2> QED
    BY <1>0, <2>1, <2>4, <2>5, WayAfter
<1> QED
  BY <1>1, <1>2, <1>3, <1>4, <1>5, <1>6, <1>7, <1>8, <1>9 DEF Next

(* There is a way for the messages to take. *)
Way == \E R : LeadsAway(net, R) /\ OnItsWay(R)

(* Where no connections lead back to a sender, other than through the pipe *)
(* a message came by, nobody gets its own message, unless a connection is  *)
(* lost: nn_xbus_send leaves out the pipe whose address nn_xbus_recv has   *)
(* put in the header.                                                      *)
THEOREM NoLoopNoEcho ==
    ASSUME \A N \in Nets : \E R : LeadsAway(N, R)
    PROVE  Spec => []NoEcho
<1>1. Init => Way
  <2> SUFFICES ASSUME Init PROVE Way
    OBVIOUS
  <2>1. PICK R : LeadsAway(net, R)
    BY DEF Init
  <2>2. OnItsWay(R)
    BY DEF Init, OnItsWay, First, SentOn, CameBy, HeldFrom
  <2> QED
    BY <2>1, <2>2 DEF Way
<1>2. Types /\ PipesKnown /\ Way /\ [Next]_vars => Way'
  <2> SUFFICES ASSUME Types, PipesKnown, Way, [Next]_vars PROVE Way'
    OBVIOUS
  <2>1. PICK R : LeadsAway(net, R) /\ OnItsWay(R)
    BY DEF Way
  <2>2. OnItsWay(R)'
    BY <2>1, WayStep
  <2>3. LeadsAway(net, R)'
    BY <2>1, NetStays
  <2> QED
    BY <2>2, <2>3 DEF Way
<1>3. Way => NoEcho
  BY DEF Way, OnItsWay, NoEcho
<1> QED
  BY <1>1, <1>2, <1>3, FanoutTypes, SocketsKnowTheirPipes, PTL DEF Spec

=============================================================================
