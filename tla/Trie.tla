--------------------------------- MODULE Trie ---------------------------------
(***************************************************************************)
(* The patricia trie of subscriptions (pubsub/trie.c). A node adds its     *)
(* prefix, and the character that leads to it, to the string of its parent;*)
(* its children are a list of characters and nodes (sparse) or, when there *)
(* are more than SparseMax, an array over a range of characters (dense).   *)
(*                                                                         *)
(* A node that is converted between the two loses its subscriptions, as    *)
(* the code sets refcount to 0. lost marks such a node; the code keeps     *)
(* nothing of the kind.                                                    *)
(***************************************************************************)
EXTENDS Integers, Sequences, FiniteSets

CONSTANTS SparseMax,  \* NN_TRIE_SPARSE_MAX, 8 in the code
          PrefixMax   \* NN_TRIE_PREFIX_MAX, 10 in the code

ASSUME TrieAssumption == SparseMax \in Nat \ {0} /\ PrefixMax \in Nat \ {0}

NullNode == [kind |-> "null"]
Sparse(ref, prefix, children) ==
    [kind |-> "sparse", ref |-> ref, prefix |-> prefix, children |-> children,
     lost |-> FALSE]

(* Children of either kind, as pairs <<character, node>>; a NULL in a dense*)
(* array is none.                                                          *)
Children(node) ==
    CASE node.kind = "sparse" -> {<<node.children[i].c, node.children[i].n>> :
                                     i \in DOMAIN node.children}
      [] node.kind = "dense" -> {<<c, node.children[c]>> :
                                     c \in {x \in DOMAIN node.children :
                                               node.children[x] # NullNode}}
      [] OTHER -> {}

(* type == 0 and type == 1: a dense node has another type. *)
NrChildren(node) == IF node.kind = "sparse" THEN Len(node.children) ELSE SparseMax + 1

HasSubscribers(node) == node.ref > 0

(* nn_node_check_prefix: how many characters of the data match. *)
CheckPrefix(node, data) ==
    CHOOSE i \in 0..Len(node.prefix) :
        /\ i <= Len(data) /\ \A k \in 1..i : node.prefix[k] = data[k]
        /\ \/ i = Len(node.prefix) \/ i = Len(data)
           \/ (i < Len(data) /\ i < Len(node.prefix) /\ node.prefix[i + 1] # data[i + 1])

From(data, k) == SubSeq(data, k, Len(data))

(* nn_node_next: {} for a NULL pointer; the child itself may be NULL in a  *)
(* dense array.                                                            *)
NextNode(node, c) ==
    IF node.kind = "sparse"
    THEN {node.children[i].n : i \in {j \in DOMAIN node.children : node.children[j].c = c}}
    ELSE {node.children[x] : x \in DOMAIN node.children \cap {c}}

SetChild(node, c, child) ==
    IF node.kind = "sparse"
    THEN [node EXCEPT !.children = [i \in DOMAIN @ |-> IF @[i].c = c THEN [@[i] EXCEPT !.n = child]
                                                                     ELSE @[i]]]
    ELSE [node EXCEPT !.children[c] = child]

(* nn_node_compact: a node that only leads to one child is merged with it. *)
Compact(node) ==
    LET ch == node.children[1].n
    IN IF \/ HasSubscribers(node) \/ NrChildren(node) # 1
          \/ Len(node.prefix) + Len(ch.prefix) + 1 > PrefixMax
       THEN node
       ELSE [ch EXCEPT !.prefix = node.prefix \o <<node.children[1].c>> \o @]

-----------------------------------------------------------------------------
(* nn_trie_subscribe. *)

(* Step 4 and step 5: new nodes for the rest of the subscription. *)
RECURSIVE Create(_)
Create(data) ==
    IF Len(data) > PrefixMax
    THEN Sparse(0, SubSeq(data, 1, PrefixMax),
                <<[c |-> data[PrefixMax + 1], n |-> Create(From(data, PrefixMax + 2))]>>)
    ELSE Sparse(1, data, <<>>)

Lowest(S) == CHOOSE x \in S : \A y \in S : x <= y
Highest(S) == CHOOSE x \in S : \A y \in S : x >= y

(* A node over the range of the given characters. *)
Dense(node, ref, range, nbr, lost) ==
    [kind |-> "dense", ref |-> ref, prefix |-> node.prefix, nbr |-> nbr, lost |-> lost,
     children |-> [c \in Lowest(range)..Highest(range) |->
                      IF \E p \in Children(node) : p[1] = c
                      THEN (CHOOSE p \in Children(node) : p[1] = c)[2]
                      ELSE NullNode]]

Chars(node) == {p[1] : p \in Children(node)}

(* Seeded fault: an array that grows to the left is not moved. *)
MakeRoomUnmoved(node, c) ==
    IF node.kind = "sparse" /\ NrChildren(node) < SparseMax
    THEN [node EXCEPT !.children = Append(@, [c |-> c, n |-> NullNode])]
    ELSE IF node.kind = "dense"
    THEN LET low == Lowest(DOMAIN node.children)
             wide == Dense(node, node.ref, DOMAIN node.children \cup {c}, node.nbr + 1,
                           node.lost)
             min == Lowest({low, c})
         IN [wide EXCEPT !.children =
                [x \in DOMAIN @ |-> IF x - min + low \in DOMAIN node.children
                                    THEN node.children[x - min + low] ELSE NullNode]]
    ELSE Dense(node, 0, Chars(node) \cup {c}, NrChildren(node) + 1, HasSubscribers(node))

(* Step 3: room for the character c in the array of children. *)
MakeRoom(node, c) ==
    IF node.kind = "sparse" /\ NrChildren(node) < SparseMax
    THEN [node EXCEPT !.children = Append(@, [c |-> c, n |-> NullNode])]
    ELSE IF node.kind = "dense"
    THEN Dense(node, node.ref, DOMAIN node.children \cup {c}, node.nbr + 1, node.lost)
    ELSE Dense(node, 0, Chars(node) \cup {c}, NrChildren(node) + 1, HasSubscribers(node))

Branch(node, rest) ==
    IF rest = <<>> THEN [node EXCEPT !.ref = @ + 1]
    ELSE SetChild(MakeRoom(node, Head(rest)), Head(rest), Create(Tail(rest)))

(* Step 2: the prefix is split after pos characters. *)
Split(node, pos) ==
    Sparse(0, SubSeq(node.prefix, 1, pos),
           <<[c |-> node.prefix[pos + 1],
              n |-> Compact([node EXCEPT !.prefix = From(@, pos + 2)])]>>)

RECURSIVE TrieSubscribe(_, _)
TrieSubscribe(node, data) ==
    IF node = NullNode THEN Create(data)
    ELSE LET pos  == CheckPrefix(node, data)
             rest == From(data, pos + 1)
             down == IF rest = <<>> THEN {} ELSE NextNode(node, Head(rest)) \ {NullNode}
         IN CASE pos < Len(node.prefix) -> Branch(Split(node, pos), rest)
              [] pos = Len(node.prefix) /\ rest # <<>> /\ down # {} ->
                    SetChild(node, Head(rest),
                             TrieSubscribe(CHOOSE ch \in down : TRUE, Tail(rest)))
              [] OTHER -> Branch(node, rest)

-----------------------------------------------------------------------------
(* nn_trie_match: what it may return. A message that ends where the trie   *)
(* goes on is read past its end.                                           *)
RECURSIVE TrieMatch(_, _)
TrieMatch(node, data) ==
    IF node = NullNode \/ CheckPrefix(node, data) # Len(node.prefix) THEN {FALSE}
    ELSE LET rest == From(data, Len(node.prefix) + 1)
         IN CASE HasSubscribers(node) -> {TRUE}
              [] ~HasSubscribers(node) /\ rest = <<>> -> BOOLEAN
              [] OTHER -> IF NextNode(node, Head(rest)) = {} THEN {FALSE}
                          ELSE TrieMatch(CHOOSE ch \in NextNode(node, Head(rest)) : TRUE,
                                         Tail(rest))

-----------------------------------------------------------------------------
(* nn_node_unsubscribe: the node it leaves, and what it returns: removed,  *)
(* kept (a reference is left, or nothing was found) or the error EINVAL.   *)
(* "crash": NULL is dereferenced, or an assertion fails.                   *)
Result(rc, node) == [rc |-> rc, node |-> node]

(* "found". *)
Decrement(node) ==
    IF node = NullNode \/ (node # NullNode /\ ~HasSubscribers(node))
    THEN Result("EINVAL", node)
    ELSE LET left == [node EXCEPT !.ref = @ - 1]
         IN CASE left.ref > 0 -> Result("kept", left)
              [] left.ref = 0 /\ NrChildren(left) = 0 -> Result("removed", NullNode)
              [] OTHER -> Result("removed", Compact(left))

(* The child under c is gone. *)
RemoveChild(node, c) ==
    LET other(p) == p.c # c
        left == [node EXCEPT !.children = SelectSeq(@, other)]
        rest == {p[1] : p \in Children(node)} \ {c}
        ascending[k \in 0..Cardinality(rest)] ==
            IF k = 0 THEN <<>>
            ELSE LET low == Lowest(rest \ {ascending[k - 1][i] : i \in 1..(k - 1)})
                 IN Append(ascending[k - 1], low)
    IN CASE node.kind = "sparse" /\ NrChildren(left) = 0 /\ ~HasSubscribers(left) ->
               Result("removed", NullNode)
         [] node.kind = "sparse" /\ (NrChildren(left) > 0 \/ HasSubscribers(left)) ->
               Result("removed", Compact(left))
         [] node.kind = "dense" /\ node.nbr > SparseMax + 1 ->
               LET bounds == IF c \in {Lowest(DOMAIN node.children),
                                       Highest(DOMAIN node.children)}
                             THEN (DOMAIN node.children \ {c}) \cap
                                  (IF c = Lowest(DOMAIN node.children)
                                   THEN Lowest(rest)..Highest(DOMAIN node.children)
                                   ELSE Lowest(DOMAIN node.children)..Highest(rest))
                             ELSE DOMAIN node.children
               IN Result("removed", Dense([node EXCEPT !.children[c] = NullNode], node.ref,
                                          bounds, node.nbr - 1, node.lost))
         [] OTHER ->
               \* back to a sparse array
               IF Cardinality(rest) # SparseMax THEN Result("crash", node)
               ELSE Result("removed",
                    [Sparse(0, node.prefix,
                            [i \in 1..SparseMax |->
                                [c |-> ascending[SparseMax][i],
                                 n |-> node.children[ascending[SparseMax][i]]]])
                        EXCEPT !.lost = HasSubscribers(node)])

RECURSIVE TrieUnsubscribe(_, _)
TrieUnsubscribe(node, data) ==
    IF data = <<>> THEN Decrement(node)
    ELSE IF node = NullNode THEN Result("crash", node)
    ELSE IF CheckPrefix(node, data) # Len(node.prefix) THEN Result("kept", node)
    ELSE LET rest == From(data, Len(node.prefix) + 1)
         IN IF rest = <<>> THEN Decrement(node)
            ELSE IF NextNode(node, Head(rest)) = {} THEN Result("kept", node)
            ELSE LET r == TrieUnsubscribe(CHOOSE ch \in NextNode(node, Head(rest)) : TRUE,
                                          Tail(rest))
                     node1 == SetChild(node, Head(rest), r.node)
                 IN CASE r.rc \in {"crash", "kept"} -> Result(r.rc, node1)
                      [] r.rc \in {"removed", "EINVAL"} /\ r.node # NullNode ->
                            Result("removed", node1)
                      [] OTHER -> RemoveChild(node1, Head(rest))

-----------------------------------------------------------------------------
RECURSIVE HasLost(_)
HasLost(node) ==
    node # NullNode /\ (node.lost \/ \E p \in Children(node) : HasLost(p[2]))

(* Nothing is left behind: a node without children is a subscription, a    *)
(* dense node counts its children right.                                   *)
RECURSIVE WellShaped(_)
WellShaped(node) ==
    node # NullNode =>
        /\ Children(node) = {} => HasSubscribers(node)
        /\ node.kind = "dense" => node.nbr = Cardinality(Children(node))
        /\ Len(node.prefix) <= PrefixMax
        /\ \A p \in Children(node) : WellShaped(p[2])
=============================================================================
