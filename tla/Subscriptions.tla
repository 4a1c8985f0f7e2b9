----------------------------- MODULE Subscriptions -----------------------------
(***************************************************************************)
(* The protocols of Fanout with the trie of trie.c under its subscribers:  *)
(* the parameters EmptyTrie, AddString, RemoveString, Matches and Worn are *)
(* NullNode, TrieSubscribe, TrieUnsubscribe, TrieMatch and HasLost.        *)
(***************************************************************************)
EXTENDS Fanout, Trie

IsPrefix(t, topic) == Len(t) <= Len(topic) /\ SubSeq(topic, 1, Len(t)) = t
Subscribed(n, topic) == \E t \in net.strings : subs[n][t] > 0 /\ IsPrefix(t, topic)

(* The trie stands for the subscriptions the user made and did not cancel: *)
(* a message matches when one of them is a prefix of it, and then only,    *)
(* with two exceptions that trie.c has: a subscribed node that was         *)
(* converted between sparse and dense, and a message that ends where       *)
(* subscriptions begin to differ, past whose end nn_trie_match reads. No   *)
(* subscription that is cancelled fails an assertion or leads to NULL.     *)
TrieIsSubscriptions ==
    /\ ~torn
    /\ \A n \in Nodes : Is(n, {"SUB"}) /\ ~HasLost(trie[n]) =>
        /\ WellShaped(trie[n])
        /\ \A topic \in net.topics \cup net.strings :
            IF Subscribed(n, topic) THEN TrieMatch(trie[n], topic) = {TRUE}
            ELSE \/ TrieMatch(trie[n], topic) = {FALSE}
                 \/ /\ TrieMatch(trie[n], topic) = BOOLEAN
                    /\ \E t \in net.strings : subs[n][t] > 0 /\ IsPrefix(topic, t)
=============================================================================
