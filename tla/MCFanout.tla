------------------------------- MODULE MCFanout -------------------------------
(* The networks to check. *)
EXTENDS Subscriptions

(* A publisher and a subscriber connected to it directly and by a device.  *)
PubSub ==
    [type |-> [p |-> "PUB", x |-> "SUB", y |-> "PUB", s |-> "SUB"],
     ends |-> [px |-> <<"p", "x">>, ys |-> <<"y", "s">>, ps |-> <<"p", "s">>],
     devices |-> {<<"x", "y">>}, senders |-> {"p"}, receivers |-> {"s"},
     topics |-> {<<1>>, <<2>>}, strings |-> {<<>>, <<1>>}, maxsubs |-> 1, msgs |-> 2,
     fragile |-> {"px"}, replaces |-> {}]

(* A subscriber and its subscriptions. *)
Subscriber ==
    [type |-> [s |-> "SUB", p |-> "PUB"], ends |-> [sp |-> <<"s", "p">>],
     devices |-> {}, senders |-> {}, receivers |-> {},
     topics |-> {<<5>>, <<2, 2>>, <<2, 1, 3>>, <<2, 1, 3, 1, 4>>, <<3, 3>>},
     strings |-> {<<>>, <<1>>, <<2>>, <<3>>, <<4>>, <<2, 1>>, <<2, 1, 3, 1>>},
     maxsubs |-> 6, msgs |-> 0, fragile |-> {}, replaces |-> {}]

(* Two nodes of a bus connected by a device; one of them connects anew. *)
Bus ==
    [type |-> [a |-> "BUS", b |-> "BUS", d |-> "XBUS"],
     ends |-> [a1 |-> <<"a", "d">>, a2 |-> <<"a", "d">>, b1 |-> <<"b", "d">>],
     devices |-> {<<"d", "d">>}, senders |-> {"a"}, receivers |-> {"a", "b"},
     topics |-> {<<>>}, strings |-> {}, maxsubs |-> 0, msgs |-> 1, fragile |-> {"a1"},
     replaces |-> {<<"a2", "a1">>}]

(* Two of a pair with a device between them, and a third one that tries.   *)
Pairs ==
    [type |-> [a |-> "PAIR", x |-> "PAIR", y |-> "PAIR", b |-> "PAIR", c |-> "PAIR"],
     ends |-> [ax |-> <<"a", "x">>, yb |-> <<"y", "b">>, ac |-> <<"a", "c">>],
     devices |-> {<<"x", "y">>, <<"y", "x">>}, senders |-> {"a"},
     receivers |-> {"b", "c"}, topics |-> {<<>>}, strings |-> {}, maxsubs |-> 0,
     msgs |-> 3, fragile |-> {"ac", "ax"}, replaces |-> {}]

(* Two that pull, behind a device. *)
Pipeline ==
    [type |-> [a |-> "PUSH", x |-> "PULL", y |-> "PUSH", b |-> "PULL", c |-> "PULL"],
     ends |-> [ax |-> <<"a", "x">>, yb |-> <<"y", "b">>, yc |-> <<"y", "c">>],
     devices |-> {<<"x", "y">>}, senders |-> {"a"}, receivers |-> {"b", "c"},
     topics |-> {<<>>}, strings |-> {}, maxsubs |-> 0, msgs |-> 3,
     fragile |-> {"yb"}, replaces |-> {}]

MCNets == {PubSub, Subscriber, Bus, Pairs, Pipeline}

(* Where the messages get to: in none of the networks back to their sender.*)
ASSUME NoLoops ==
    /\ LeadsAway(PubSub, {<<"p", <<"x", "px">>>>, <<"p", <<"s", "ps">>>>, <<"p", <<"s", "ys">>>>})
    /\ LeadsAway(Subscriber, {})
    /\ LeadsAway(Bus, {<<"a", <<"d", "a1">>>>, <<"a", <<"b", "b1">>>>})
    /\ LeadsAway(Pairs, {<<"a", <<"x", "ax">>>>, <<"a", <<"b", "yb">>>>, <<"a", <<"c", "ac">>>>})
    /\ LeadsAway(Pipeline,
                 {<<"a", <<"x", "ax">>>>, <<"a", <<"b", "yb">>>>, <<"a", <<"c", "yc">>>>})
=============================================================================
