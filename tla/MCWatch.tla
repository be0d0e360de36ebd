------------------------------ MODULE MCWatch -------------------------------
(* The fleets of Watch for TLC, each about some of the diagnoses: two      *)
(* zones, a link, a link of two kits, a renderer, video, radio, and a      *)
(* declared fleet whose nodes have troubles.                               *)
EXTENDS Watch

CONSTANTS n1, n2, n3

Of(types, where) == [nodes |-> Node, type |-> types, zone |-> where,
                     kit |-> [x \in Node |-> "k"],
                     troubles |-> [x \in Node |-> {}],
                     declared |-> <<>>, counted |-> {}, leaving |-> {},
                     runs |-> <<"A">>, profiles |-> {"robotics"}]

Three(a, b, c) == [x \in Node |-> IF x = n1 THEN a ELSE IF x = n2 THEN b ELSE c]
One == Three("A", "A", "A")
Apart == Three("A", "A", "B")

TwoZones == [Of(Three("client", "edge", "edge"), Apart) EXCEPT
                !.kit = Three("k", "k", "l"), !.runs = <<"A", "B">>]
Link == [Of(Three("client", "edge", "render"), One) EXCEPT
                !.nodes = {n1, n2}, !.counted = {n1, n2}]
OddLink == [Of(Three("client", "edge", "render"), One) EXCEPT
                !.nodes = {n1, n2}, !.kit = Three("k", "l", "l"),
                !.runs = <<"A", "A">>]
Drawn == [Of(Three("client", "edge", "render"), One) EXCEPT
                !.nodes = {n2, n3}, !.counted = {n2, n3}]
Elsewhere == [Drawn EXCEPT !.nodes = {n1, n3}, !.kit = Three("k", "k", "l"),
                           !.counted = {}]
Video == [Of(Three("sender", "relay", "receiver"), One) EXCEPT
                !.kit = Three("k", "k", "l"), !.profiles = {"media"}]
Sending == [Video EXCEPT !.nodes = {n1, n2}, !.counted = {n1, n2}]
Playing == [Video EXCEPT !.nodes = {n2, n3}, !.counted = {n2, n3}]
Radio == [Of(Three("gnb", "xapp", "client"), One) EXCEPT
                !.nodes = {n1, n2}, !.counted = {n1, n2}, !.profiles = {"media"},
                !.troubles = Three({}, {"scale"}, {})]
NoRadio == [Radio EXCEPT !.nodes = {n2}, !.troubles = Three({}, {"no E2"}, {})]
Declared == [Of(Three("client", "edge", "xapp"), One) EXCEPT
                !.nodes = {n1, n2}, !.leaving = {n2},
                !.declared = [x \in {n2} |-> "B"],
                !.troubles = Three({"adrift", "other commit"},
                                   {"negative delays", "posts fail"}, {})]

MCFleets == {TwoZones, Link, OddLink, Drawn, Elsewhere, Video, Sending, Playing,
             Radio, NoRadio, Declared}
MCFollowed == {<<n1, n2>>}
MCOverrides == [t \in {} |-> Rule(TRUE, "error")]
=============================================================================
