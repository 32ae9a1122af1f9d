----------------------------- MODULE MCTefLoader -----------------------------
(***************************************************************************)
(* Three files that may include each other in any way, and two keys at the *)
(* root that may be absent, scalar, plain, or derive from each other, from *)
(* themselves or from what they contain; chains of three nodes.            *)
(***************************************************************************)
EXTENDS TefLoader

CONSTANTS a, b, c

MCFile == {a, b, c}
MCPath == {<<"x">>, <<"y">>, <<"z">>, <<"x", "w">>}

\* The ways a node at a path may be written.
Scalar(p) == {<<[path |-> p, scalar |-> TRUE, proto |-> <<>>]>>}
Object(p, protos) == {<<[path |-> p, scalar |-> FALSE, proto |-> q]>> : q \in protos}
Absent == {<<>>}

\* Bodies: each choice for the first key, then each for the second.
Bodies(first, second) == {s \o t : s \in first, t \in second}

\* What the parser makes of them.
ParseResult(includes, body) ==
    LET asking == SelectSeq(body, LAMBDA n : n.proto # <<>>)
    IN  [nodes       |-> {[path |-> body[k].path, scalar |-> body[k].scalar] : k \in DOMAIN body},
         includes    |-> includes,
         inheritance |-> [k \in DOMAIN asking |-> [n |-> asking[k].path, path |-> asking[k].proto]]]

MCTexts ==
    LET with(includes, bodies) == {ParseResult(i, s) : i \in includes, s \in bodies}
        nested == {s \o t : s \in Object(<<"x">>, {<<>>, <<"x", "w">>, <<"y">>}),
                            t \in Object(<<"x", "w">>, {<<"x">>, <<"z">>})}
    IN  [f \in MCFile |->
          CASE f = a -> with({<<>>, <<b>>, <<b, c>>, <<c, b>>},
                             Bodies(Absent \cup nested \cup Object(<<"x">>, {<<"y">>, <<"x">>}),
                                    Absent \cup Object(<<"z">>, {<<"x">>, <<"y">>})))
            [] f = b -> with({<<>>, <<a>>, <<c>>},
                             Bodies(Absent \cup Object(<<"x">>, {<<>>, <<"y">>}),
                                    Absent \cup Scalar(<<"y">>) \cup Object(<<"y">>, {<<"z">>, <<"x">>})))
            [] f = c -> with({<<>>, <<b>>, <<c>>},
                             Bodies(Absent \cup Object(<<"y">>, {<<>>, <<"x">>}),
                                    Absent \cup Object(<<"z">>, {<<>>, <<"x">>})))]
=============================================================================
