----------------------------- MODULE MCAgGraph -----------------------------
(* Instances of AgGraph for TLC: paths of one edge or none in all variety, *)
(* paths of two edges in some.                                             *)
EXTENDS AgGraph

CONSTANTS Labels, Ids

Plain  == {<<"{", "}">>,
           <<"{", "a", ":", "{", "}", ",", "b", ":", "[", "1", "]", "}">>}
Braces == {<<"{", "}">>, <<"{", "\"", "}", "\"", "}">>}

Gids(ids) == {[oid |-> 1, id |-> i] : i \in ids}

VerticesOf(labels, ids, props) ==
    {[label |-> <<l>>, vid |-> g, props |-> x, str |-> Null] :
        l \in labels, g \in Gids(ids), x \in props}
EdgesOf(labels, ids, props) ==
    {[label |-> <<l, l>>, eid |-> g, startVid |-> s, endVid |-> e, props |-> x,
      str |-> Null] :
        l \in labels, g \in Gids(ids), s \in Gids(ids), e \in Gids(ids), x \in props}

PathsOf(n, labels, ids, props) ==
    {[vertices |-> v, edges |-> e] :
        v \in [1 .. n + 1 -> VerticesOf(labels, ids, props)],
        e \in [1 .. n -> EdgesOf(labels, ids, props)]}

PlainPaths ==
    UNION {PathsOf(n, Labels, Ids, Plain) : n \in 0 .. 1} \cup PathsOf(2, {"a"}, {7}, Plain)

\* The tokenizer can take these apart.
ASSUME PlainPathsAssumption == \A p \in PlainPaths : WellFormed(p)

BracePaths == UNION {PathsOf(n, Labels, Ids, Braces) : n \in 0 .. 1}
=============================================================================
