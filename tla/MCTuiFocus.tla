------------------------------ MODULE MCTuiFocus ------------------------------
(* Two torrents, a filter that hides one and a text that hides the other. *)
EXTENDS TuiFocus

CONSTANTS a, b

MCHash == {a, b}
MCFilter == {MCHash, {a}}
MCText == {MCHash, {b}}

\* Rows and selection are explored while nothing is fetched, details and
\* Explain while nothing is filtered, searched or selected.
NothingFetched ==
    fetches = {} /\ lastFetch = 0 /\ version = 0 /\ stack \in {<< >>, <<"filters">>}
NothingHidden ==
    box = "closed" /\ selected = {} /\ filters = MCHash /\ search = MCHash
Scene == NothingFetched \/ NothingHidden
=============================================================================
