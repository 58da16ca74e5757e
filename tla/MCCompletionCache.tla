-------------------------- MODULE MCCompletionCache --------------------------
(* Model values for TLC: one instance has several categories, the other one  *)
(* and nothing else.                                                         *)
EXTENDS CompletionCache

CONSTANTS h1, h2, n1, n2

MCLive ==
    [h \in {h1, h2} |->
        [v \in Vocabularies |->
            IF h = h1 /\ v = "categories" THEN {n1, n2}
            ELSE IF h = h1 \/ v = "categories" THEN {n1} ELSE {}]]
=============================================================================
