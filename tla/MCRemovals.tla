----------------------------- MODULE MCRemovals -----------------------------
(* Small instances of Removals for TLC.                                    *)
EXTENDS Removals, TLC

CONSTANTS g1, g2, v1, v2, v3, f1, f2, f3

OneGroup  == [g \in {g1} |-> {v1, v2}]
OneGroup3 == [g \in {g1} |-> {v1, v2, v3}]
Overlap   == (g1 :> {v1, v2}) @@ (g2 :> {v2, v3})
OwnFiles3 == (v1 :> f1) @@ (v2 :> f2) @@ (v3 :> f3)
TwoOfThree == (v1 :> f1) @@ (v2 :> f2) @@ (v3 :> f1)
OwnFiles2 == (v1 :> f1) @@ (v2 :> f2)
=============================================================================
