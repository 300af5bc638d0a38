------------------------------ MODULE MCLineage -------------------------------
(***************************************************************************)
(* Bounds: a checkpoint with two initialized IDs and one with one, three    *)
(* entries of the first, one of the second, one of another campaign.        *)
(***************************************************************************)
EXTENDS Lineage, TLC

CONSTANTS r1, r2, a, b, c, p1, p2, p3, q, x

MCRoots == {r1, r2}
MCInventory == (r1 :> {a, b}) @@ (r2 :> {c})
MCRefs == {p1, p2, p3, q, x}
MCRootOf == [r \in MCRefs |-> IF r = x THEN Foreign ELSE IF r = q THEN r2 ELSE r1]

\* An assembled campaign, and descendants with a merged, a split and a deleted lineage.
MCStarts == {(p1 :> {a}) @@ (p2 :> {b}) @@ (q :> {c}),
             p1 :> {a, b}, (p1 :> {a}) @@ (p2 :> {a})}
=============================================================================
