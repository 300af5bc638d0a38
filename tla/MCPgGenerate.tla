------------------------------ MODULE MCPgGenerate ------------------------------
EXTENDS PgGenerate, TLC

CONSTANTS q1, q2

MCSymmetry == Permutations(Proc) \cup Permutations(Contents)

MCDataset == <<q1, q2>>
MCHash == (q1 :> 0) @@ (q2 :> 1)
MCSkewed == (q1 :> 0) @@ (q2 :> 2)
MCQueries == {q1, q2}

\* everything in one shard, a selection in two, and what shard_for_query refuses
MCReplans == {[num |-> 1, ids |-> MCQueries], [num |-> 2, ids |-> {q2}],
              [num |-> 0, ids |-> {q1}]}
MCTwoShards == {[num |-> 2, ids |-> MCQueries]}

MCStops == {0, 1}
MCNoStop == {0}

\* a directory an earlier contract has left a record in, and a new one
MCLeftovers == {{}, {<<0, q2>>}}
MCFresh == {{}}

MCOrderly == {"one_per_shard", "plan_alone", "one_merge"}
MCOverlap == {"plan_alone", "one_merge"}
================================================================================
