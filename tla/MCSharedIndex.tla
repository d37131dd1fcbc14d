--------------------------- MODULE MCSharedIndex ---------------------------
EXTENDS SharedIndex
CONSTANTS w1, w2, k1, v1, rule

UpsertOp(k, v) == [op |-> "upsert", key |-> k, val |-> v]
RemoveOp(k) == [op |-> "remove", key |-> k, val |-> NoVal]
TouchOp(k) == [op |-> "touch", key |-> k, val |-> NoVal]
Invalidate == [op |-> "invalidate", key |-> NoKey, val |-> rule]
Clear == [op |-> "clear", key |-> NoKey, val |-> NoVal]

\* A store, a store that evicts, a purge, a touch, an invalidation and a clear.
AllBatches == {<<UpsertOp(k1, v1)>>, <<RemoveOp(k1), UpsertOp(k1, v1)>>, <<RemoveOp(k1)>>,
               <<TouchOp(k1)>>, <<Invalidate>>, <<Clear>>}

\* A store and an invalidation.
BlindBatches == {<<UpsertOp(k1, v1)>>, <<Invalidate>>}

\* A store and a purge.
FewBatches == {<<UpsertOp(k1, v1)>>, <<RemoveOp(k1)>>}
=============================================================================
