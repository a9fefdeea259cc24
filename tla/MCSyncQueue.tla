----------------------------- MODULE MCSyncQueue -----------------------------
EXTENDS SyncQueueRefinement, TLC

\* Every repository belongs to the one account of these models.
MCAccountOf == [r \in Repositories |-> CHOOSE a \in Accounts : TRUE]

MCSymmetry == Permutations(Repositories) \cup Permutations(Workers)
                \cup Permutations(Tokens)
=============================================================================
