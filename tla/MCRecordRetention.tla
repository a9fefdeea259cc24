------------------------- MODULE MCRecordRetention -------------------------
EXTENDS RecordRetention

MCRepositoryOf == [x \in Runs \cup Items |-> CHOOSE r \in Repositories : TRUE]
MCPullOf == [x \in Runs |-> IF Pulls = {} THEN NoPull ELSE CHOOSE p \in Pulls : TRUE]
MCItemDays == [r \in Repositories |-> CHOOSE d \in Days : TRUE]
=============================================================================
