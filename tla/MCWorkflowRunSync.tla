-------------------------- MODULE MCWorkflowRunSync --------------------------
EXTENDS WorkflowRunSync

OneWorkflow == [r \in Runs |-> "build"]
=============================================================================
