--------------------------- MODULE MCWorkItemSync ---------------------------
EXTENDS WorkItemSync
=============================================================================
