------------------------ MODULE MCSecurityAlertSync ------------------------
EXTENDS SecurityAlertSync

MCAlertKinds == <<"DEPENDENCY", "CODE">>

\* One alert of each kind, as GitLab's reports name them.
MCKindOf ==
  [a \in Alerts |->
     GitLabAlertKind(IF a = CHOOSE b \in Alerts : TRUE THEN "DEPENDENCY_SCANNING"
                                                      ELSE "SAST")]
=============================================================================
