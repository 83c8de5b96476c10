\* A role that allows everything and one that may write in the workspace.
SPECIFICATION Spec
CONSTANTS
    Tool = {"edit", "shell"}
    MaxMode = {"workspace-write", "allow"}
    SessionTimeout = {3}
    Request <- MCRequest
    Template <- MCTemplate
    MaxNow = 3
    MaxGrants = 3
INVARIANTS AuditReplays EndedSessionIsBase
PROPERTIES GrantsNeverRevive
