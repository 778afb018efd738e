\* A second process inserts while the first one is between its two statements.
SPECIFICATION AuditSpec
CONSTANTS
    p1 = p1  p2 = p2
    Writers = {p1, p2}  EventTypes = {"ProcessStart", "ActionSuppressed"}
    ManifestInterval = 2  QueryMaxRows = 3  ExportMaxRows = 2  DefaultTail = 2
    MaxRows = 3
INVARIANTS VerifyPasses
