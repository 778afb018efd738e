\* Two processes writing, failing and restarting; a manifest every second row.
SPECIFICATION AuditSpec
CONSTANTS
    p1 = p1  p2 = p2
    Writers = {p1, p2}  EventTypes = {"ProcessStart", "ActionSuppressed"}
    ManifestInterval = 2  QueryMaxRows = 3  ExportMaxRows = 2  DefaultTail = 2
    MaxRows = 4
INVARIANTS AuditTypeOK ForksNeedTwoWriters VerifyRangesAgree ManifestsHold ReadsAreNewest
SYMMETRY ProcessSymmetry
