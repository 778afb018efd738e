\* Three processes saving and loading three configurations, with up to two faults.
SPECIFICATION ConfigSpec
CONSTANTS
    p1 = p1  p2 = p2  p3 = p3  plain = plain  signedA = signedA  signedB = signedB
    Processes = {p1, p2, p3}
    Configs = {plain, signedA, signedB}  Canonical = plain  Signed = {signedA, signedB}
    MaxFaults = 2
INVARIANTS ConfigTypeOK StartLoads UnsyncedOnlyDuringInstall
PROPERTIES InstallHeals DefaultsReplaceNothing
SYMMETRY ProcessSymmetry
