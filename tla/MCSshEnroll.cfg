\* Two commands, two nodes (one on an odd port), two keys, one change.
CONSTANTS
    Nodes = {web, pve}
    Keys = {old, new}
    OddPort = {pve}
    Enrollers = {ann, bob}
    MaxChanges = 1
    Requests <- MCRequests
    NoRequest = none
SYMMETRY Symmetry
SPECIFICATION Spec
INVARIANTS
    TypeOK
    TrustedOnly
    EnrolledIsReady
    EnrollInv
PROPERTIES
    OnlyOwnLines
