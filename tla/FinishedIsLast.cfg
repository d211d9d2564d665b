\* One enrollment of one host: is `finished` the last record of its log?
CONSTANTS
    Nodes = {web}
    OddPort = {}
    Keys = {old}
    Enrollers = {ann}
    MaxChanges = 0
    Requests <- MCRequests
    NoRequest = none
SPECIFICATION Spec
INVARIANTS
    FinishedIsLast
