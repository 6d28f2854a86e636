SPECIFICATION Spec
CONSTANTS
    d1 = d1
    d2 = d2
    d3 = d3
    Documents = {d1, d2, d3}
    Entities = {"case", "report"}
    Mappings <- MCMappings
    Limit <- MCLimit
    Requests = {p1, p2, p3}
    MaxFaults = 1
INVARIANTS
    TypeOK
    LimitKept
    ListedHasFile
    FilesAccounted
SYMMETRY Symmetry
CHECK_DEADLOCK FALSE
