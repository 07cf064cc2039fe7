SPECIFICATION Spec
CONSTANTS
    Session = {s1, s2}
    Vendors = 3
    Dependent = {d1}
    plain = plain
    accented = accented
    cut = cut
    dotted = dotted
    b1 = b1
    b2 = b2
    e = e
    none = none
    Name <- MCName
    Bank = {b1, b2}
    Key = {e, none}
    KeyOf <- MCKeyOf
    SqlKeyOf <- MCSqlKey
    WordsOf <- MCSqlKey
    Upper <- Itself
    Filed <- Itself
    Sheets <- MCSheets
    Edits <- MCEdits
    Samples <- MCSamples
    Requests = 4
    None = None
    Absent = Absent
INVARIANTS
    TwinsExplained
    GroupsAreComponents
PROPERTY
    MergeSettles
SYMMETRY Interchangeable
CHECK_DEADLOCK FALSE
