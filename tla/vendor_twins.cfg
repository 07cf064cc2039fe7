SPECIFICATION Spec
CONSTANTS
    Session = {s1}
    Vendors = 3
    Dependent = {d1}
    plain = plain
    accented = accented
    cut = cut
    dotted = dotted
    b1 = b1
    b2 = b2
    e = e
    none = none
    Name <- DottedName
    Bank = {b1, b2}
    Key = {e, none}
    KeyOf <- DottedKey
    SqlKeyOf <- DottedKey
    WordsOf <- DottedKey
    Upper <- Itself
    Filed <- Itself
    Sheets = {}
    Edits = {}
    Samples <- OneSample
    Requests = 4
    None = None
    Absent = Absent
INVARIANT OneVendorPerName
CHECK_DEADLOCK FALSE
