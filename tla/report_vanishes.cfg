SPECIFICATION MCSpec
CONSTANTS
    Base = 2
    Entries = 20
    Files <- MCFiles
    Stored <- MCStored
    Directory <- MCDirectory
    Incoming <- MCIncoming
    Years = {2024, 2025, 2026, 2027, 2028, 2029, 2030, 2031, 2032, 2033, 2034, 2035, 2036, 2037}
    NoDate = NoDate
    Alias <- MCAlias
    NoVendor = NoVendor
    Vendor = {v1, v2}
    Known = {v1}
    Amount <- MCAmount
    InvoiceNumber = {n1}
    MaxRows = 4
    None = None
    Request = {r1, r2, r3}
    MaxTrace = 5
    MaxCount = 3
    MaxDraw = 3
INVARIANT NothingVanishes
SYMMETRY Interchangeable
CHECK_DEADLOCK FALSE
