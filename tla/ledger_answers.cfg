SPECIFICATION FairSpec
CONSTANTS
    Request = {r1, r2}
    Batch = {b1}
    File = {f1}
    v1 = v1
    v2 = v2
    inv1 = inv1
    inv2 = inv2
    None = None
    Vendor = {v1, v2}
    KnownVendors = {v1}
    HasEmail = {v1}
    Invoice = {inv1, inv2}
    MaxPayment = 1
    MaxTrace = 1
    Amount <- MCAmount
    Sheets <- OneRow
    Edits <- ToOne
    Starts <- NoStart
    Operations = {"upload", "edit", "generate", "clear", "delete_vendor"}
PROPERTIES
    EveryRequestEnds
CHECK_DEADLOCK FALSE
