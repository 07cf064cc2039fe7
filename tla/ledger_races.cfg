SPECIFICATION Spec
CONSTANTS
    Request = {r1, r2}
    Batch = {b1, b2}
    File = {f1, f2}
    v1 = v1
    v2 = v2
    inv1 = inv1
    inv2 = inv2
    None = None
    Vendor = {v1, v2}
    KnownVendors = {v1}
    HasEmail = {v1}
    Invoice = {inv1, inv2}
    MaxPayment = 3
    MaxTrace = 3
    Amount <- MCAmount
    Sheets <- RaceSheets
    Edits <- ToOne
    Starts <- NoStart
    Operations = {"upload", "edit", "generate", "delete_vendor"}
INVARIANTS
    LinksConsistent
    ClosedIffPaid
    AdviceAgreesWithFile
SYMMETRY Interchangeable
CHECK_DEADLOCK FALSE
