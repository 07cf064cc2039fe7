SPECIFICATION Spec
CONSTANTS
    Request = {r1}
    Batch = {b1, b2}
    File = {f1, f2}
    v1 = v1
    v2 = v2
    inv1 = inv1
    inv2 = inv2
    None = None
    Vendor = {v1, v2}
    KnownVendors = {v1}
    HasEmail = {v1}
    Invoice = {inv1, inv2}
    MaxPayment = 3
    MaxTrace = 3
    Amount <- MCAmount
    Sheets <- Mixed
    Edits <- ToOneOrInvoice
    Starts <- NoStart
    Operations = {"upload", "edit", "generate", "clear", "delete_vendor"}
INVARIANTS
    TypeOK
    BatchPaidOnce
    LedgerAgreesWithFiles
    TotalsAgree
    FilesReconcile
    FingerprintFollows
    VettedAreUnique
PROPERTIES
    KeepsPromise
    SentIsFrozen
SYMMETRY Interchangeable
CHECK_DEADLOCK FALSE
