SPECIFICATION Spec
CONSTANTS
    Session = {s1, s2}
    Vendor = {v1}
    KnownVendors = {v1}
    Change = {c1, c2}
    rt1 = rt1
    rt2 = rt2
    acc1 = acc1
    acc2 = acc2
    Routing = {rt1, rt2}
    Account = {acc1, acc2}
    LongAccount = {acc2}
    FirstBank <- MCFirstBank
    Details <- AllNew
    Operations = {"request", "review", "enter", "bulk", "delete"}
    None = None
INVARIANTS
    ColumnsGranted
    RequestsReferToVendors
SYMMETRY Interchangeable
CHECK_DEADLOCK FALSE
