SPECIFICATION Spec
CONSTANTS
    Session = {s1}
    Vendor = {v1, v2}
    KnownVendors = {v1}
    Change = {c1, c2}
    rt1 = rt1
    rt2 = rt2
    acc1 = acc1
    acc2 = acc2
    Routing = {rt1, rt2}
    Account = {acc1, acc2}
    LongAccount <- NoAccount
    FirstBank <- MCFirstBank
    Details <- Separate
    Operations = {"request", "review", "enter", "bulk", "delete"}
    None = None
INVARIANTS
    TypeOK
    LatestWins
    DecisionStands
PROPERTY
    FollowsWorkflow
SYMMETRY Interchangeable
CHECK_DEADLOCK FALSE
