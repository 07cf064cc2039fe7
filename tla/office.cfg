SPECIFICATION Spec
CONSTANTS
    Sender = {s1, s2}
    Unset = unset
    Session = {r1, r2}
    NoPassword = nopassword
    Caller = {g1, g2}
    Process = {b1}
    Nobody = nobody
    Worker = {w1, w2}
    Advice = {a1, a2}
    Vendor = {v1}
    File = {f1}
    VendorOf <- MCVendorOf
    FileOf <- MCFileOf
    Address = {x, y}
    Sends = 2
    Person = {p1, p2, p3}
    Password = {pw}
    Script = script
    MaxFailed = 2
    Window = 4
    Lockout = 4
    Tick = 2
    Tries = 7
    Time = 5
    Column = {c1, c2}
    Table <- MCTable
    TableOf <- MCTableOf
    Value = {u, v}
    Key = {legacy, k1, k2}
    Legacy = legacy
    Lost = lost
    Clear = clear
    Writes = 1
    None = None
SYMMETRY Symmetric
INVARIANTS
    CountsSends
    AdminRemains
    FailuresBounded
    RotationKeeps
CHECK_DEADLOCK FALSE
