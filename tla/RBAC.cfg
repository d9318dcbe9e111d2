\* Two administrators' requests and one check, with a replica that lags.
SPECIFICATION Spec
CONSTANTS
    u1 = u1  u2 = u2  editor = editor  edit = edit  q1 = q1  q2 = q2  c1 = c1
    SuperAdmin = SuperAdmin
    User = {u1, u2}
    Role = {SuperAdmin, editor}
    Permission = {edit}
    ProtectedRole = {SuperAdmin}
    ProtectedPermission = {}
    Request = {q1, q2}
    Checker = {c1}
    Operation <- AllOperations
    None = None
    Watched = {u1}
    Founders = {{u2}, {u1, u2}}
    HasReplica = TRUE
    MaxFaults = 1
SYMMETRY Symmetry
INVARIANTS RBACInv AnswersAreFresh
PROPERTY NoEscalation
CHECK_DEADLOCK FALSE
