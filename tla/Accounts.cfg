\* Three requests, two at a time, on the accounts of two users.
SPECIFICATION Spec
CONSTANTS
    email = email  phone = phone  u1 = u1  u2 = u2  a1 = a1  a2 = a2  a3 = a3
    User = {u1, u2}
    Address = {a1, a2}
    Channel = {email}
    Email = email
    r1 = r1  r2 = r2  r3 = r3
    Request = {r1, r2, r3}
    First = First
    None = None
    Operation <- AllOperations
    RequireVerified = FALSE
    MaxInFlight = 2
SYMMETRY Symmetry
INVARIANTS AccountsInv VerifiedWasProved
PROPERTIES SessionJustified OldAddressConfirms
CHECK_DEADLOCK FALSE
