------------------------------ MODULE MCAccounts ------------------------------
(* Constant values for model-checking Accounts. *)
EXTENDS Accounts, TLC

CONSTANTS email, phone, u1, u2, a1, a2, a3, r1, r2, r3

Symmetry == Permutations(Request) \cup Permutations(User) \cup Permutations(Address)

AllOperations ==
    {"Register", "UpdateProfile", "Verify", "ChangePassword", "ResetPassword", "SetupTOTP",
     "ConfirmTOTP", "DisableTOTP", "Login", "MagicLinkVerify", "VerifyMFA"}
=============================================================================
