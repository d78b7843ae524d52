----------------------------- MODULE MCAccounts -----------------------------
(***************************************************************************)
(* Accounts for TLC: requests, passwords and Google identities may be      *)
(* interchanged.                                                           *)
(***************************************************************************)
EXTENDS Accounts, TLC

Symmetry ==
  Permutations(Requests) \cup Permutations(Passwords) \cup Permutations(GoogleIds)
=============================================================================
