---------------------------- MODULE MCMamSession ----------------------------
EXTENDS MamSession, TLC

(* Neither servers nor pasted cookies are told apart, and every property   *)
(* is a safety property.                                                   *)
Symmetry == Permutations(Addresses) \cup Permutations(OwnerCookies)
=============================================================================
