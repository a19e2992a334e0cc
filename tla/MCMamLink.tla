----------------------------- MODULE MCMamLink ------------------------------
(***************************************************************************)
(* The spacing of requests to MAM and the session they are made in, which  *)
(* share no state as they are modelled.  One of the two runs; the other    *)
(* rests in its first state.                                               *)
(***************************************************************************)
EXTENDS MamSpacing, MamSession, TLC

VARIABLE part

linkVars == <<part, spacingVars, vars>>

LinkInit == part \in {"Spacing", "Session"} /\ SpacingInit /\ Init

LinkNext ==
    \/ part = "Spacing" /\ SpacingNext /\ UNCHANGED <<part, vars>>
    \/ part = "Session" /\ Next /\ UNCHANGED <<part, spacingVars>>

LinkSpec == LinkInit /\ [][LinkNext]_linkVars

(* Neither addresses nor pasted cookies are told apart, and every property *)
(* is a safety property.                                                   *)
Symmetry == Permutations(Addresses) \cup Permutations(OwnerCookies)
=============================================================================
