----------------------------- MODULE MCServices -----------------------------
(***************************************************************************)
(* Instances of Services for TLC.  Nothing relates two provider instances, *)
(* so there is one; the callers are alike, and so are the accounts and the *)
(* prompts.                                                                *)
(***************************************************************************)
EXTENDS Services, TLC

Alike == Permutations(Callers) \union Permutations(Accounts) \union Permutations(Prompts)
=============================================================================
