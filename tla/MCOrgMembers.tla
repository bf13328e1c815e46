----------------------------- MODULE MCOrgMembers -----------------------------
(* Instances of OrgMembers for TLC; the configurations give the constants. *)
EXTENDS OrgMembers, TLC

(* Sound where every user is direct, and for safety: nothing then tells two *)
(* users or two requests apart.                                            *)
Interchangeable == Permutations(Users) \cup Permutations(Requests)
=============================================================================
