--------------------------- MODULE MCConnectorSync ---------------------------
(* Instances of ConnectorSync small enough for TLC. *)
EXTENDS ConnectorSync, TLC

(* Requests and users are interchangeable in the runs that check an         *)
(* invariant only.                                                          *)
Symmetric ==
  Permutations(Syncs) \cup Permutations(Authorizations) \cup Permutations(Users)
=============================================================================
