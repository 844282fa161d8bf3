--------------------------- MODULE SessionLifecycle ---------------------------
(***************************************************************************)
(* What the table UserSession promises, without the calls that write it: a *)
(* session begins active, belongs to one user for good, moves between      *)
(* organisations only while it is active, and once revoked stays revoked.  *)
(***************************************************************************)
CONSTANTS Tokens, People, Orgs, NoUser, NoOrg

VARIABLE session

NoSession == [status |-> "none", user |-> NoUser, org |-> NoOrg]

Init == session = [t \in Tokens |-> NoSession]

Begin(t, u, o) ==
  /\ session[t].status = "none"
  /\ session' = [session EXCEPT ![t] = [status |-> "active", user |-> u, org |-> o]]

Move(t, o) ==
  /\ session[t].status = "active"
  /\ session' = [session EXCEPT ![t].org = o]

Revoke(t) ==
  /\ session[t].status = "active"
  /\ session' = [session EXCEPT ![t].status = "revoked"]

Next ==
  \E t \in Tokens :
    \/ \E u \in People, o \in Orgs : Begin(t, u, o)
    \/ \E o \in Orgs : Move(t, o)
    \/ Revoke(t)

Spec == Init /\ [][Next]_session
=============================================================================
