---------------------------- MODULE MCConsoleViews ----------------------------
(* Instances of ConsoleViews small enough for TLC. *)
EXTENDS ConsoleViews, TLC

CONSTANTS SecondUser

(* Two of the contexts: the seeded user's at home, another's elsewhere. *)
TwoContexts == {[user |-> SeededUser, org |-> HomeOrg], [user |-> SecondUser, org |-> LabOrg]}
=============================================================================
