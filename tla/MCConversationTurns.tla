------------------------- MODULE MCConversationTurns -------------------------
(* Instances of ConversationTurns small enough for TLC. *)
EXTENDS ConversationTurns, TLC

(* Turns, creations and users are interchangeable in the runs that check    *)
(* an invariant only.                                                       *)
Symmetric == Permutations(Turns) \cup Permutations(Creations) \cup Permutations(Users)
=============================================================================
