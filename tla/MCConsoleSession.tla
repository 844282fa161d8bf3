--------------------------- MODULE MCConsoleSession ---------------------------
(* Instances of ConsoleSession small enough for TLC. *)
EXTENDS ConsoleSession, TLC

CONSTANTS s1, s2, other, google

(* Two accounts at one provider.  The first has the seeded user's address   *)
(* or, at another login, that of the second, who may also have none.        *)
MCProviderOf == [s \in Subjects |-> google]
MCProfiles == {[subject |-> s1, email |-> SeededMail], [subject |-> s1, email |-> other],
               [subject |-> s2, email |-> other], [subject |-> s2, email |-> NoAddress]}
=============================================================================
