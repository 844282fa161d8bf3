--------------------------- MODULE ConversationLog ---------------------------
(***************************************************************************)
(* What the conversation ledger promises: every conversation is an         *)
(* append-only log in which a turn asks at most once, is answered at most  *)
(* once and directly behind its question, and time does not run backwards. *)
(* ConversationTurns, the protocol of ai-runtime.service.ts over its two   *)
(* tables, implements it.                                                  *)
(***************************************************************************)
EXTENDS Integers, Sequences

CONSTANTS
  Conversations,
  Turns,           (* messages sent by users, each with its reply         *)
  Times            (* what a clock can show                               *)

VARIABLES
  log,             (* the entries of each conversation, in order          *)
  open             (* the conversations that exist                        *)

logVars == <<log, open>>

Init == log = [c \in Conversations |-> <<>>] /\ open = {}

Open(c) ==
  /\ open' = open \cup {c}
  /\ UNCHANGED log

(* Entries are added at the end, never before the time of the last one. *)
Add(c, entry) ==
  /\ c \in open
  /\ \A i \in 1..Len(log[c]) : log[c][i].at <= entry.at
  /\ log' = [log EXCEPT ![c] = Append(@, entry)]
  /\ UNCHANGED open

Ask(c, t) ==
  /\ \A i \in 1..Len(log[c]) : log[c][i].turn # t
  /\ \E s \in Times : Add(c, [turn |-> t, kind |-> "user", at |-> s])

Answer(c, t) ==
  /\ Len(log[c]) > 0
  /\ log[c][Len(log[c])].turn = t
  /\ log[c][Len(log[c])].kind = "user"
  /\ \E s \in Times : Add(c, [turn |-> t, kind |-> "assistant", at |-> s])

Next ==
  \E c \in Conversations :
    Open(c) \/ \E t \in Turns : Ask(c, t) \/ Answer(c, t)

Spec == Init /\ [][Next]_logVars
=============================================================================
