----------------------- MODULE ConversationTurnsProofs -----------------------
(***************************************************************************)
(* Proofs about ConversationTurns for any number of turns, creations,      *)
(* users and faults, and any last instant of the clock.                    *)
(***************************************************************************)
EXTENDS ConversationTurns, FiniteSetTheorems, SequenceTheorems, TLAPS

-----------------------------------------------------------------------------
(* The inductive invariant. *)

(* The rows of a conversation are numbered from 1 without a gap.            *)
Numbered == \A c \in Instants : \E n \in Nat : events[c] \in [1..n -> Entry]

(* The number a turn read was never ahead of the rows.                      *)
TurnsPlaced ==
  \A t \in Turns :
    /\ pc[t] \in {"new", "read"} => number[t] = 1
    /\ number[t] = 1 \/ number[t] - 1 \in DOMAIN Rows(t)

(* What a turn has stored, read off its step.                               *)
Holds(t, n, kind) ==
  n \in DOMAIN Rows(t) /\ Rows(t)[n].turn = t /\ Rows(t)[n].kind = kind

Stored ==
  \A t \in Turns :
    /\ pc[t] \in {"reply", "insertReply", "touch", "mark", "accepted"} =>
         Holds(t, number[t], "user")
    /\ pc[t] \in {"touch", "mark", "accepted"} =>
         Holds(t, number[t] + 1, "assistant")

(* Every row is where its turn put it, and its turn is past its insert.     *)
Asking == {"new", "read", "post", "insertUser"}
Replying == {"reply", "insertReply"}

Attributed(t, c, n, kind) ==
  /\ target[t] = c
  /\ pc[t] \notin Asking
  /\ kind = "user" => number[t] = n
  /\ kind = "assistant" => number[t] = n - 1 /\ pc[t] \notin Replying

Owned ==
  \A c \in Instants : \A n \in DOMAIN events[c] :
    Attributed(events[c][n].turn, c, n, events[c][n].kind)

(* Only conversations that exist have rows.                                 *)
RowsKnown == \A c \in Instants : DOMAIN events[c] # {} => owner[c] # NoUser

(* No time lies in the future, and a row about to be inserted is not older  *)
(* than the rows before its place.                                          *)
InTime ==
  /\ \A t \in Turns : at[t] <= now
  /\ \A c \in Instants : \A n \in DOMAIN events[c] : events[c][n].at <= now
  /\ \A t \in Turns : \A n \in DOMAIN Rows(t) :
       /\ pc[t] = "insertUser" /\ n < number[t] => Rows(t)[n].at <= at[t]
       /\ pc[t] = "insertReply" /\ n <= number[t] => Rows(t)[n].at <= at[t]

IInv ==
  /\ TypeOK /\ Numbered /\ TurnsPlaced /\ Stored /\ Owned /\ RowsKnown /\ InTime
  /\ RepliesFollow /\ TimesFollow /\ OvertakenByMessage

-----------------------------------------------------------------------------
LEMMA InitIInv == Init => IInv
  <1> SUFFICES ASSUME Init PROVE IInv
    OBVIOUS
  <1> USE TurnsAssumption
  <1>1. \A c \in Instants : events[c] = <<>> /\ DOMAIN events[c] = {}
    BY DEF Init
  <1>2. TypeOK
    BY <1>1 DEF Init, TypeOK, Instants, Steps
  <1>3. Numbered
    <2>1. <<>> \in [1..0 -> Entry]
      OBVIOUS
    <2>2. QED BY <1>1, <2>1 DEF Numbered
  <1>4. \A t \in Turns : target[t] \in Instants /\ pc[t] = "new" /\ number[t] = 1
    BY DEF Init, Instants
  <1>5. TurnsPlaced /\ Stored /\ OvertakenByMessage
    BY <1>4 DEF TurnsPlaced, Stored, OvertakenByMessage
  <1>6. Owned /\ RowsKnown /\ RepliesFollow /\ TimesFollow
    BY <1>1 DEF Owned, RowsKnown, RepliesFollow, TimesFollow
  <1>7. InTime
    <2>1. \A t \in Turns : at[t] <= now
      BY DEF Init
    <2>2. QED BY <1>1, <1>4, <2>1 DEF InTime, Rows
  <1>8. QED BY <1>2, <1>3, <1>5, <1>6, <1>7 DEF IInv

-----------------------------------------------------------------------------
(* The number getNextSequence computes from rows numbered 1 to n.           *)
LEMMA NextIsBehindLast ==
  ASSUME NEW c \in Instants, NEW n \in Nat, DOMAIN events[c] = 1..n
  PROVE  NextSequence(c) = n + 1
  <1> DEFINE Top(x) == \A m \in DOMAIN events[c] : m <= x
             latest == CHOOSE x \in DOMAIN events[c] \cup {0} : Top(x)
  <1>1. n \in DOMAIN events[c] \cup {0} /\ Top(n)
    OBVIOUS
  <1>2. latest \in DOMAIN events[c] \cup {0} /\ Top(latest)
    BY <1>1
  <1>3. latest = n
    BY <1>1, <1>2
  <1>4. NextSequence(c) = latest + 1
    BY DEF NextSequence
  <1>5. QED BY <1>3, <1>4

(* Steps that leave the rows alone and take one turn to another step.       *)
LEMMA RowsUntouched ==
  ASSUME IInv, events' = events
  PROVE  Numbered' /\ RepliesFollow' /\ TimesFollow'
  <1>1. Numbered'
    BY DEF IInv, Numbered
  <1>2. RepliesFollow'
    BY DEF IInv, RepliesFollow
  <1>3. TimesFollow'
    BY DEF IInv, TimesFollow
  <1>4. QED BY <1>1, <1>2, <1>3

(* Whose row a turn finds in its place.                                     *)
LostToMessage(t) ==
  IF UserMessageOf(t)
  THEN /\ number[t] + 1 \in DOMAIN Rows(t)
       /\ Rows(t)[number[t] + 1].kind = "user"
       /\ Rows(t)[number[t] + 1].turn # t
  ELSE number[t] \in DOMAIN Rows(t)

LEMMA PlaceTakenByMessage ==
  ASSUME IInv, NEW t \in Turns, Inserting(t), PlaceTaken(t)
  PROVE  LostToMessage(t)
  <1>1. target[t] \in Instants /\ number[t] \in Nat \ {0}
    BY DEF IInv, TypeOK
  <1>2. \A n \in DOMAIN Rows(t) :
          Attributed(Rows(t)[n].turn, target[t], n, Rows(t)[n].kind)
    BY <1>1 DEF IInv, Owned, Rows
  <1>3. CASE pc[t] = "insertUser"
    <2>1. number[t] \in DOMAIN Rows(t)
      BY <1>3 DEF PlaceTaken, Place, Rows
    <2>2. Rows(t)[number[t]].turn # t
      BY <1>2, <1>3, <2>1 DEF Attributed, Asking
    <2>3. QED BY <2>1, <2>2 DEF LostToMessage, UserMessageOf
  <1>4. CASE pc[t] = "insertReply"
    <2>1. UserMessageOf(t)
      BY <1>4 DEF IInv, Stored, Holds, UserMessageOf
    <2> DEFINE n == number[t] + 1
    <2>2. n \in DOMAIN Rows(t) /\ n \in Nat /\ n - 1 = number[t] /\ n # number[t]
      BY <1>1, <1>4 DEF PlaceTaken, Place, Rows
    <2>3. Rows(t)[n].kind \in {"user", "assistant"}
      BY <1>1, <2>2 DEF IInv, TypeOK, Entry, Rows
    <2>4. Rows(t)[n].turn # t
      BY <1>2, <1>4, <2>2, <2>3 DEF Attributed, Replying
    <2>5. Rows(t)[n].kind # "assistant"
      BY <1>1, <2>1, <2>2, <2>4 DEF IInv, RepliesFollow, Rows, UserMessageOf
    <2>6. QED BY <2>1, <2>2, <2>3, <2>4, <2>5 DEF LostToMessage
  <1>5. QED BY <1>3, <1>4 DEF Inserting

(* A turn that ends, or that has no row yet to insert: only pc changes.     *)
LEMMA TurnMoves ==
  ASSUME IInv, NEW t \in Turns, NEW to \in Steps \cup Ended,
         pc' = [pc EXCEPT ![t] = to],
         UNCHANGED <<now, owner, events, target, number, at>>,
         UNCHANGED creationVars,
         activity' \in [Instants -> Instants],
         faults' \in 0..MaxFaults,
         to \notin {"new", "read", "post", "insertUser", "reply", "insertReply"},
         pc[t] # "new",
         to \in {"touch", "mark", "accepted"} => pc[t] \in {"touch", "mark"},
         to = "overtaken" => PlaceTaken(t) /\ Inserting(t)
  PROVE  IInv'
  <1>1. TypeOK'
    BY DEF IInv, TypeOK, creationVars
  <1>2. Numbered' /\ RepliesFollow' /\ TimesFollow'
    BY RowsUntouched
  <1>3. pc \in [Turns -> Steps \cup Ended]
    BY DEF IInv, TypeOK
  <1>4. TurnsPlaced'
    BY <1>3 DEF IInv, TurnsPlaced, Rows
  <1>5. Stored'
    BY <1>3 DEF IInv, Stored, Holds, Rows
  <1>6. Owned'
    <2> SUFFICES ASSUME NEW c \in Instants, NEW n \in DOMAIN events[c]
                 PROVE  Attributed(events[c][n].turn, c, n, events[c][n].kind)'
      BY DEF Owned
    <2>1. Attributed(events[c][n].turn, c, n, events[c][n].kind)
      BY DEF IInv, Owned
    <2>2. events[c][n].turn \in Turns
      BY DEF IInv, TypeOK, Entry
    <2>3. QED BY <1>3, <2>1, <2>2 DEF Attributed, Asking, Replying
  <1>7. RowsKnown'
    BY DEF IInv, RowsKnown
  <1>8. InTime'
    BY <1>3 DEF IInv, InTime, Rows
  <1>9. OvertakenByMessage'
    <2>1. ASSUME NEW s \in Turns, pc'[s] = "overtaken"
          PROVE  LostToMessage(s)
      <3>1. CASE pc[s] = "overtaken"
        BY <3>1 DEF IInv, OvertakenByMessage, LostToMessage
      <3>2. CASE pc[s] # "overtaken"
        <4>1. s = t /\ to = "overtaken"
          BY <1>3, <2>1, <3>2
        <4>2. QED BY <4>1, PlaceTakenByMessage
      <3>3. QED BY <3>1, <3>2
    <2>2. \A s \in Turns : LostToMessage(s)' <=> LostToMessage(s)
      BY DEF LostToMessage, UserMessageOf, Rows
    <2>3. QED BY <2>1, <2>2 DEF OvertakenByMessage, LostToMessage
  <1>10. QED BY <1>1, <1>2, <1>4, <1>5, <1>6, <1>7, <1>8, <1>9 DEF IInv

-----------------------------------------------------------------------------
(* The steps that only move pc. *)
LEMMA MovesKeepIInv ==
  ASSUME IInv, NEW t \in Turns,
         Overtaken(t) \/ Clash(t) \/ Unknown(t) \/ LoseTurn(t) \/ MarkActivity(t)
  PROVE  IInv'
  <1> USE DEF Steps, Ended
  <1>1. /\ faults \in 0..MaxFaults /\ MaxFaults \in Nat
        /\ activity \in [Instants -> Instants]
        /\ target[t] \in Instants /\ at[t] \in Instants
    BY TurnsAssumption DEF IInv, TypeOK
  <1>2. CASE Overtaken(t)
    BY <1>1, <1>2, TurnMoves DEF Overtaken, Refuse, Inserting, tableVars
  <1>3. CASE Clash(t)
    BY <1>1, <1>3, TurnMoves DEF Clash, Refuse, Inserting, tableVars
  <1>4. CASE Unknown(t)
    BY <1>1, <1>4, TurnMoves DEF Unknown, Refuse, Inserting, tableVars
  <1>5. CASE LoseTurn(t)
    <2>1. faults' \in 0..MaxFaults
      BY <1>1, <1>5 DEF LoseTurn
    <2>2. QED BY <1>1, <1>5, <2>1, TurnMoves DEF LoseTurn, tableVars
  <1>6. CASE MarkActivity(t)
    <2>1. activity' \in [Instants -> Instants]
      BY <1>1, <1>6 DEF MarkActivity
    <2>2. QED BY <1>1, <1>6, <2>1, TurnMoves DEF MarkActivity, GoTo
  <1>7. QED BY <1>2, <1>3, <1>4, <1>5, <1>6


(* The clock and the creations leave the events and the turns alone.        *)
LEMMA TurnsUntouched ==
  ASSUME IInv, UNCHANGED <<events, turnVars>>
  PROVE  /\ Numbered' /\ TurnsPlaced' /\ Stored' /\ Owned'
         /\ RepliesFollow' /\ TimesFollow' /\ OvertakenByMessage'
  <1> USE DEF turnVars
  <1>1. Numbered' /\ RepliesFollow' /\ TimesFollow'
    BY RowsUntouched
  <1>2. TurnsPlaced'
    BY DEF IInv, TurnsPlaced, Rows
  <1>3. Stored'
    BY DEF IInv, Stored, Holds, Rows
  <1>4. Owned'
    BY DEF IInv, Owned, Attributed
  <1>5. OvertakenByMessage'
    BY DEF IInv, OvertakenByMessage, UserMessageOf, Rows
  <1>6. QED BY <1>1, <1>2, <1>3, <1>4, <1>5

LEMMA TickKeepsIInv == IInv /\ Tick => IInv'
  <1> SUFFICES ASSUME IInv, Tick PROVE IInv'
    OBVIOUS
  <1> USE DEF Tick, tableVars, turnVars, creationVars
  <1>1. now \in Instants /\ MaxTime \in Nat /\ now' \in Instants /\ now' >= now
    BY TurnsAssumption DEF IInv, TypeOK, Instants
  <1>2. TypeOK'
    BY <1>1 DEF IInv, TypeOK
  <1>3. RowsKnown'
    BY DEF IInv, RowsKnown
  <1>4. InTime'
    <2>1. \A c \in Instants : \A n \in DOMAIN events[c] : events[c][n].at \in Nat
      BY <1>1 DEF IInv, TypeOK, Entry, Instants
    <2>2. \A c \in Instants : \A n \in DOMAIN events[c] : events[c][n].at <= now'
      BY <1>1, <2>1 DEF IInv, InTime, Instants
    <2>3. \A t \in Turns : at[t] <= now'
      BY <1>1 DEF IInv, TypeOK, InTime, Instants
    <2>4. QED BY <2>2, <2>3 DEF IInv, InTime, Rows
  <1>5. QED BY <1>2, <1>3, <1>4, TurnsUntouched DEF IInv

LEMMA CreationKeepsIInv ==
  ASSUME IInv, NEW r \in Creations, CreationStep(r) \/ LoseCreation(r)
  PROVE  IInv'
  <1> USE DEF tableVars, turnVars, creationVars
  <1>1. /\ owner \in [Instants -> Users \cup {NoUser}]
        /\ activity \in [Instants -> Instants]
        /\ cpc \in [Creations -> {"new", "save", "created", "lost"}]
        /\ asker \in [Creations -> Users \cup {NoUser}]
        /\ key \in [Creations -> Instants]
        /\ now \in Instants
        /\ faults \in 0..MaxFaults /\ MaxFaults \in Nat
    BY TurnsAssumption DEF IInv, TypeOK
  <1>2. CASE \E u \in Users : BeginCreation(r, u)
    <2>1. TypeOK'
      BY <1>1, <1>2 DEF IInv, TypeOK, BeginCreation
    <2>2. RowsKnown' /\ InTime'
      BY <1>2 DEF IInv, RowsKnown, InTime, Rows, BeginCreation
    <2>3. UNCHANGED <<events, turnVars>>
      BY <1>2 DEF BeginCreation
    <2>4. QED BY <2>1, <2>2, <2>3, TurnsUntouched DEF IInv
  <1>3. CASE SaveConversation(r)
    <2> DEFINE u == OwnerAfterSave(key[r], asker[r])
    <2>1. u \in Users \cup {NoUser}
      BY <1>1 DEF OwnerAfterSave
    <2>2. owner' = [owner EXCEPT ![key[r]] = u]
      BY <1>3 DEF SaveConversation
    <2>3. owner[key[r]] # NoUser => u # NoUser
      BY DEF OwnerAfterSave
    <2> HIDE DEF u
    <2>4. TypeOK'
      BY <1>1, <1>3, <2>1, <2>2 DEF IInv, TypeOK, SaveConversation
    <2>5. RowsKnown'
      BY <1>1, <1>3, <2>2, <2>3 DEF IInv, RowsKnown, SaveConversation
    <2>6. InTime'
      BY <1>3 DEF IInv, InTime, Rows, SaveConversation
    <2>7. UNCHANGED <<events, turnVars>>
      BY <1>3 DEF SaveConversation
    <2>8. QED BY <2>4, <2>5, <2>6, <2>7, TurnsUntouched DEF IInv
  <1>4. CASE LoseCreation(r)
    <2>1. TypeOK'
      BY <1>1, <1>4 DEF IInv, TypeOK, LoseCreation
    <2>2. RowsKnown' /\ InTime'
      BY <1>4 DEF IInv, RowsKnown, InTime, Rows, LoseCreation
    <2>3. UNCHANGED <<events, turnVars>>
      BY <1>4 DEF LoseCreation
    <2>4. QED BY <2>1, <2>2, <2>3, TurnsUntouched DEF IInv
  <1>5. QED BY <1>2, <1>3, <1>4 DEF CreationStep

-----------------------------------------------------------------------------
(* The steps of a turn before and between its inserts. *)

(* A row's turn is not one that is still asking.                            *)
LEMMA AskersOwnNothing ==
  ASSUME IInv, NEW t \in Turns, pc[t] \in Asking,
         NEW c \in Instants, NEW n \in DOMAIN events[c]
  PROVE  events[c][n].turn # t
  BY DEF IInv, Owned, Attributed

LEMMA StartKeepsIInv ==
  ASSUME IInv, NEW t \in Turns, NEW c \in Instants, Start(t, c)
  PROVE  IInv'
  <1> USE DEF Start, GoTo, tableVars, creationVars
  <1>1. /\ pc \in [Turns -> Steps \cup Ended]
        /\ target \in [Turns -> Instants]
        /\ pc[t] = "new" /\ number[t] = 1
    BY DEF IInv, TypeOK, TurnsPlaced
  <1>2. TypeOK'
    BY <1>1 DEF IInv, TypeOK, Steps
  <1>3. Numbered' /\ RepliesFollow' /\ TimesFollow'
    BY RowsUntouched
  <1>4. TurnsPlaced'
    BY <1>1 DEF IInv, TurnsPlaced, Rows
  <1>5. Stored'
    BY <1>1 DEF IInv, Stored, Holds, Rows
  <1>6. Owned'
    <2> SUFFICES ASSUME NEW d \in Instants, NEW n \in DOMAIN events[d]
                 PROVE  Attributed(events[d][n].turn, d, n, events[d][n].kind)'
      BY DEF Owned
    <2>1. /\ Attributed(events[d][n].turn, d, n, events[d][n].kind)
          /\ events[d][n].turn \in Turns
      BY DEF IInv, Owned, TypeOK, Entry
    <2>2. events[d][n].turn # t
      BY <1>1, AskersOwnNothing DEF Asking
    <2>3. QED BY <1>1, <2>1, <2>2 DEF Attributed
  <1>7. RowsKnown'
    BY DEF IInv, RowsKnown
  <1>8. InTime'
    BY <1>1 DEF IInv, InTime, Rows
  <1>9. OvertakenByMessage'
    BY <1>1 DEF IInv, OvertakenByMessage, UserMessageOf, Rows
  <1>10. QED BY <1>2, <1>3, <1>4, <1>5, <1>6, <1>7, <1>8, <1>9 DEF IInv

LEMMA ReadNextKeepsIInv ==
  ASSUME IInv, NEW t \in Turns, ReadNext(t)
  PROVE  IInv'
  <1> USE DEF ReadNext, GoTo, tableVars, creationVars
  <1>1. /\ pc \in [Turns -> Steps \cup Ended]
        /\ target[t] \in Instants
        /\ number \in [Turns -> Nat \ {0}]
        /\ pc[t] = "read"
    BY DEF IInv, TypeOK
  <1>2. PICK n \in Nat : DOMAIN Rows(t) = 1..n
    BY <1>1 DEF IInv, Numbered, Rows
  <1>3. NextSequence(target[t]) = n + 1
    BY <1>1, <1>2, NextIsBehindLast DEF Rows
  <1>4. number' = [number EXCEPT ![t] = n + 1]
    BY <1>3
  <1>5. TypeOK'
    BY <1>1, <1>4 DEF IInv, TypeOK, Steps
  <1>6. Numbered' /\ RepliesFollow' /\ TimesFollow'
    BY RowsUntouched
  <1>7. TurnsPlaced'
    <2>1. n + 1 = 1 \/ (n + 1) - 1 \in DOMAIN Rows(t)
      BY <1>2
    <2>2. QED BY <1>1, <1>4, <2>1 DEF IInv, TurnsPlaced, Rows
  <1>8. Stored'
    BY <1>1, <1>4 DEF IInv, Stored, Holds, Rows
  <1>9. Owned'
    <2> SUFFICES ASSUME NEW d \in Instants, NEW m \in DOMAIN events[d]
                 PROVE  Attributed(events[d][m].turn, d, m, events[d][m].kind)'
      BY DEF Owned
    <2>1. /\ Attributed(events[d][m].turn, d, m, events[d][m].kind)
          /\ events[d][m].turn \in Turns
      BY DEF IInv, Owned, TypeOK, Entry
    <2>2. events[d][m].turn # t
      BY <1>1, AskersOwnNothing DEF Asking
    <2>3. QED BY <1>1, <1>4, <2>1, <2>2 DEF Attributed
  <1>10. RowsKnown'
    BY DEF IInv, RowsKnown
  <1>11. InTime'
    BY <1>1, <1>4 DEF IInv, InTime, Rows
  <1>12. OvertakenByMessage'
    BY <1>1, <1>4 DEF IInv, OvertakenByMessage, UserMessageOf, Rows
  <1>13. QED BY <1>5, <1>6, <1>7, <1>8, <1>9, <1>10, <1>11, <1>12 DEF IInv

LEMMA IssueKeepsIInv ==
  ASSUME IInv, NEW t \in Turns, Issue(t)
  PROVE  IInv'
  <1> USE DEF Issue, tableVars, creationVars
  <1>1. /\ pc \in [Turns -> Steps \cup Ended]
        /\ at \in [Turns -> Instants] /\ now \in Instants
        /\ target \in [Turns -> Instants]
    BY DEF IInv, TypeOK
  <1>2. PICK to \in {"insertUser", "insertReply", "mark"} :
          /\ pc' = [pc EXCEPT ![t] = to]
          /\ pc[t] = IF to = "insertUser" THEN "post"
                     ELSE IF to = "insertReply" THEN "reply" ELSE "touch"
    BY DEF GoTo
  <1>3. TypeOK'
    BY <1>1, <1>2 DEF IInv, TypeOK, Steps
  <1>4. Numbered' /\ RepliesFollow' /\ TimesFollow'
    BY RowsUntouched
  <1>5. TurnsPlaced'
    BY <1>1, <1>2 DEF IInv, TurnsPlaced, Rows
  <1>6. Stored'
    BY <1>1, <1>2 DEF IInv, Stored, Holds, Rows
  <1>7. Owned'
    <2> SUFFICES ASSUME NEW d \in Instants, NEW m \in DOMAIN events[d]
                 PROVE  Attributed(events[d][m].turn, d, m, events[d][m].kind)'
      BY DEF Owned
    <2>1. /\ Attributed(events[d][m].turn, d, m, events[d][m].kind)
          /\ events[d][m].turn \in Turns
      BY DEF IInv, Owned, TypeOK, Entry
    <2>2. QED BY <1>1, <1>2, <2>1 DEF Attributed, Asking, Replying
  <1>8. RowsKnown'
    BY DEF IInv, RowsKnown
  <1>9. InTime'
    <2>1. \A n \in DOMAIN Rows(t) : Rows(t)[n].at <= now
      BY <1>1 DEF IInv, InTime, Rows
    <2>2. now <= now
      BY <1>1 DEF Instants
    <2>3. QED BY <1>1, <1>2, <2>1, <2>2 DEF IInv, InTime, Rows
  <1>10. OvertakenByMessage'
    BY <1>1, <1>2 DEF IInv, OvertakenByMessage, UserMessageOf, Rows
  <1>11. QED
    BY <1>3, <1>4, <1>5, <1>6, <1>7, <1>8, <1>9, <1>10 DEF IInv


-----------------------------------------------------------------------------
(* The inserts. *)

NewRow(t) == [turn |-> t, kind |-> Kind(t), at |-> at[t]]

(* A row behind n rows, as a function and as a sequence.                    *)
LEMMA Lengthened ==
  ASSUME NEW n \in Nat, NEW rows \in [1..n -> Entry], NEW e \in Entry
  PROVE  /\ WithRow(rows, n + 1, e) \in [1..(n + 1) -> Entry]
         /\ rows \in Seq(Entry) /\ Len(rows) = n
         /\ WithRow(rows, n + 1, e) = Append(rows, e)
  <1>1. WithRow(rows, n + 1, e) = [i \in 1..(n + 1) |-> IF i = n + 1 THEN e ELSE rows[i]]
    <2>1. DOMAIN rows \cup {n + 1} = 1..(n + 1)
      OBVIOUS
    <2>2. QED BY <2>1 DEF WithRow
  <1>2. rows \in Seq(Entry) /\ Len(rows) = n
    <2>1. rows \in Seq(Entry)
      BY SeqDef
    <2>2. Len(rows) \in Nat /\ DOMAIN rows = 1..Len(rows)
      BY <2>1, LenProperties
    <2>3. QED BY <2>1, <2>2
  <1>3. WithRow(rows, n + 1, e) \in [1..(n + 1) -> Entry]
    BY <1>1
  <1>4. WithRow(rows, n + 1, e) = Append(rows, e)
    BY <1>1, <1>2
  <1>5. QED BY <1>2, <1>3, <1>4

(* An insert that succeeds lengthens the rows of its conversation by one.   *)
LEMMA InsertExtends ==
  ASSUME IInv, NEW t \in Turns, Insert(t)
  PROVE  /\ target[t] \in Instants
         /\ NewRow(t) \in Entry
         /\ \E n \in Nat :
              /\ DOMAIN Rows(t) = 1..n
              /\ Place(t) = n + 1
              /\ pc[t] = "insertUser" => number[t] = n + 1
              /\ pc[t] = "insertReply" => number[t] = n
         /\ \E n \in Nat :
              Rows(t) \in [1..n -> Entry] /\ Place(t) = n + 1
         /\ events'[target[t]] = WithRow(Rows(t), Place(t), NewRow(t))
         /\ DOMAIN events' = Instants
         /\ \A c \in Instants : c # target[t] => events'[c] = events[c]
         /\ DOMAIN events'[target[t]] = DOMAIN Rows(t) \cup {Place(t)}
         /\ \A n \in DOMAIN Rows(t) :
              n # Place(t) /\ events'[target[t]][n] = Rows(t)[n]
         /\ events'[target[t]][Place(t)] = NewRow(t)
  <1>1. /\ target[t] \in Instants /\ at[t] \in Instants
        /\ number[t] \in Nat \ {0}
        /\ DOMAIN events = Instants
        /\ pc[t] \in {"insertUser", "insertReply"}
    BY DEF IInv, TypeOK, Insert, GoTo
  <1>2. NewRow(t) \in Entry
    BY <1>1 DEF NewRow, Entry, Kind
  <1>3. PICK n \in Nat : Rows(t) \in [1..n -> Entry] /\ DOMAIN Rows(t) = 1..n
    BY <1>1 DEF IInv, Numbered, Rows
  <1>4. Place(t) \notin DOMAIN Rows(t)
    BY DEF Insert, PlaceTaken, Rows
  <1>5. number[t] = 1 \/ number[t] - 1 \in DOMAIN Rows(t)
    BY DEF IInv, TurnsPlaced
  <1>6. /\ Place(t) = n + 1
        /\ pc[t] = "insertUser" => number[t] = n + 1
        /\ pc[t] = "insertReply" => number[t] = n
    <2>1. CASE pc[t] = "insertUser"
      <3>1. Place(t) = number[t]
        BY <2>1 DEF Place
      <3>2. QED BY <1>1, <1>3, <1>4, <1>5, <2>1, <3>1
    <2>2. CASE pc[t] = "insertReply"
      <3>1. Place(t) = number[t] + 1
        BY <2>2 DEF Place
      <3>2. number[t] \in DOMAIN Rows(t)
        BY <2>2 DEF IInv, Stored, Holds
      <3>3. QED BY <1>1, <1>3, <1>4, <2>2, <3>1, <3>2
    <2>3. QED BY <1>1, <2>1, <2>2
  <1>7. events' = [events EXCEPT ![target[t]] = WithRow(Rows(t), Place(t), NewRow(t))]
    BY DEF Insert, Rows, NewRow
  <1>8. /\ DOMAIN WithRow(Rows(t), Place(t), NewRow(t)) = DOMAIN Rows(t) \cup {Place(t)}
        /\ \A m \in DOMAIN Rows(t) :
             m # Place(t) /\ WithRow(Rows(t), Place(t), NewRow(t))[m] = Rows(t)[m]
        /\ WithRow(Rows(t), Place(t), NewRow(t))[Place(t)] = NewRow(t)
    BY <1>4 DEF WithRow
  <1>9. QED BY <1>1, <1>2, <1>3, <1>6, <1>7, <1>8

LEMMA InsertKeepsIInv ==
  ASSUME IInv, NEW t \in Turns, Insert(t)
  PROVE  IInv'
  <1> DEFINE c0 == target[t]
             p == Place(t)
             e == NewRow(t)
  <1>1. /\ pc \in [Turns -> Steps \cup Ended]
        /\ number \in [Turns -> Nat \ {0}]
        /\ target \in [Turns -> Instants]
        /\ at \in [Turns -> Instants]
        /\ UNCHANGED <<now, owner, activity, target, number, at, creationVars, faults>>
    BY DEF IInv, TypeOK, Insert
  <1>2. PICK n \in Nat :
          /\ DOMAIN Rows(t) = 1..n
          /\ p = n + 1
          /\ pc[t] = "insertUser" => number[t] = n + 1
          /\ pc[t] = "insertReply" => number[t] = n
    BY InsertExtends
  <1>3. /\ c0 \in Instants /\ e \in Entry
        /\ DOMAIN events' = Instants
        /\ \A c \in Instants : c # c0 => events'[c] = events[c]
        /\ events[c0] = Rows(t)
        /\ DOMAIN events'[c0] = 1..(n + 1)
        /\ \A m \in 1..n : events'[c0][m] = events[c0][m]
        /\ events'[c0][n + 1] = e
    <2>1. Rows(t) = events[c0]
      BY DEF Rows
    <2>2. DOMAIN events'[c0] = 1..n \cup {n + 1}
      BY <1>2, InsertExtends
    <2>3. QED BY <1>2, <2>1, <2>2, InsertExtends
  <1>4. /\ e.turn = t /\ e.at = at[t]
        /\ pc[t] = "insertUser" => e.kind = "user" /\ pc' = [pc EXCEPT ![t] = "reply"]
        /\ pc[t] = "insertReply" => e.kind = "assistant" /\ pc' = [pc EXCEPT ![t] = "touch"]
        /\ pc[t] \in {"insertUser", "insertReply"}
    BY DEF NewRow, Kind, Insert, GoTo
  <1>5. PICK to \in {"reply", "touch"} :
          /\ pc' = [pc EXCEPT ![t] = to]
          /\ pc[t] = IF to = "reply" THEN "insertUser" ELSE "insertReply"
    BY <1>4
  <1> HIDE DEF c0, p, e
  <1>6. \A c \in Instants : \A m \in DOMAIN events[c] :
          m \in DOMAIN events'[c] /\ events'[c][m] = events[c][m]
    <2>1. DOMAIN events[c0] = 1..n
      BY <1>2, <1>3
    <2>2. QED BY <1>3, <2>1
  <1>7. \A c \in Instants : \A m \in DOMAIN events'[c] :
          m \in DOMAIN events[c] \/ (c = c0 /\ m = n + 1 /\ events'[c][m] = e)
    <2>1. DOMAIN events[c0] = 1..n
      BY <1>2, <1>3
    <2>2. QED BY <1>3, <2>1
  <1>8. TypeOK'
    <2>1. \A c \in Instants : \A m \in DOMAIN events'[c] :
            m \in Nat \ {0} /\ events'[c][m] \in Entry
      <3> SUFFICES ASSUME NEW c \in Instants, NEW m \in DOMAIN events'[c]
                   PROVE  m \in Nat \ {0} /\ events'[c][m] \in Entry
        OBVIOUS
      <3>1. CASE m \in DOMAIN events[c]
        BY <1>6, <3>1 DEF IInv, TypeOK
      <3>2. CASE m \notin DOMAIN events[c]
        BY <1>3, <1>7, <3>2
      <3>3. QED BY <3>1, <3>2
    <2>2. pc' \in [Turns -> Steps \cup Ended]
      BY <1>1, <1>5 DEF Steps
    <2>3. QED BY <1>1, <1>3, <2>1, <2>2 DEF IInv, TypeOK, creationVars
  <1>9. Numbered'
    <2>1. PICK k \in Nat : Rows(t) \in [1..k -> Entry] /\ p = k + 1
      BY InsertExtends DEF p
    <2>2. WithRow(Rows(t), k + 1, e) \in [1..(k + 1) -> Entry]
      BY <1>3, <2>1, Lengthened
    <2>3. events'[c0] \in [1..(k + 1) -> Entry] /\ k + 1 \in Nat
      BY <2>1, <2>2, InsertExtends DEF p, e, c0
    <2>4. QED BY <1>3, <2>3 DEF IInv, Numbered
  <1>10. TurnsPlaced'
    BY <1>1, <1>5, <1>6 DEF IInv, TurnsPlaced, Rows
  <1>11. \A s \in Turns, m \in Nat, k \in {"user", "assistant"} :
           Holds(s, m, k) => Holds(s, m, k)'
    BY <1>1, <1>6 DEF Holds, Rows
  <1>12. Stored'
    <2>1. pc[t] = "insertUser" => Holds(t, number[t], "user")'
      BY <1>1, <1>2, <1>3, <1>4 DEF Holds, Rows, c0
    <2>2. pc[t] = "insertReply" => Holds(t, number[t] + 1, "assistant")'
      BY <1>1, <1>2, <1>3, <1>4 DEF Holds, Rows, c0
    <2>3. pc[t] = "insertReply" => Holds(t, number[t], "user")
      BY DEF IInv, Stored
    <2>4. \A s \in Turns : number[s] \in Nat /\ number[s] + 1 \in Nat
      BY <1>1
    <2> SUFFICES ASSUME NEW s \in Turns
        PROVE  /\ pc'[s] \in {"reply", "insertReply", "touch", "mark", "accepted"} =>
                    Holds(s, number[s], "user")'
               /\ pc'[s] \in {"touch", "mark", "accepted"} =>
                    Holds(s, number[s] + 1, "assistant")'
      BY <1>1 DEF Stored
    <2>5. CASE s = t
      BY <1>1, <1>5, <1>11, <2>1, <2>2, <2>3, <2>4, <2>5
    <2>6. CASE s # t
      BY <1>1, <1>5, <1>11, <2>4, <2>6 DEF IInv, Stored
    <2>7. QED BY <2>5, <2>6
  <1>13. Owned'
    <2> SUFFICES ASSUME NEW d \in Instants, NEW m \in DOMAIN events'[d]
                 PROVE  Attributed(events[d][m].turn, d, m, events[d][m].kind)'
      BY DEF Owned
    <2>1. CASE m \in DOMAIN events[d]
      <3>1. events'[d][m] = events[d][m]
        BY <1>6, <2>1
      <3>2. /\ Attributed(events[d][m].turn, d, m, events[d][m].kind)
            /\ events[d][m].turn \in Turns
        BY <2>1 DEF IInv, Owned, TypeOK, Entry
      <3>3. events[d][m].turn = t => pc[t] = "insertReply" /\ events[d][m].kind # "assistant"
        <4>1. events[d][m].kind \in {"user", "assistant"}
          BY <2>1 DEF IInv, TypeOK, Entry
        <4>2. QED BY <1>4, <3>2, <4>1 DEF Attributed, Asking, Replying
      <3>4. QED BY <1>1, <1>5, <3>1, <3>2, <3>3 DEF Attributed, Asking, Replying
    <2>2. CASE m \notin DOMAIN events[d]
      <3>1. d = c0 /\ m = n + 1 /\ events'[d][m] = e
        BY <1>7, <2>2
      <3>2. target[t] = c0 /\ number[t] \in Nat
        BY <1>1 DEF c0
      <3>3. QED
        BY <1>1, <1>2, <1>4, <1>5, <3>1, <3>2 DEF Attributed, Asking, Replying
    <2>3. QED BY <2>1, <2>2
  <1>14. RowsKnown'
    <2>1. owner[c0] # NoUser
      BY DEF Insert, Known, c0
    <2>2. QED BY <1>1, <1>3, <2>1 DEF IInv, RowsKnown
  <1>15. \A m \in 1..n : events[c0][m].at <= at[t]
    <2>1. \A m \in 1..n : m \in DOMAIN Rows(t) /\ m < n + 1 /\ m <= n
      BY <1>2
    <2>2. QED BY <1>2, <1>3, <1>4, <2>1 DEF IInv, InTime
  <1>16. InTime'
    <2>1. \A s \in Turns : at[s] <= now
      BY DEF IInv, InTime
    <2>2. \A d \in Instants : \A m \in DOMAIN events'[d] : events'[d][m].at <= now
      BY <1>4, <1>6, <1>7, <2>1 DEF IInv, InTime
    <2>3. ASSUME NEW s \in Turns, NEW m \in DOMAIN Rows(s)'
          PROVE  /\ pc'[s] = "insertUser" /\ m < number[s] => events'[target[s]][m].at <= at[s]
                 /\ pc'[s] = "insertReply" /\ m <= number[s] => events'[target[s]][m].at <= at[s]
      <3>1. CASE s = t
        BY <1>1, <1>5, <3>1
      <3>2. CASE s # t /\ m \in DOMAIN Rows(s)
        <4>1. events'[target[s]][m] = Rows(s)[m]
          BY <1>1, <1>6, <3>2 DEF Rows
        <4>2. pc'[s] = pc[s]
          BY <1>1, <1>5, <3>2
        <4>3. QED BY <3>2, <4>1, <4>2 DEF IInv, InTime
      <3>3. CASE s # t /\ m \notin DOMAIN Rows(s)
        <4>1. target[s] = c0 /\ m = n + 1
          BY <1>1, <1>7, <3>3 DEF Rows
        <4>2. DOMAIN Rows(s) = 1..n
          BY <1>2, <1>3, <4>1 DEF Rows
        <4>3. number[s] \in Nat /\ (number[s] = 1 \/ number[s] - 1 \in 1..n)
          BY <1>1, <4>2 DEF IInv, TurnsPlaced
        <4>4. pc[s] = "insertReply" => number[s] \in 1..n
          BY <4>2 DEF IInv, Stored, Holds
        <4>5. pc'[s] = pc[s]
          BY <1>1, <1>5, <3>3
        <4>6. QED BY <4>1, <4>3, <4>4, <4>5
      <3>4. QED BY <3>1, <3>2, <3>3
    <2>4. QED BY <1>1, <2>1, <2>2, <2>3 DEF InTime, Rows
  <1>17. RepliesFollow'
    <2> SUFFICES ASSUME NEW d \in Instants, NEW m \in DOMAIN events'[d],
                        events'[d][m].kind = "assistant"
                 PROVE  /\ m - 1 \in DOMAIN events'[d]
                        /\ events'[d][m - 1].kind = "user"
                        /\ events'[d][m - 1].turn = events'[d][m].turn
      BY DEF RepliesFollow
    <2>1. CASE m \in DOMAIN events[d]
      <3>1. events'[d][m] = events[d][m]
        BY <1>6, <2>1
      <3>2. /\ m - 1 \in DOMAIN events[d]
            /\ events[d][m - 1].kind = "user"
            /\ events[d][m - 1].turn = events[d][m].turn
        BY <2>1, <3>1 DEF IInv, RepliesFollow
      <3>3. QED BY <1>6, <3>1, <3>2
    <2>2. CASE m \notin DOMAIN events[d]
      <3>1. d = c0 /\ m = n + 1 /\ events'[d][m] = e
        BY <1>7, <2>2
      <3>2. pc[t] = "insertReply" /\ number[t] = n
        BY <1>2, <1>4, <3>1
      <3>3. Holds(t, n, "user")
        BY <3>2 DEF IInv, Stored
      <3>4. n \in DOMAIN events[c0] /\ events[c0][n].turn = t /\ events[c0][n].kind = "user"
        BY <1>3, <3>3 DEF Holds
      <3>5. m - 1 = n
        BY <3>1
      <3>6. QED BY <1>3, <1>4, <1>6, <3>1, <3>4, <3>5
    <2>3. QED BY <2>1, <2>2
  <1>18. TimesFollow'
    <2> SUFFICES ASSUME NEW d \in Instants, NEW k \in DOMAIN events'[d],
                        NEW m \in DOMAIN events'[d], k < m
                 PROVE  events'[d][k].at <= events'[d][m].at
      BY DEF TimesFollow
    <2>1. CASE m \in DOMAIN events[d] /\ k \in DOMAIN events[d]
      BY <1>6, <2>1 DEF IInv, TimesFollow
    <2>2. CASE d = c0 /\ m = n + 1 /\ m \notin DOMAIN events[d]
      <3>1. k \in 1..n
        BY <1>3, <2>2
      <3>2. events'[d][k] = events[c0][k] /\ events'[d][m] = e
        BY <1>3, <2>2, <3>1
      <3>3. QED BY <1>4, <1>15, <3>1, <3>2
    <2>3. CASE d = c0 /\ k = n + 1
      BY <1>3, <2>3
    <2>4. QED BY <1>7, <2>1, <2>2, <2>3
  <1>19. OvertakenByMessage'
    <2> SUFFICES ASSUME NEW s \in Turns, pc'[s] = "overtaken"
                 PROVE  LostToMessage(s)'
      BY DEF OvertakenByMessage, LostToMessage
    <2>1. s # t /\ pc[s] = "overtaken"
      BY <1>1, <1>5
    <2>2. LostToMessage(s)
      BY <2>1 DEF IInv, OvertakenByMessage, LostToMessage
    <2>3. number[s] \in DOMAIN Rows(s)
      BY <2>2 DEF LostToMessage, UserMessageOf
    <2>4. UserMessageOf(s)' <=> UserMessageOf(s)
      BY <1>1, <1>6, <2>3 DEF UserMessageOf, Rows
    <2>5. QED BY <1>1, <1>6, <2>2, <2>3, <2>4 DEF LostToMessage, Rows
  <1>20. QED BY <1>8, <1>9, <1>10, <1>12, <1>13, <1>14, <1>16, <1>17, <1>18, <1>19 DEF IInv

-----------------------------------------------------------------------------
LEMMA StutterKeepsIInv == IInv /\ UNCHANGED vars => IInv'
  <1> SUFFICES ASSUME IInv, UNCHANGED vars PROVE IInv'
    OBVIOUS
  <1> USE DEF vars, tableVars, turnVars, creationVars
  <1>1. TypeOK'
    BY DEF IInv, TypeOK
  <1>2. RowsKnown' /\ InTime'
    BY DEF IInv, RowsKnown, InTime, Rows
  <1>3. UNCHANGED <<events, turnVars>>
    OBVIOUS
  <1>4. QED BY <1>1, <1>2, <1>3, TurnsUntouched DEF IInv

LEMMA Inductive == IInv /\ [Next]_vars => IInv'
  <1> SUFFICES ASSUME IInv, [Next]_vars PROVE IInv'
    OBVIOUS
  <1>1. ASSUME NEW t \in Turns, TurnStep(t) \/ LoseTurn(t) PROVE IInv'
    BY <1>1, MovesKeepIInv, StartKeepsIInv, ReadNextKeepsIInv, IssueKeepsIInv,
       InsertKeepsIInv DEF TurnStep
  <1>2. ASSUME NEW r \in Creations, CreationStep(r) \/ LoseCreation(r) PROVE IInv'
    BY <1>2, CreationKeepsIInv
  <1>3. QED BY <1>1, <1>2, TickKeepsIInv, StutterKeepsIInv DEF Next

LEMMA IInvAlways == Spec => []IInv
  BY InitIInv, Inductive, PTL DEF Spec

(* The tables and the requests keep their types.                            *)
THEOREM TypeCorrect == Spec => []TypeOK
  <1>1. IInv => TypeOK
    BY DEF IInv
  <1>2. QED BY <1>1, IInvAlways, PTL

(* The numbers of a conversation's events have no gap.                      *)
THEOREM SequencesContiguous == Spec => []SequenceContiguous
  <1>1. IInv => SequenceContiguous
    <2> SUFFICES ASSUME IInv, NEW c \in Instants
                 PROVE  DOMAIN events[c] = 1..Cardinality(DOMAIN events[c])
      BY DEF SequenceContiguous
    <2>1. PICK n \in Nat : DOMAIN events[c] = 1..n
      BY DEF IInv, Numbered
    <2>2. Cardinality(1..n) = n
      BY FS_Interval
    <2>3. QED BY <2>1, <2>2
  <1>2. QED BY <1>1, IInvAlways, PTL

(* A reply stands directly behind its message.                              *)
THEOREM RepliesAreAdjacent == Spec => []RepliesFollow
  <1>1. IInv => RepliesFollow
    BY DEF IInv
  <1>2. QED BY <1>1, IInvAlways, PTL

(* The order of the numbers is the order of the times.                      *)
THEOREM TimesAreOrdered == Spec => []TimesFollow
  <1>1. IInv => TimesFollow
    BY DEF IInv
  <1>2. QED BY <1>1, IInvAlways, PTL

(* An accepted turn is recorded whole.                                      *)
THEOREM AcceptedAreWhole == Spec => []AcceptedWhole
  <1>1. IInv => AcceptedWhole
    BY DEF IInv, Stored, AcceptedWhole, Holds, UserMessageOf
  <1>2. QED BY <1>1, IInvAlways, PTL

(* A turn is overtaken only by a message of its own conversation.           *)
THEOREM OvertakenFairly == Spec => []OvertakenByMessage
  <1>1. IInv => OvertakenByMessage
    BY DEF IInv
  <1>2. QED BY <1>1, IInvAlways, PTL

-----------------------------------------------------------------------------
(* What no step changes. *)

(* Rows stay as they were inserted.                                         *)
LEMMA RowsStay ==
  ASSUME IInv, [Next]_vars, NEW c \in Instants, NEW n \in DOMAIN events[c]
  PROVE  n \in DOMAIN events'[c] /\ events'[c][n] = events[c][n]
  <1>1. ASSUME NEW t \in Turns, Insert(t)
        PROVE  n \in DOMAIN events'[c] /\ events'[c][n] = events[c][n]
    BY <1>1, InsertExtends DEF Rows
  <1>2. ASSUME NEW t \in Turns,
               \/ \E d \in Instants : Start(t, d)
               \/ ReadNext(t) \/ Issue(t) \/ MarkActivity(t)
               \/ Overtaken(t) \/ Clash(t) \/ Unknown(t) \/ LoseTurn(t)
        PROVE  UNCHANGED events
    BY <1>2 DEF Start, ReadNext, Issue, MarkActivity, Overtaken, Clash, Unknown,
                Refuse, LoseTurn, tableVars
  <1>3. ASSUME \/ \E r \in Creations : CreationStep(r) \/ LoseCreation(r)
               \/ Tick \/ UNCHANGED vars
        PROVE  UNCHANGED events
    BY <1>3 DEF CreationStep, BeginCreation, SaveConversation, LoseCreation, Tick, vars,
                tableVars
  <1>4. QED BY <1>1, <1>2, <1>3 DEF Next, TurnStep

(* A turn that has ended keeps its state, and gets no row any more.         *)
LEMMA EndedStays ==
  ASSUME IInv, [Next]_vars, NEW s \in Turns, pc[s] \in Ended
  PROVE  /\ target'[s] = target[s] /\ number'[s] = number[s] /\ at'[s] = at[s]
         /\ pc'[s] = pc[s]
         /\ UserMessageOf(s)' <=> UserMessageOf(s)
  <1> DEFINE Kept == /\ target'[s] = target[s] /\ number'[s] = number[s]
                     /\ at'[s] = at[s] /\ pc'[s] = pc[s]
  <1>1. /\ pc \in [Turns -> Steps \cup Ended] /\ target \in [Turns -> Instants]
        /\ number \in [Turns -> Nat \ {0}] /\ at \in [Turns -> Instants]
    BY DEF IInv, TypeOK
  <1>2. ASSUME NEW t \in Turns, Insert(t)
        PROVE  s # t /\ Kept
    BY <1>1, <1>2 DEF Insert, GoTo, Ended
  <1>3. ASSUME NEW t \in Turns, \/ \E d \in Instants : Start(t, d)
                                \/ ReadNext(t) \/ Issue(t)
        PROVE  UNCHANGED events /\ Kept
    BY <1>1, <1>3 DEF Start, ReadNext, Issue, GoTo, Ended, tableVars
  <1>4. ASSUME NEW t \in Turns, \/ MarkActivity(t) \/ Overtaken(t) \/ Clash(t)
                                \/ Unknown(t) \/ LoseTurn(t)
        PROVE  UNCHANGED events /\ Kept
    BY <1>1, <1>4 DEF MarkActivity, Overtaken, Clash, Unknown, Refuse, Inserting,
                      LoseTurn, GoTo, Ended, tableVars
  <1>5. ASSUME \/ \E r \in Creations : CreationStep(r) \/ LoseCreation(r)
               \/ Tick \/ UNCHANGED vars
        PROVE  UNCHANGED events /\ Kept
    BY <1>5 DEF CreationStep, BeginCreation, SaveConversation, LoseCreation, Tick, vars,
                tableVars, turnVars
  <1>6. ASSUME UNCHANGED events, Kept
        PROVE  UserMessageOf(s)' <=> UserMessageOf(s)
    BY <1>6 DEF UserMessageOf, Rows
  <1>7. ASSUME NEW t \in Turns, Insert(t)
        PROVE  UserMessageOf(s)' <=> UserMessageOf(s)
    <2>1. CASE target[s] # target[t]
      BY <1>1, <1>2, <1>7, <2>1, InsertExtends DEF UserMessageOf, Rows
    <2>2. CASE target[s] = target[t]
      <3>1. Rows(s)' = events'[target[t]] /\ Rows(s) = Rows(t)
        BY <1>2, <1>7, <2>2 DEF Rows
      <3>2. /\ DOMAIN events'[target[t]] = DOMAIN Rows(t) \cup {Place(t)}
            /\ \A n \in DOMAIN Rows(t) :
                 n # Place(t) /\ events'[target[t]][n] = Rows(t)[n]
            /\ events'[target[t]][Place(t)] = NewRow(t)
        BY <1>7, InsertExtends
      <3>3. NewRow(t).turn = t
        BY DEF NewRow
      <3>4. QED BY <1>2, <1>7, <3>1, <3>2, <3>3 DEF UserMessageOf
    <2>3. QED BY <2>1, <2>2
  <1>8. QED BY <1>2, <1>3, <1>4, <1>5, <1>6, <1>7 DEF Next, TurnStep

-----------------------------------------------------------------------------
(* Whose message may stand last without a reply. *)

(* A turn that was told there is no such conversation has stored nothing:   *)
(* a conversation with rows exists, and stays.                              *)
UnknownLeftNothing == \A t \in Turns : pc[t] = "unknown" => ~UserMessageOf(t)

LEMMA UnknownLeavesNothing ==
  IInv /\ UnknownLeftNothing /\ [Next]_vars => UnknownLeftNothing'
  <1> SUFFICES ASSUME IInv, UnknownLeftNothing, [Next]_vars,
                      NEW t \in Turns, pc'[t] = "unknown"
               PROVE  ~UserMessageOf(t)'
    BY DEF UnknownLeftNothing
  <1>1. CASE pc[t] = "unknown"
    BY <1>1, EndedStays DEF UnknownLeftNothing, Ended
  <1>2. CASE pc[t] # "unknown"
    <2>1. pc \in [Turns -> Steps \cup Ended] /\ target[t] \in Instants
      BY DEF IInv, TypeOK
    <2>2. Unknown(t)
      <3>1. ASSUME NEW s \in Turns, TurnStep(s) \/ LoseTurn(s) PROVE Unknown(t)
        BY <1>2, <2>1, <3>1 DEF TurnStep, Start, ReadNext, Issue, Insert, MarkActivity,
                               Overtaken, Clash, Unknown, Refuse, LoseTurn, GoTo
      <3>2. ~(\E r \in Creations : CreationStep(r) \/ LoseCreation(r))
        BY <1>2 DEF CreationStep, BeginCreation, SaveConversation, LoseCreation, turnVars
      <3>3. ~Tick /\ ~UNCHANGED vars
        BY <1>2 DEF Tick, vars, turnVars
      <3>4. QED BY <3>1, <3>2, <3>3 DEF Next
    <2>3. DOMAIN Rows(t) = {} /\ UNCHANGED <<events, target, number>>
      BY <2>1, <2>2 DEF IInv, RowsKnown, Unknown, Known, Refuse, Rows, tableVars
    <2>4. QED BY <2>3 DEF UserMessageOf, Rows
  <1>3. QED BY <1>1, <1>2

(* A conversation's last message is open only while its turn is on the way  *)
(* to the reply, or after a clash or fault of it.                           *)
THEOREM LastMessagesAnswered == Spec => []LastMessageAnswered
  <1>1. Init => UnknownLeftNothing
    BY DEF Init, UnknownLeftNothing
  <1>2. IInv /\ UnknownLeftNothing => LastMessageAnswered
    <2> SUFFICES ASSUME IInv, UnknownLeftNothing,
                        NEW c \in Instants, NEW n \in DOMAIN events[c],
                        events[c][n].kind = "user", n + 1 \notin DOMAIN events[c]
                 PROVE  pc[events[c][n].turn] \in {"reply", "insertReply", "clash", "lost"}
      BY DEF LastMessageAnswered
    <2> DEFINE t == events[c][n].turn
    <2>1. t \in Turns /\ pc[t] \in Steps \cup Ended
      BY DEF IInv, TypeOK, Entry
    <2>2. target[t] = c /\ number[t] = n /\ pc[t] \notin Asking
      BY DEF IInv, Owned, Attributed
    <2>3. UserMessageOf(t) /\ Rows(t) = events[c]
      BY <2>2 DEF UserMessageOf, Rows
    <2>4. pc[t] \notin {"touch", "mark", "accepted"}
      BY <2>1, <2>2, <2>3 DEF IInv, Stored, Holds
    <2>5. pc[t] # "overtaken"
      BY <2>1, <2>2, <2>3 DEF IInv, OvertakenByMessage
    <2>6. pc[t] # "unknown"
      BY <2>1, <2>3 DEF UnknownLeftNothing
    <2>7. QED BY <2>1, <2>2, <2>4, <2>5, <2>6 DEF Steps, Ended, Asking
  <1>3. Spec => []UnknownLeftNothing
    BY <1>1, IInvAlways, UnknownLeavesNothing, PTL DEF Spec
  <1>4. QED BY <1>2, <1>3, IInvAlways, PTL

-----------------------------------------------------------------------------
(* Why messages are refused. *)

(* What a clash was with: an event of another turn, of the same kind.       *)
ClashedWithOther(t) ==
  \E c \in Instants : \E n \in DOMAIN events[c] :
    /\ events[c][n].turn # t
    /\ events[c][n].at = at[t]
    /\ events[c][n].kind = IF UserMessageOf(t) THEN "assistant" ELSE "user"

ClashesSound == \A t \in Turns : pc[t] = "clash" => ClashedWithOther(t)

LEMMA IdTakenByOther ==
  ASSUME IInv, NEW t \in Turns, Inserting(t), IdTaken(t)
  PROVE  ClashedWithOther(t)
  <1>1. PICK c \in Instants : \E n \in DOMAIN events[c] :
          events[c][n].kind = Kind(t) /\ events[c][n].at = at[t]
    BY DEF IdTaken
  <1>2. PICK n \in DOMAIN events[c] :
          events[c][n].kind = Kind(t) /\ events[c][n].at = at[t]
    BY <1>1
  <1>3. target[t] \in Instants
    BY DEF IInv, TypeOK
  <1>4. CASE pc[t] = "insertUser"
    <2>1. events[c][n].turn # t /\ ~UserMessageOf(t)
      BY <1>3, <1>4, AskersOwnNothing DEF Asking, UserMessageOf, Rows
    <2>2. QED BY <1>2, <1>4, <2>1 DEF ClashedWithOther, Kind
  <1>5. CASE pc[t] = "insertReply"
    <2>1. UserMessageOf(t)
      BY <1>5 DEF IInv, Stored, Holds, UserMessageOf
    <2>2. events[c][n].kind = "assistant"
      BY <1>2, <1>5 DEF Kind
    <2>3. Attributed(events[c][n].turn, c, n, "assistant")
      BY <2>2 DEF IInv, Owned
    <2>4. events[c][n].turn # t
      BY <1>5, <2>3 DEF Attributed, Replying
    <2>5. QED BY <1>2, <2>1, <2>2, <2>4 DEF ClashedWithOther
  <1>6. QED BY <1>4, <1>5 DEF Inserting

LEMMA ClashesStaySound == IInv /\ ClashesSound /\ [Next]_vars => ClashesSound'
  <1> SUFFICES ASSUME IInv, ClashesSound, [Next]_vars,
                      NEW t \in Turns, pc'[t] = "clash"
               PROVE  ClashedWithOther(t)'
    BY DEF ClashesSound
  <1>1. CASE pc[t] = "clash"
    <2> DEFINE Clashing(e) == /\ e.turn # t
                              /\ e.at = at[t]
                              /\ e.kind = IF UserMessageOf(t) THEN "assistant" ELSE "user"
    <2>1. PICK c \in Instants : \E n \in DOMAIN events[c] : Clashing(events[c][n])
      BY <1>1 DEF ClashesSound, ClashedWithOther
    <2>2. PICK n \in DOMAIN events[c] : Clashing(events[c][n])
      BY <2>1
    <2>3. n \in DOMAIN events'[c] /\ events'[c][n] = events[c][n]
      BY RowsStay
    <2>4. at'[t] = at[t] /\ (UserMessageOf(t)' <=> UserMessageOf(t))
      BY <1>1, EndedStays DEF Ended
    <2>5. QED BY <2>2, <2>3, <2>4 DEF ClashedWithOther
  <1>2. CASE pc[t] # "clash"
    <2>1. pc \in [Turns -> Steps \cup Ended]
      BY DEF IInv, TypeOK
    <2>2. Clash(t)
      <3>1. ASSUME NEW s \in Turns, TurnStep(s) \/ LoseTurn(s) PROVE Clash(t)
        BY <1>2, <2>1, <3>1 DEF TurnStep, Start, ReadNext, Issue, Insert, MarkActivity,
                               Overtaken, Clash, Unknown, Refuse, LoseTurn, GoTo
      <3>2. ~(\E r \in Creations : CreationStep(r) \/ LoseCreation(r))
        BY <1>2 DEF CreationStep, BeginCreation, SaveConversation, LoseCreation, turnVars
      <3>3. ~Tick /\ ~UNCHANGED vars
        BY <1>2 DEF Tick, vars, turnVars
      <3>4. QED BY <3>1, <3>2, <3>3 DEF Next
    <2>3. ClashedWithOther(t) /\ UNCHANGED <<events, target, number, at>>
      BY <2>2, IdTakenByOther DEF Clash, Refuse, tableVars
    <2>4. QED BY <2>3 DEF ClashedWithOther, UserMessageOf, Rows
  <1>3. QED BY <1>1, <1>2

(* Whose message stands in the place of a turn, or just before it.          *)
LEMMA OvertakenHasRival ==
  ASSUME IInv, NEW t \in Turns, pc[t] = "overtaken"
  PROVE  \E s \in Turns \ {t} :
           target[s] = target[t] /\ UserMessageOf(s) /\ number[s] + 1 >= number[t]
  <1>1. target[t] \in Instants /\ number[t] \in Nat \ {0}
    BY DEF IInv, TypeOK
  <1>2. PICK n \in DOMAIN Rows(t) : n \in {number[t], number[t] + 1} /\ Rows(t)[n].turn # t
    BY DEF IInv, OvertakenByMessage, UserMessageOf
  <1> DEFINE s == Rows(t)[n].turn
  <1>3. s \in Turns \ {t} /\ Rows(t)[n].kind \in {"user", "assistant"}
    BY <1>1, <1>2 DEF IInv, TypeOK, Entry, Rows
  <1>4. Attributed(s, target[t], n, Rows(t)[n].kind) /\ n \in Nat
    BY <1>1, <1>2 DEF IInv, Owned, Rows
  <1>5. target[s] = target[t] /\ Rows(s) = Rows(t)
    BY <1>4 DEF Attributed, Rows
  <1>6. UserMessageOf(s) /\ number[s] + 1 >= number[t]
    <2>1. CASE Rows(t)[n].kind = "user"
      <3>1. number[s] = n
        BY <1>4, <2>1 DEF Attributed
      <3>2. QED BY <1>1, <1>2, <1>5, <3>1 DEF UserMessageOf
    <2>2. CASE Rows(t)[n].kind = "assistant"
      <3>1. number[s] = n - 1
        BY <1>4, <2>2 DEF Attributed
      <3>2. n - 1 \in DOMAIN Rows(t) /\ Rows(t)[n - 1].turn = s
        BY <1>1, <2>2 DEF IInv, RepliesFollow, Rows
      <3>3. QED BY <1>1, <1>2, <1>4, <1>5, <3>1, <3>2 DEF UserMessageOf
    <2>3. QED BY <1>3, <2>1, <2>2
  <1>7. QED BY <1>3, <1>5, <1>6

(* A turn is refused only for another turn of its conversation or instant.  *)
THEOREM RefusalsAreForRivals == Spec => []RefusalsHaveRivals
  <1>1. Init => ClashesSound
    BY DEF Init, ClashesSound
  <1>2. IInv /\ ClashesSound => RefusalsHaveRivals
    BY OvertakenHasRival DEF ClashesSound, ClashedWithOther, RefusalsHaveRivals
  <1>3. Spec => []ClashesSound
    BY <1>1, IInvAlways, ClashesStaySound, PTL DEF Spec
  <1>4. QED BY <1>2, <1>3, IInvAlways, PTL

(* Turns that have a conversation and their instants to themselves are      *)
(* recorded as the requirements say, whatever else runs or fails.           *)
THEOREM MessagesRecordedAlone == Spec => [](WithoutRivals => EveryMessageRecorded)
  <1>1. RefusalsHaveRivals => (WithoutRivals => EveryMessageRecorded)
    BY DEF RefusalsHaveRivals, WithoutRivals, EveryMessageRecorded
  <1>2. QED BY <1>1, RefusalsAreForRivals, PTL

-----------------------------------------------------------------------------
(* The tables implement the log. *)

LEMMA InsertRefines ==
  ASSUME IInv, IInv', NEW t \in Turns, Insert(t)
  PROVE  Log!Ask(target[t], t) \/ Log!Answer(target[t], t)
  <1> DEFINE c == target[t]
             e == NewRow(t)
  <1>1. PICK n \in Nat : Rows(t) \in [1..n -> Entry] /\ Place(t) = n + 1
    BY InsertExtends
  <1>2. /\ c \in Instants /\ e \in Entry /\ events[c] = Rows(t)
        /\ at[t] \in Instants
        /\ pc[t] \in {"insertUser", "insertReply"}
    BY InsertExtends DEF Rows, IInv, TypeOK, Insert, GoTo
  <1>3. /\ Len(events[c]) = n /\ DOMAIN events[c] = 1..n
        /\ events'[c] = Append(events[c], e)
    <2>1. events[c] \in [1..n -> Entry]
      BY <1>1, <1>2
    <2>2. events'[c] = WithRow(events[c], n + 1, e)
      BY <1>1, <1>2, InsertExtends
    <2> HIDE DEF c, e
    <2>3. Len(events[c]) = n /\ WithRow(events[c], n + 1, e) = Append(events[c], e)
      BY <1>2, <2>1, Lengthened
    <2>4. QED BY <2>1, <2>2, <2>3
  <1>4. events' = [events EXCEPT ![c] = Append(@, e)]
    BY <1>3 DEF Insert, Rows, NewRow
  <1>5. \A i \in 1..n : events[c][i].at <= e.at
    <2>1. /\ DOMAIN events'[c] = 1..n \cup {n + 1}
          /\ events'[c][n + 1] = e
          /\ \A i \in 1..n : events'[c][i] = events[c][i]
      BY <1>1, <1>2, <1>3, InsertExtends
    <2>2. \A i \in 1..n : i < n + 1
      OBVIOUS
    <2>3. QED BY <1>2, <2>1, <2>2 DEF IInv, TimesFollow
  <1>6. c \in {d \in Instants : owner[d] # NoUser}
    BY <1>2 DEF Insert, Known
  <1>7. UNCHANGED owner
    BY DEF Insert
  <1>8. Log!Add(c, e)
    BY <1>3, <1>4, <1>5, <1>6, <1>7 DEF Log!Add
  <1>9. CASE pc[t] = "insertUser"
    <2>1. e = [turn |-> t, kind |-> "user", at |-> at[t]]
      BY <1>9 DEF NewRow, Kind
    <2>2. \A i \in 1..Len(events[c]) : events[c][i].turn # t
      BY <1>2, <1>3, <1>9, AskersOwnNothing DEF Asking
    <2>3. QED BY <1>2, <1>8, <2>1, <2>2 DEF Log!Ask
  <1>10. CASE pc[t] = "insertReply"
    <2>1. e = [turn |-> t, kind |-> "assistant", at |-> at[t]]
      BY <1>10 DEF NewRow, Kind
    <2>2. Holds(t, n, "user") /\ n > 0
      <3>1. number[t] \in Nat \ {0} /\ Place(t) = number[t] + 1
        BY <1>10 DEF IInv, TypeOK, Place
      <3>2. Holds(t, number[t], "user")
        BY <1>10 DEF IInv, Stored
      <3>3. QED BY <1>1, <3>1, <3>2
    <2>3. QED BY <1>2, <1>3, <1>8, <2>1, <2>2 DEF Log!Answer, Holds
  <1>11. QED BY <1>2, <1>9, <1>10

LEMMA SaveRefines ==
  ASSUME NEW r \in Creations, IInv, SaveConversation(r)
  PROVE  [Log!Next]_Log!logVars
  <1> DEFINE u == OwnerAfterSave(key[r], asker[r])
             open == {d \in Instants : owner[d] # NoUser}
  <1>1. key[r] \in Instants /\ owner \in [Instants -> Users \cup {NoUser}]
    BY DEF IInv, TypeOK
  <1>2. owner' = [owner EXCEPT ![key[r]] = u] /\ UNCHANGED events
    BY DEF SaveConversation
  <1>3. owner[key[r]] # NoUser => u # NoUser
    BY DEF OwnerAfterSave
  <1> HIDE DEF u
  <1>4. CASE u = NoUser
    <2>1. UNCHANGED owner
      BY <1>1, <1>2, <1>3, <1>4
    <2>2. QED BY <1>2, <2>1 DEF Log!logVars
  <1>5. CASE u # NoUser
    <2>1. open' = open \cup {key[r]}
      BY <1>1, <1>2, <1>5
    <2>2. PICK c \in Instants : c = key[r]
      BY <1>1
    <2>3. Log!Open(c)
      BY <1>2, <2>1, <2>2 DEF Log!Open
    <2>4. QED BY <2>3 DEF Log!Next
  <1>6. QED BY <1>4, <1>5

LEMMA StepRefines == IInv /\ IInv' /\ [Next]_vars => [Log!Next]_Log!logVars
  <1> SUFFICES ASSUME IInv, IInv', [Next]_vars PROVE [Log!Next]_Log!logVars
    OBVIOUS
  <1>1. ASSUME NEW t \in Turns, Insert(t) PROVE Log!Next
    <2>1. target[t] \in Instants
      BY DEF IInv, TypeOK
    <2>2. QED BY <1>1, <2>1, InsertRefines DEF Log!Next
  <1>2. ASSUME NEW r \in Creations, SaveConversation(r) PROVE [Log!Next]_Log!logVars
    BY <1>2, SaveRefines
  <1>3. ASSUME NEW t \in Turns,
               \/ \E c \in Instants : Start(t, c)
               \/ ReadNext(t) \/ Issue(t) \/ MarkActivity(t)
               \/ Overtaken(t) \/ Clash(t) \/ Unknown(t) \/ LoseTurn(t)
        PROVE UNCHANGED <<events, owner>>
    BY <1>3 DEF Start, ReadNext, Issue, MarkActivity, Overtaken, Clash, Unknown,
                Refuse, LoseTurn, tableVars
  <1>4. ASSUME \/ \E r \in Creations : \/ \E u \in Users : BeginCreation(r, u)
                                       \/ LoseCreation(r)
               \/ Tick \/ UNCHANGED vars
        PROVE UNCHANGED <<events, owner>>
    BY <1>4 DEF BeginCreation, LoseCreation, Tick, vars, tableVars
  <1>5. UNCHANGED <<events, owner>> => UNCHANGED Log!logVars
    BY DEF Log!logVars
  <1>6. QED
    BY <1>1, <1>2, <1>3, <1>4, <1>5 DEF Next, TurnStep, CreationStep

(* The two tables, under any interleaving, implement the append-only log.   *)
THEOREM TablesImplementLog == Spec => ImplementsLog
  <1>1. Init => Log!Init
    BY DEF Init, Log!Init
  <1>2. IInv /\ IInv' /\ [Next]_vars => [Log!Next]_Log!logVars
    BY StepRefines
  <1>3. QED
    BY <1>1, <1>2, IInvAlways, PTL DEF Spec, ImplementsLog, Log!Spec
=============================================================================
