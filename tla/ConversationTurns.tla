-------------------------- MODULE ConversationTurns --------------------------
(***************************************************************************)
(* Conversations and the messages sent in them: runAssistantTurn of        *)
(* ai-runtime.service.ts and createConversation of conversation.service.ts *)
(* over the tables Conversation and ConversationEvent.                     *)
(*                                                                         *)
(* A turn makes four database calls, each awaited: it reads the next       *)
(* sequence number, inserts the user's message, inserts the reply and      *)
(* marks the conversation active.  Two steps per call: the API process     *)
(* takes the time and issues the call, and the database executes it; other *)
(* requests and the clock run in between.  Identifiers are made of the     *)
(* time in milliseconds, so two of one instant are equal; the created_at   *)
(* of an event is taken with its identifier and is the same instant here.  *)
(* All requests share one clock (one API host).                            *)
(***************************************************************************)
EXTENDS Integers, FiniteSets

CONSTANTS
  Turns,        (* POST .../messages requests                              *)
  Creations,    (* POST /conversations requests                            *)
  Users, NoUser,
  MaxTime,      (* bound: the last instant of the clock                    *)
  MaxFaults     (* bound: requests whose database call or process fails    *)

ASSUME TurnsAssumption ==
  NoUser \notin Users /\ MaxTime \in Nat /\ MaxFaults \in Nat

VARIABLES
  now,          (* the clock                                               *)
  owner,        (* Conversation rows: user_id, by the instant in the key   *)
  activity,     (* Conversation rows: last_activity_at                     *)
  events,       (* ConversationEvent rows, by conversation and sequence    *)
  pc, target, number, at,   (* turns: next step, conversation,             *)
                            (* userSequence, instant last taken            *)
  cpc, asker, key,          (* creations: next step, user_id, instant of   *)
                            (* the new key                                 *)
  faults

tableVars == <<owner, activity, events>>
turnVars == <<pc, target, number, at>>
creationVars == <<cpc, asker, key>>
vars == <<now, tableVars, turnVars, creationVars, faults>>

Instants == 0..MaxTime
Entry == [turn : Turns, kind : {"user", "assistant"}, at : Instants]

(* A turn ends accepted, or with an error for one of four reasons: its      *)
(* sequence number is taken, its event identifier is taken, there is no     *)
(* such conversation, or a call or the process failed.                      *)
Ended == {"accepted", "overtaken", "clash", "unknown", "lost"}
Steps == {"new", "read", "post", "insertUser", "reply", "insertReply", "touch", "mark"}

TypeOK ==
  /\ now \in Instants
  /\ owner \in [Instants -> Users \cup {NoUser}]
  /\ activity \in [Instants -> Instants]
  /\ DOMAIN events = Instants
  /\ \A c \in Instants : \A n \in DOMAIN events[c] :
       n \in Nat \ {0} /\ events[c][n] \in Entry
  /\ pc \in [Turns -> Steps \cup Ended]
  /\ target \in [Turns -> Instants]
  /\ number \in [Turns -> Nat \ {0}]
  /\ at \in [Turns -> Instants]
  /\ cpc \in [Creations -> {"new", "save", "created", "lost"}]
  /\ asker \in [Creations -> Users \cup {NoUser}]
  /\ key \in [Creations -> Instants]
  /\ faults \in 0..MaxFaults

Init ==
  /\ now = 0
  /\ owner = [c \in Instants |-> NoUser]
  /\ activity = [c \in Instants |-> 0]
  /\ events = [c \in Instants |-> <<>>]
  /\ pc = [t \in Turns |-> "new"]
  /\ target = [t \in Turns |-> 0]
  /\ number = [t \in Turns |-> 1]
  /\ at = [t \in Turns |-> 0]
  /\ cpc = [r \in Creations |-> "new"]
  /\ asker = [r \in Creations |-> NoUser]
  /\ key = [r \in Creations |-> 0]
  /\ faults = 0

-----------------------------------------------------------------------------
(* Creating a conversation: the assistant instance is looked up, then the   *)
(* key is made of the current time ...                                      *)
BeginCreation(r, u) ==
  /\ cpc[r] = "new"
  /\ cpc' = [cpc EXCEPT ![r] = "save"]
  /\ asker' = [asker EXCEPT ![r] = u]
  /\ key' = [key EXCEPT ![r] = now]
  /\ UNCHANGED <<now, tableVars, turnVars, faults>>

(* ... and the row is upserted: a row with that key keeps its user.         *)
OwnerAfterSave(c, u) == IF owner[c] = NoUser THEN u ELSE owner[c]

SaveConversation(r) ==
  /\ cpc[r] = "save"
  /\ cpc' = [cpc EXCEPT ![r] = "created"]
  /\ owner' = [owner EXCEPT ![key[r]] = OwnerAfterSave(key[r], asker[r])]
  /\ activity' = [activity EXCEPT ![key[r]] = key[r]]
  /\ UNCHANGED <<now, events, turnVars, asker, key, faults>>

-----------------------------------------------------------------------------
(* One turn. *)

GoTo(t, from, to) == pc[t] = from /\ pc' = [pc EXCEPT ![t] = to]

(* The identifier in the path need not be of a conversation that exists.    *)
Start(t, c) ==
  /\ GoTo(t, "new", "read")
  /\ target' = [target EXCEPT ![t] = c]
  /\ UNCHANGED <<now, tableVars, number, at, creationVars, faults>>

(* getNextSequence: the highest number of the conversation, or 0, plus one. *)
NextUnincremented(c) ==
  CHOOSE n \in DOMAIN events[c] \cup {0} : \A m \in DOMAIN events[c] : m <= n
NextSpared(c) ==
  (CHOOSE n \in DOMAIN events[c] \cup {0} : \A m \in DOMAIN events[c] : m <= n) + 2
NextSequence(c) ==
  (CHOOSE n \in DOMAIN events[c] \cup {0} : \A m \in DOMAIN events[c] : m <= n) + 1

ReadNext(t) ==
  /\ GoTo(t, "read", "post")
  /\ number' = [number EXCEPT ![t] = NextSequence(target[t])]
  /\ UNCHANGED <<now, tableVars, target, at, creationVars, faults>>

(* The process resumes, takes the time and issues the next call. *)
Issue(t) ==
  /\ \/ GoTo(t, "post", "insertUser")
     \/ GoTo(t, "reply", "insertReply")
     \/ GoTo(t, "touch", "mark")
  /\ at' = [at EXCEPT ![t] = now]
  /\ UNCHANGED <<now, tableVars, target, number, creationVars, faults>>

(* The row a turn inserts: the reply goes behind the message, at the number *)
(* the turn computed, not one it reads again.                               *)
Kind(t) == IF pc[t] = "insertUser" THEN "user" ELSE "assistant"
PlaceReadAgain(t) == IF pc[t] = "insertUser" THEN number[t] ELSE NextSequence(target[t])
PlaceOfBoth(t) == number[t]
Place(t) == IF pc[t] = "insertUser" THEN number[t] ELSE number[t] + 1
Inserting(t) == pc[t] \in {"insertUser", "insertReply"}

(* @@unique([conversation_id, event_sequence]), and the primary key. *)
PlaceTakenAnywhere(t) == \E c \in Instants : Place(t) \in DOMAIN events[c]
PlaceTaken(t) == Place(t) \in DOMAIN events[target[t]]

IdTaken(t) ==
  \E c \in Instants : \E n \in DOMAIN events[c] :
    events[c][n].kind = Kind(t) /\ events[c][n].at = at[t]

Known(t) == owner[target[t]] # NoUser

WithRow(rows, n, e) == [i \in DOMAIN rows \cup {n} |-> IF i = n THEN e ELSE rows[i]]

Insert(t) ==
  /\ \/ GoTo(t, "insertUser", "reply")
     \/ GoTo(t, "insertReply", "touch")
  /\ Known(t) /\ ~PlaceTaken(t) /\ ~IdTaken(t)
  /\ events' = [events EXCEPT ![target[t]] =
       WithRow(@, Place(t), [turn |-> t, kind |-> Kind(t), at |-> at[t]])]
  /\ UNCHANGED <<now, owner, activity, target, number, at, creationVars, faults>>

MarkActivity(t) ==
  /\ GoTo(t, "mark", "accepted")
  /\ activity' = [activity EXCEPT ![target[t]] = at[t]]
  /\ UNCHANGED <<now, owner, events, target, number, at, creationVars, faults>>

(* The insert is refused: the error goes to the client, and what the turn   *)
(* wrote before stays.                                                      *)
Refuse(t, why) ==
  /\ Inserting(t)
  /\ pc' = [pc EXCEPT ![t] = why]
  /\ UNCHANGED <<now, tableVars, target, number, at, creationVars, faults>>

OvertakenIgnored(t) == PlaceTaken(t) /\ Refuse(t, "touch")
Overtaken(t) == PlaceTaken(t) /\ Refuse(t, "overtaken")
Clash(t) == IdTaken(t) /\ Refuse(t, "clash")
Unknown(t) == ~Known(t) /\ Refuse(t, "unknown")

-----------------------------------------------------------------------------
(* A database call fails, or the API process dies, before or after the call *)
(* took effect.                                                             *)
LoseTurn(t) ==
  /\ faults < MaxFaults
  /\ faults' = faults + 1
  /\ pc[t] \notin Ended \cup {"new"}
  /\ pc' = [pc EXCEPT ![t] = "lost"]
  /\ UNCHANGED <<now, tableVars, target, number, at, creationVars>>

LoseCreation(r) ==
  /\ faults < MaxFaults
  /\ faults' = faults + 1
  /\ cpc[r] = "save"
  /\ cpc' = [cpc EXCEPT ![r] = "lost"]
  /\ UNCHANGED <<now, tableVars, turnVars, asker, key>>

Tick ==
  /\ now < MaxTime
  /\ now' = now + 1
  /\ UNCHANGED <<tableVars, turnVars, creationVars, faults>>

-----------------------------------------------------------------------------
TurnStep(t) ==
  \/ \E c \in Instants : Start(t, c)
  \/ ReadNext(t) \/ Issue(t) \/ Insert(t) \/ MarkActivity(t)
  \/ Overtaken(t) \/ Clash(t) \/ Unknown(t)

CreationStep(r) == SaveConversation(r) \/ \E u \in Users : BeginCreation(r, u)

Next ==
  \/ \E t \in Turns : TurnStep(t) \/ LoseTurn(t)
  \/ \E r \in Creations : CreationStep(r) \/ LoseCreation(r)
  \/ Tick

Spec == Init /\ [][Next]_vars

(* Fairness: a request that has begun runs on; clients need not send any.   *)
Fairness == \A t \in Turns : WF_vars(pc[t] # "new" /\ TurnStep(t))

FairSpec == Spec /\ Fairness

-----------------------------------------------------------------------------
(* Properties. *)

Rows(t) == events[target[t]]
UserMessageOf(t) == number[t] \in DOMAIN Rows(t) /\ Rows(t)[number[t]].turn = t

(* However turns interleave or fail, the event_sequence numbers of a        *)
(* conversation are 1, 2, ... without a gap: getNextSequence never runs     *)
(* ahead of the rows.                                                       *)
SequenceContiguous ==
  \A c \in Instants : DOMAIN events[c] = 1..Cardinality(DOMAIN events[c])

(* A reply stands directly behind the message it answers, although the      *)
(* sequence number is not reserved between the two inserts.                 *)
RepliesFollow ==
  \A c \in Instants : \A n \in DOMAIN events[c] :
    events[c][n].kind = "assistant" =>
      /\ n - 1 \in DOMAIN events[c]
      /\ events[c][n - 1].kind = "user"
      /\ events[c][n - 1].turn = events[c][n].turn

(* created_at agrees with event_sequence, although neither is assigned by   *)
(* the database.                                                            *)
TimesFollow ==
  \A c \in Instants : \A m, n \in DOMAIN events[c] :
    m < n => events[c][m].at <= events[c][n].at

(* A request answered "accepted" has both its events in the ledger.         *)
AcceptedWhole ==
  \A t \in Turns : pc[t] = "accepted" =>
    /\ UserMessageOf(t)
    /\ number[t] + 1 \in DOMAIN Rows(t)
    /\ Rows(t)[number[t] + 1].turn = t

(* A turn refused because of its sequence number lost to another turn of    *)
(* the same conversation, and a stored message loses its reply only to a    *)
(* user's message directly behind it.                                       *)
OvertakenByMessage ==
  \A t \in Turns : pc[t] = "overtaken" =>
    IF UserMessageOf(t)
    THEN /\ number[t] + 1 \in DOMAIN Rows(t)
         /\ Rows(t)[number[t] + 1].kind = "user"
         /\ Rows(t)[number[t] + 1].turn # t
    ELSE number[t] \in DOMAIN Rows(t)

(* What the requirements say of the ledger: each user message and each      *)
(* reply is recorded (of turns that met no fault, in a known conversation). *)
EveryMessageRecorded ==
  \A t \in Turns : pc[t] \notin {"overtaken", "clash"}

(* Turns race without locks, but never all of them lose: a conversation     *)
(* somebody writes to gets a reply, unless an event identifier clashed.     *)
SomeTurnAnswered ==
  \A c \in Instants :
    (\E t \in Turns : target[t] = c /\ pc[t] = "insertUser" /\ Known(t))
      ~> \/ \E n \in DOMAIN events[c] : events[c][n].kind = "assistant"
         \/ \E t \in Turns : target[t] = c /\ pc[t] \in {"clash", "lost"}

(* The last message of a conversation stands without a reply only while its *)
(* turn is on the way to it, or after a clash or a fault of that turn:      *)
(* losing the race for a sequence number never leaves it open.              *)
LastMessageAnswered ==
  \A c \in Instants : \A n \in DOMAIN events[c] :
    events[c][n].kind = "user" /\ n + 1 \notin DOMAIN events[c] =>
      pc[events[c][n].turn] \in {"reply", "insertReply", "clash", "lost"}

(* A turn is refused only for a rival: its number for another turn of the   *)
(* conversation whose message stands where it meant to write or just before,*)
(* its identifier for another turn's event of the same kind and instant.    *)
RefusalsHaveRivals ==
  \A t \in Turns :
    /\ pc[t] = "overtaken" =>
         \E s \in Turns \ {t} :
           target[s] = target[t] /\ UserMessageOf(s) /\ number[s] + 1 >= number[t]
    /\ pc[t] = "clash" =>
         \E c \in Instants : \E n \in DOMAIN events[c] :
           /\ events[c][n].turn # t
           /\ events[c][n].at = at[t]
           /\ events[c][n].kind = IF UserMessageOf(t) THEN "assistant" ELSE "user"

(* No two turns write to one conversation, or have events of one instant.   *)
WithoutRivals ==
  /\ \A s, t \in Turns : UserMessageOf(s) /\ s # t => target[t] # target[s]
  /\ \A c \in Instants : \A n \in DOMAIN events[c] :
       \A t \in Turns \ {events[c][n].turn} : events[c][n].at # at[t]

(* The two tables implement an append-only log of questions and answers.    *)
Log == INSTANCE ConversationLog WITH
  Conversations <- Instants, Times <- Instants, log <- events,
  open <- {c \in Instants : owner[c] # NoUser}
ImplementsLog == Log!Spec
=============================================================================
