------------------------------- MODULE Governance -------------------------------
(***************************************************************************)
(* The API behind the console's governance, assistants and notification    *)
(* pages: approval.service.ts, admin.service.ts, audit.service.ts,         *)
(* assistant-instance.service.ts and notification-preference.service.ts    *)
(* over the tables ApprovalRecord, AssistantInstance and                   *)
(* NotificationPreference.                                                 *)
(*                                                                         *)
(* A call is one HTTP request.  It makes its database calls one by one and *)
(* awaits each; a step here is one of them.  No call looks at the state of *)
(* the row it changes: it reads it, if it does, to write the rest of it    *)
(* back.  Every write is an upsert, whose update leaves the user and the   *)
(* organisation of the row alone.                                          *)
(***************************************************************************)
EXTENDS Naturals, FiniteSets

CONSTANTS
  Calls,                (* requests to the API, each made once             *)
  Users, SeededUser,
  Orgs, HomeOrg,        (* the seeded rows are the seeded user's, at home  *)
  Records,              (* approval records, which only the seeds create   *)
  Placeholder,          (* approval-demo-001, listed where there is none   *)
  Definitions,          (* assistant definitions, and the one of the       *)
  SeededDefinition,     (* seeded instance                                 *)
  SeededInstance,
  Preferences, SeededPreference,
  None,
  MaxTime,              (* bound: milliseconds that pass                   *)
  MaxFaults             (* bound: calls that fail and answers that are lost *)

Times == 1..MaxTime
Instances == Times \cup {SeededInstance}

ASSUME GovernanceAssumption ==
  /\ SeededUser \in Users /\ HomeOrg \in Orgs
  /\ Placeholder \notin Records
  /\ SeededDefinition \in Definitions
  /\ SeededInstance \notin Nat
  /\ SeededPreference \in Preferences
  /\ None \notin Users
  /\ MaxTime \in Nat \ {0} /\ MaxFaults \in Nat

VARIABLES
  approval,       (* ApprovalRecord: status and the marks of who decided   *)
  instance,       (* AssistantInstance: user, definition, status           *)
  preference,     (* NotificationPreference: user_id, None without a row   *)
  now,            (* Date.now()                                            *)
  call,           (* calls: next step, arguments, the row read, and as     *)
                  (* history the writes made before its read, its own      *)
                  (* place among the writes, and the state it left         *)
  written,        (* history: the number of writes                         *)
  faults

rowVars == <<approval, instance, preference>>
serviceVars == <<rowVars, now, call, written, faults>>

ApprovalRows == [status : {"pending", "approved", "rejected"},
                 approved_by : Users \cup {None}, rejected_by : Users \cup {None}]
InstanceRows == [user : Users \cup {None}, definition : Definitions \cup {None},
                 status : {"active", "suspended", "none"}]

Pending == [status |-> "pending", approved_by |-> None, rejected_by |-> None]
NoInstance == [user |-> None, definition |-> None, status |-> "none"]

Decisions == {"approve", "reject"}
Changes == {"upgrade", "suspend"}
Operations == Decisions \cup Changes \cup {"create", "prefer"}

NewCall(pc, op, id, user, definition) ==
  [pc |-> pc, op |-> op, id |-> id, user |-> user, definition |-> definition,
   approval |-> Pending, instance |-> NoInstance, seen |-> 0, place |-> 0]

Idle == NewCall("idle", "prefer", None, SeededUser, None)

ServiceInit ==
  /\ approval = [r \in Records |-> Pending]
  /\ instance = [i \in Instances |->
                   IF i = SeededInstance
                   THEN [user |-> SeededUser, definition |-> SeededDefinition, status |-> "active"]
                   ELSE NoInstance]
  /\ preference = [p \in Preferences |-> IF p = SeededPreference THEN SeededUser ELSE None]
  /\ now = 1
  /\ call = [c \in Calls |-> Idle]
  /\ written = 0
  /\ faults = 0

-----------------------------------------------------------------------------
(* Requests, as the controllers hand them to the services. *)

ApproveRequest(r, u) == NewCall("find", "approve", r, u, None)
RejectRequest(r, u) == NewCall("find", "reject", r, u, None)
CreateRequest(u, d) == NewCall("definition", "create", None, u, d)
UpgradeRequest(i, d) == NewCall("find", "upgrade", i, SeededUser, d)
SuspendRequest(i) == NewCall("find", "suspend", i, SeededUser, None)
PreferenceRequest(p, u) == NewCall("save", "prefer", p, u, None)

Arrive(c, request) ==
  /\ call[c].pc = "idle"
  /\ call' = [call EXCEPT ![c] = request]

(* What clients ask.  They name instances and records they were shown; all  *)
(* are told the placeholder where there is no record.                       *)
Request(c) ==
  /\ \E u \in Users :
       \/ \E r \in Records \cup {Placeholder} :
            Arrive(c, ApproveRequest(r, u)) \/ Arrive(c, RejectRequest(r, u))
       \/ \E d \in Definitions \cup {None} : Arrive(c, CreateRequest(u, d))
       \/ \E p \in Preferences : Arrive(c, PreferenceRequest(p, u))
       \/ \E i \in {j \in Instances : instance[j].user = u} :
            \/ Arrive(c, SuspendRequest(i))
            \/ \E d \in Definitions : Arrive(c, UpgradeRequest(i, d))
  /\ UNCHANGED <<rowVars, now, written, faults>>

-----------------------------------------------------------------------------
(* Reading.  A decision on a record nobody has is answered "missing".       *)

FindApproval(c) ==
  /\ call[c].pc = "find" /\ call[c].op \in Decisions
  /\ call' = [call EXCEPT ![c] =
       IF call[c].id \in Records
       THEN [@ EXCEPT !.pc = "save", !.approval = approval[call[c].id], !.seen = written]
       ELSE [@ EXCEPT !.pc = "answered"]]
  /\ UNCHANGED <<rowVars, now, written, faults>>

FindInstance(c) ==
  /\ call[c].pc = "find" /\ call[c].op \in Changes
  /\ call' = [call EXCEPT ![c].pc = "save",
                          ![c].instance = instance[call[c].id], ![c].seen = written]
  /\ UNCHANGED <<rowVars, now, written, faults>>

(* createAssistantInstance names the instance by the time. *)
NameInstance(c) ==
  /\ call[c].pc = "definition"
  /\ call' = [call EXCEPT ![c].pc = "save", ![c].id = now]
  /\ UNCHANGED <<rowVars, now, written, faults>>

-----------------------------------------------------------------------------
(* Writing. *)

Written(c) ==
  /\ call' = [call EXCEPT ![c].pc = "answered", ![c].place = written + 1]
  /\ written' = written + 1
  /\ UNCHANGED <<now, faults>>

ApprovedOnly(row, u) == [status |-> "approved", approved_by |-> u, rejected_by |-> None]
Approved(row, u) == [row EXCEPT !.status = "approved", !.approved_by = u]
Rejected(row, u) == [row EXCEPT !.status = "rejected", !.rejected_by = u]
Decided(c) == IF call[c].op = "approve" THEN Approved(call[c].approval, call[c].user)
              ELSE Rejected(call[c].approval, call[c].user)

SaveDecision(c) ==
  /\ call[c].pc = "save" /\ call[c].op \in Decisions
  /\ approval' = [approval EXCEPT ![call[c].id] = Decided(c)]
  /\ Written(c)
  /\ UNCHANGED <<instance, preference>>

(* What the three operations on instances save: only creating and upgrading *)
(* activate, only suspending keeps the definition it read.                  *)
Saved(c) ==
  IF call[c].op = "suspend"
  THEN [definition |-> call[c].instance.definition, status |-> "suspended"]
  ELSE [definition |-> call[c].definition, status |-> "active"]

UpsertStatus(row, user, values) ==
  [user |-> IF row.user = None THEN user ELSE row.user,
   definition |-> IF row.definition = None THEN values.definition ELSE row.definition,
   status |-> values.status]

UpsertInstance(row, user, values) ==
  [user |-> IF row.user = None THEN user ELSE row.user,
   definition |-> values.definition, status |-> values.status]

SavesInstance(c) == call[c].pc = "save" /\ call[c].op \in Changes \cup {"create"}

SaveInstance(c) ==
  /\ SavesInstance(c) /\ Saved(c).definition \in Definitions
  /\ instance' = [instance EXCEPT ![call[c].id] = UpsertInstance(@, call[c].user, Saved(c))]
  /\ Written(c)
  /\ UNCHANGED <<approval, preference>>

(* The foreign key refuses a definition that does not exist. *)
RefuseDefinition(c) ==
  /\ SavesInstance(c) /\ Saved(c).definition \notin Definitions
  /\ call' = [call EXCEPT ![c].pc = "failed"]
  /\ UNCHANGED <<rowVars, now, written, faults>>

UpsertOwner(owner, user) == user
UpsertPreference(owner, user) == IF owner = None THEN user ELSE owner

SavePreference(c) ==
  /\ call[c].pc = "save" /\ call[c].op = "prefer"
  /\ preference' = [preference EXCEPT ![call[c].id] = UpsertPreference(@, call[c].user)]
  /\ Written(c)
  /\ UNCHANGED <<approval, instance>>

Running(c) == call[c].pc \in {"find", "definition", "save"}

FailCall(c) ==
  /\ Running(c)
  /\ faults < MaxFaults
  /\ faults' = faults + 1
  /\ call' = [call EXCEPT ![c].pc = "failed"]
  /\ UNCHANGED <<rowVars, now, written>>

(* Only a call that is about to name an instance sees the time that passes. *)
Tick ==
  /\ now < MaxTime
  /\ \E c \in Calls : call[c].pc = "definition"
  /\ now' = now + 1
  /\ UNCHANGED <<rowVars, call, written, faults>>

ServiceStep ==
  \/ Tick
  \/ \E c \in Calls :
       \/ FindApproval(c) \/ FindInstance(c) \/ NameInstance(c)
       \/ SaveDecision(c) \/ SaveInstance(c) \/ RefuseDefinition(c) \/ SavePreference(c)
       \/ FailCall(c)

ServiceNext == ServiceStep \/ \E c \in Calls : Request(c)

ServiceSpec == ServiceInit /\ [][ServiceNext]_serviceVars

-----------------------------------------------------------------------------
(* The queries, each of one read or of reads that are made at once.  A list *)
(* that would be empty is answered with made-up entries.                    *)

listApprovals(org) ==
  IF org = HomeOrg /\ Records # {} THEN [r \in Records |-> approval[r].status]
  ELSE [r \in {Placeholder} |-> "pending"]

PendingIn(list) == Cardinality({r \in DOMAIN list : list[r] = "pending"})

(* occupied: the user has connectors, schedules or jobs in the organisation, *)
(* or the organisation audit entries.  A summary of nothing is made up.      *)
getSummaryOfAll(org, occupied) ==
  IF org # HomeOrg /\ ~occupied THEN 1
  ELSE Cardinality({r \in Records : org = HomeOrg})

getSummary(org, occupied) ==
  IF org # HomeOrg /\ ~occupied THEN 1
  ELSE Cardinality({r \in Records : org = HomeOrg /\ approval[r].status = "pending"})

listAssistantInstances(u) == {i \in Instances : instance[i].user = u}

listNotificationPreferences(u) == {p \in Preferences : preference[p] = u}

-----------------------------------------------------------------------------
(* Properties. *)

(* Rows stay those the schema allows, and calls those the controllers make. *)
CallRows ==
  [pc : {"idle", "find", "definition", "save", "answered", "failed"}, op : Operations,
   id : Records \cup {Placeholder} \cup Instances \cup Preferences \cup {None},
   user : Users, definition : Definitions \cup {None},
   approval : ApprovalRows, instance : InstanceRows, seen : Nat, place : Nat]

TypeOK ==
  /\ approval \in [Records -> ApprovalRows]
  /\ instance \in [Instances -> InstanceRows]
  /\ preference \in [Preferences -> Users \cup {None}]
  /\ now \in Times /\ written \in Nat /\ faults \in 0..MaxFaults
  /\ call \in [Calls -> CallRows]

HasWritten(c) == call[c].place > 0
After(d, c) == call[d].place > call[c].place
SameRow(c, d) ==
  /\ call[c].id = call[d].id
  /\ call[c].op = call[d].op \/ {call[c].op, call[d].op} \subseteq Decisions
       \/ {call[c].op, call[d].op} \subseteq Changes \cup {"create"}

(* d wrote the row of c later, and had not seen what c wrote. *)
Unseen(d, c) == SameRow(c, d) /\ After(d, c) /\ call[d].seen < call[c].place

WroteBefore(d, c) == SameRow(c, d) /\ HasWritten(d) /\ After(c, d)

(* Approving and rejecting do not ask what was decided before: of two       *)
(* decisions the later write gives the status.  The mark of who approved,   *)
(* or rejected, is lost only to a later decision of the same kind, or to    *)
(* one that had read the record before.                                     *)
MarksExplained ==
  \A c \in Calls : HasWritten(c) /\ call[c].op \in Decisions =>
    LET row == approval[call[c].id]
    IN  \/ call[c].op = "approve" /\ row.approved_by = call[c].user
        \/ call[c].op = "reject" /\ row.rejected_by = call[c].user
        \/ \E d \in Calls : SameRow(c, d) /\ After(d, c) /\ call[d].op = call[c].op
        \/ \E d \in Calls : Unseen(d, c)

(* An upgrade that was answered stands until a later upgrade; a suspension  *)
(* written later takes the definition back only when it had read the        *)
(* instance before the upgrade wrote it.                                    *)
UpgradesExplained ==
  \A c \in Calls : HasWritten(c) /\ call[c].op \in {"upgrade", "create"} =>
    \/ instance[call[c].id].definition = call[c].definition
    \/ \E d \in Calls : /\ SameRow(c, d) /\ After(d, c)
                        /\ call[d].op # "suspend" \/ Unseen(d, c)

(* What a call was told it created or set, its user finds in the lists,     *)
(* unless the row was first written for another one: instances are named by *)
(* the millisecond, and the console's preference is the same for everyone.  *)
AnsweredListed ==
  \A c \in Calls : HasWritten(c) =>
    /\ call[c].op = "create" =>
         \/ call[c].id \in listAssistantInstances(call[c].user)
         \/ \E d \in Calls : WroteBefore(d, c) /\ call[d].user # call[c].user
    /\ call[c].op = "prefer" =>
         \/ call[c].id \in listNotificationPreferences(call[c].user)
         \/ call[c].id = SeededPreference
         \/ \E d \in Calls : WroteBefore(d, c) /\ call[d].user # call[c].user
=============================================================================
