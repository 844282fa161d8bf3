---------------------------- MODULE ConnectorSync ----------------------------
(***************************************************************************)
(* Connector accounts, their synchronisation and its results:              *)
(* connector.service.ts over the tables ConnectorAccount,                  *)
(* ConnectorTokenRef and ConnectorSyncState, with the snapshot and         *)
(* notification services a sync calls.                                     *)
(*                                                                         *)
(* Every request (an authorisation, a sync, a revocation) makes its        *)
(* database calls one by one and awaits each, except the last part of a    *)
(* sync, which starts three calls at once under Promise.all.  A step here  *)
(* is one database call; any others run between two of them.  A sync may   *)
(* be a request of the console or the work of a job.                       *)
(*                                                                         *)
(* The identifier of an account authorised at the provider is random; one  *)
(* of a demo account is made of the time in milliseconds, so that two may  *)
(* be given the same one.                                                  *)
(***************************************************************************)
EXTENDS Integers, FiniteSets

CONSTANTS
  Authorizations,   (* connect requests and OAuth callbacks                *)
  Syncs,            (* runs of syncConnector                               *)
  Revocations,      (* PATCH .../revoke requests                           *)
  Users, NoUser,
  NoId, NoSync,
  Instants,         (* the milliseconds demo accounts are authorised in    *)
  MaxFaults         (* bound: database calls and processes that fail       *)

Ids == Authorizations \cup Instants

ASSUME ConnectorAssumption ==
  /\ NoUser \notin Users
  /\ NoSync \notin Syncs
  /\ NoId \notin Ids
  /\ Authorizations \cap Instants = {}
  /\ MaxFaults \in Nat

VARIABLES
  owner,        (* ConnectorAccount: user_id, NoUser where there is no row *)
  status,       (* ConnectorAccount: connection_status                     *)
  token,        (* ConnectorTokenRef: token_status, "none" without a row   *)
  syncState,    (* ConnectorSyncState: the sync that created the row       *)
  tasks,        (* today's TaskSnapshot of a user: the sync it came from   *)
  briefing,     (* today's BriefingSnapshot, likewise                      *)
  messages,     (* NotificationMessage: the types a sync has created       *)
  auth,         (* authorisations: next step, user, account                *)
  sync,         (* syncs: next step, account and user read                 *)
  open,         (* the database calls a sync has started and not awaited   *)
  settled,      (* history: syncs that had ended when this one began       *)
  revoke,       (* revocations: next step, account, whether the row read   *)
                (* had a token                                             *)
  faults

accountVars == <<owner, status, token>>
resultVars == <<tasks, briefing, messages>>
syncVars == <<sync, open, settled>>
vars == <<accountVars, syncState, resultVars, auth, syncVars, revoke, faults>>

Types == {"daily_briefing", "task_reminder"}
Calls == {"tasks", "briefing", "preferences"} \cup Types
SyncEnds == {"missing", "ok", "clash", "failed"}
SyncSteps == {"new", "find", "create", "update", "results"}

(* A request that has begun knows its account and, where there is one, the   *)
(* account's user.                                                          *)
BegunRequests ==
  /\ \A a \in Authorizations : auth[a].pc # "new" => auth[a].id \in Ids /\ auth[a].user \in Users
  /\ \A s \in Syncs : sync[s].pc # "new" => sync[s].id \in Ids
  /\ \A s \in Syncs : sync[s].pc \notin {"new", "missing"} => sync[s].user \in Users
  /\ \A r \in Revocations : revoke[r].pc # "new" => revoke[r].id \in Ids

TypeOK ==
  /\ owner \in [Ids -> Users \cup {NoUser}]
  /\ status \in [Ids -> {"active", "revoked"}]
  /\ token \in [Ids -> {"none", "active", "revoked"}]
  /\ syncState \in [Ids -> Syncs \cup {NoSync}]
  /\ tasks \in [Users -> Syncs \cup {NoSync}]
  /\ briefing \in [Users -> Syncs \cup {NoSync}]
  /\ messages \in [Syncs -> SUBSET Types]
  /\ auth \in [Authorizations ->
       [pc : {"new", "save", "token", "connected", "failed"},
        user : Users \cup {NoUser}, id : Ids \cup {NoId}]]
  /\ sync \in [Syncs ->
       [pc : SyncSteps \cup SyncEnds, id : Ids \cup {NoId}, user : Users \cup {NoUser}]]
  /\ open \in [Syncs -> SUBSET Calls]
  /\ settled \in [Syncs -> SUBSET Syncs]
  /\ revoke \in [Revocations ->
       [pc : {"new", "account", "token", "revoked", "missing", "failed"},
        id : Ids \cup {NoId}, had : BOOLEAN]]
  /\ faults \in 0..MaxFaults
  /\ BegunRequests

Init ==
  /\ owner = [i \in Ids |-> NoUser]
  /\ status = [i \in Ids |-> "active"]
  /\ token = [i \in Ids |-> "none"]
  /\ syncState = [i \in Ids |-> NoSync]
  /\ tasks = [u \in Users |-> NoSync]
  /\ briefing = [u \in Users |-> NoSync]
  /\ messages = [s \in Syncs |-> {}]
  /\ auth = [a \in Authorizations |-> [pc |-> "new", user |-> NoUser, id |-> NoId]]
  /\ sync = [s \in Syncs |-> [pc |-> "new", id |-> NoId, user |-> NoUser]]
  /\ open = [s \in Syncs |-> {}]
  /\ settled = [s \in Syncs |-> {}]
  /\ revoke = [r \in Revocations |-> [pc |-> "new", id |-> NoId, had |-> FALSE]]
  /\ faults = 0

-----------------------------------------------------------------------------
(* Authorising: beginConnectorAuthorization creates a demo account,         *)
(* handleConnectorOAuthCallback one of the provider and then its token.     *)

BeginAuthorization(a, u) ==
  /\ auth[a].pc = "new"
  /\ \E id \in {a} \cup Instants : auth' = [auth EXCEPT ![a] = [pc |-> "save", user |-> u, id |-> id]]
  /\ UNCHANGED <<accountVars, syncState, resultVars, syncVars, revoke, faults>>

(* The upsert leaves the user of a row that exists, and makes it active.    *)
OwnerOverwritten(id, u) == u
OwnerAfterSave(id, u) == IF owner[id] = NoUser THEN u ELSE owner[id]

IsDemo(a) == auth[a].id # a

SaveAccount(a) ==
  LET id == auth[a].id IN
  /\ auth[a].pc = "save"
  /\ auth' = [auth EXCEPT ![a].pc = IF IsDemo(a) THEN "connected" ELSE "token"]
  /\ owner' = [owner EXCEPT ![id] = OwnerAfterSave(id, auth[a].user)]
  /\ status' = [status EXCEPT ![id] = "active"]
  /\ UNCHANGED <<token, syncState, resultVars, syncVars, revoke, faults>>

SaveToken(a) ==
  /\ auth[a].pc = "token"
  /\ auth' = [auth EXCEPT ![a].pc = "connected"]
  /\ token' = [token EXCEPT ![auth[a].id] = "active"]
  /\ UNCHANGED <<owner, status, syncState, resultVars, syncVars, revoke, faults>>

-----------------------------------------------------------------------------
(* Revoking: the account is read with its token, then the two rows are      *)
(* rewritten from what was read.                                            *)

ReadForRevoke(r, id) ==
  /\ revoke[r].pc = "new"
  /\ revoke' = [revoke EXCEPT ![r] =
       [pc |-> IF owner[id] = NoUser THEN "missing" ELSE "account",
        id |-> id, had |-> token[id] # "none"]]
  /\ UNCHANGED <<accountVars, syncState, resultVars, auth, syncVars, faults>>

RevokesTokenNever(r) == FALSE
RevokesToken(r) == revoke[r].had

RevokeAccount(r) ==
  /\ revoke[r].pc = "account"
  /\ revoke' = [revoke EXCEPT ![r].pc = IF RevokesToken(r) THEN "token" ELSE "revoked"]
  /\ status' = [status EXCEPT ![revoke[r].id] = "revoked"]
  /\ UNCHANGED <<owner, token, syncState, resultVars, auth, syncVars, faults>>

RevokeToken(r) ==
  /\ revoke[r].pc = "token"
  /\ revoke' = [revoke EXCEPT ![r].pc = "revoked"]
  /\ token' = [token EXCEPT ![revoke[r].id] = "revoked"]
  /\ UNCHANGED <<owner, status, syncState, resultVars, auth, syncVars, faults>>

-----------------------------------------------------------------------------
(* Synchronising. *)

Over(s) == sync[s].pc \in SyncEnds /\ open[s] = {}

(* The account is read, and its mail fetched with the token read with it;   *)
(* neither connection_status nor token_status is looked at.                 *)
NeverMissing(id) == FALSE
Missing(id) == owner[id] = NoUser

ReadAccount(s, id) ==
  /\ sync[s].pc = "new"
  /\ sync' = [sync EXCEPT ![s] =
       [pc |-> IF Missing(id) THEN "missing" ELSE "find", id |-> id, user |-> owner[id]]]
  /\ settled' = [settled EXCEPT ![s] = {x \in Syncs : Over(x)}]
  /\ UNCHANGED <<accountVars, syncState, resultVars, auth, open, revoke, faults>>

(* The state row is looked for, then updated or created; its primary key is *)
(* made of the account and the target.                                      *)
RowTaken(id) == syncState[id] # NoSync

RowNeverFound(id) == FALSE
RowFound(id) == syncState[id] # NoSync

FindState(s) ==
  /\ sync[s].pc = "find"
  /\ sync' = [sync EXCEPT ![s].pc = IF RowFound(sync[s].id) THEN "update" ELSE "create"]
  /\ UNCHANGED <<accountVars, syncState, resultVars, auth, open, settled, revoke, faults>>

(* With the state written, the calls of Promise.all go out together.        *)
StartResults(s) ==
  /\ sync' = [sync EXCEPT ![s].pc = "results"]
  /\ open' = [open EXCEPT ![s] = {"tasks", "briefing", "preferences"}]
  /\ UNCHANGED <<accountVars, resultVars, auth, settled, revoke, faults>>

UpdateState(s) ==
  /\ sync[s].pc = "update"
  /\ StartResults(s)
  /\ UNCHANGED syncState

CreateState(s) ==
  /\ sync[s].pc = "create"
  /\ ~RowTaken(sync[s].id)
  /\ syncState' = [syncState EXCEPT ![sync[s].id] = s]
  /\ StartResults(s)

StateClash(s) ==
  /\ sync[s].pc = "create"
  /\ RowTaken(sync[s].id)
  /\ sync' = [sync EXCEPT ![s].pc = "clash"]
  /\ UNCHANGED <<accountVars, syncState, resultVars, auth, open, settled, revoke, faults>>

(* A call comes back, and may start others; the sync ends with the last.    *)
MessagesNotAwaited(left) == left \subseteq {"preferences"} \cup Types
AllBack(left) == left = {}

CallReturns(s, call, started) ==
  LET left == (open[s] \ {call}) \cup started IN
  /\ call \in open[s]
  /\ open' = [open EXCEPT ![s] = left]
  /\ sync' = [sync EXCEPT ![s].pc = IF @ = "results" /\ AllBack(left) THEN "ok" ELSE @]
  /\ UNCHANGED <<accountVars, syncState, auth, settled, revoke, faults>>

(* The snapshots of the day are upserted: the last writer's stay.           *)
SaveTasks(s) ==
  /\ CallReturns(s, "tasks", {})
  /\ tasks' = [tasks EXCEPT ![sync[s].user] = s]
  /\ UNCHANGED <<briefing, messages>>

SaveBriefing(s) ==
  /\ CallReturns(s, "briefing", {})
  /\ briefing' = [briefing EXCEPT ![sync[s].user] = s]
  /\ UNCHANGED <<tasks, messages>>

ReadPreferences(s) ==
  /\ CallReturns(s, "preferences", Types)
  /\ UNCHANGED resultVars

CreateMessage(s, type) ==
  /\ CallReturns(s, type, {})
  /\ messages' = [messages EXCEPT ![s] = @ \cup {type}]
  /\ UNCHANGED <<tasks, briefing>>

-----------------------------------------------------------------------------
(* Faults. *)

Fault ==
  /\ faults < MaxFaults
  /\ faults' = faults + 1
  /\ UNCHANGED <<accountVars, syncState, resultVars, settled>>

(* One of the calls of Promise.all is refused: the sync fails at once, and  *)
(* the other calls run on.                                                  *)
CallFails(s, call) ==
  /\ Fault
  /\ call \in open[s]
  /\ open' = [open EXCEPT ![s] = @ \ {call}]
  /\ sync' = [sync EXCEPT ![s].pc = "failed"]
  /\ UNCHANGED <<auth, revoke>>

(* An awaited call fails, or the process dies: of the calls it had started  *)
(* the database may still execute some.                                     *)
SyncFails(s) ==
  /\ Fault
  /\ sync[s].pc \in SyncSteps \ {"new"}
  /\ sync' = [sync EXCEPT ![s].pc = "failed"]
  /\ \E calls \in SUBSET (open[s] \ {"preferences"}) : open' = [open EXCEPT ![s] = calls]
  /\ UNCHANGED <<auth, revoke>>

AuthorizationFails(a) ==
  /\ Fault
  /\ auth[a].pc \in {"save", "token"}
  /\ auth' = [auth EXCEPT ![a].pc = "failed"]
  /\ UNCHANGED <<syncVars, revoke>>

RevocationFails(r) ==
  /\ Fault
  /\ revoke[r].pc \in {"account", "token"}
  /\ revoke' = [revoke EXCEPT ![r].pc = "failed"]
  /\ UNCHANGED <<syncVars, auth>>

-----------------------------------------------------------------------------
AuthorizationStep(a) ==
  \/ \E u \in Users : BeginAuthorization(a, u)
  \/ SaveAccount(a) \/ SaveToken(a)

RevocationStep(r) ==
  \/ \E id \in Ids : ReadForRevoke(r, id)
  \/ RevokeAccount(r) \/ RevokeToken(r)

SyncStep(s) ==
  \/ \E id \in Ids : ReadAccount(s, id)
  \/ FindState(s) \/ UpdateState(s) \/ CreateState(s) \/ StateClash(s)
  \/ SaveTasks(s) \/ SaveBriefing(s) \/ ReadPreferences(s)
  \/ \E type \in Types : CreateMessage(s, type)

Next ==
  \/ \E a \in Authorizations : AuthorizationStep(a) \/ AuthorizationFails(a)
  \/ \E r \in Revocations : RevocationStep(r) \/ RevocationFails(r)
  \/ \E s \in Syncs : SyncStep(s) \/ SyncFails(s) \/ \E call \in Calls : CallFails(s, call)

Spec == Init /\ [][Next]_vars

-----------------------------------------------------------------------------
(* Properties. *)

(* A sync answered without an error has done everything: the account has    *)
(* its state row, both messages exist, and the user's snapshots are its own *)
(* or come from a sync that ran with it, never from one that had ended      *)
(* before it began.                                                         *)
AnsweredWhole ==
  \A s \in Syncs : sync[s].pc = "ok" =>
    /\ syncState[sync[s].id] # NoSync
    /\ messages[s] = Types
    /\ tasks[sync[s].user] \notin settled[s] \cup {NoSync}
    /\ briefing[sync[s].user] \notin settled[s] \cup {NoSync}

(* A user's snapshots come from syncs of the user's own accounts, whatever  *)
(* authorisations clash on an account's identifier meanwhile.               *)
SnapshotsOfOwner ==
  \A u \in Users : \A s \in {tasks[u], briefing[u]} \ {NoSync} : owner[sync[s].id] = u

(* A sync fails to create the state row only because a sync that ran with   *)
(* it had created the row meanwhile, and that one gets on with its results: *)
(* of the first syncs of an account never all lose.                         *)
ClashExplained ==
  \A s \in Syncs : sync[s].pc = "clash" =>
    LET winner == syncState[sync[s].id] IN
    /\ winner \notin settled[s] \cup {s, NoSync}
    /\ sync[winner].id = sync[s].id
    /\ sync[winner].pc \in {"results", "ok", "failed"}

(* Account and token agree on a revocation, but for the token of one that   *)
(* is in progress, has failed, or read the account before its callback had  *)
(* saved the token.                                                         *)
TokenFollowsAccount ==
  \A id \in Ids :
    /\ token[id] = "revoked" => status[id] = "revoked"
    /\ status[id] = "revoked" /\ token[id] = "active" =>
         \E r \in Revocations :
           /\ revoke[r].id = id
           /\ \/ revoke[r].pc \in {"token", "failed"}
              \/ revoke[r].pc = "revoked" /\ ~revoke[r].had

(* Syncs of one account that all end without a fault have not all lost to   *)
(* one another: one of them answered and created its messages.              *)
OneSyncSucceeds ==
  \A id \in Ids :
    LET ofAccount == {s \in Syncs : sync[s].id = id /\ sync[s].pc # "missing"} IN
    ofAccount # {} /\ (\A s \in ofAccount : Over(s) /\ sync[s].pc # "failed") =>
      \E s \in ofAccount : sync[s].pc = "ok" /\ messages[s] = Types

(* A snapshot of the day is never replaced by one of a sync that had ended  *)
(* before the sync it came from began.                                      *)
NewerThan(before, after) ==
  \A u \in Users : before[u] # NoSync =>
    after[u] \notin settled[before[u]] \cup {NoSync}
SnapshotsNotSetBack ==
  [][NewerThan(tasks, tasks') /\ NewerThan(briefing, briefing')]_vars
=============================================================================
