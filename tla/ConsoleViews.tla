------------------------------ MODULE ConsoleViews ------------------------------
(***************************************************************************)
(* The views of the web console, App.tsx, between the API behind api.ts    *)
(* and the demo data: what the loaders fetch, when effects and handlers    *)
(* begin them, what becomes of their answers.                              *)
(*                                                                         *)
(* A loader sets its view to the answers whenever they have all arrived,   *)
(* for the user, the organisation and the filter it was begun with.  A     *)
(* handler keeps what the page had when its button was pressed; it awaits  *)
(* its call and begins its loaders.  Nothing is disabled meanwhile.  A     *)
(* call that is answered 500, or whose connection fails, is answered by    *)
(* demo-data.ts; one that fails otherwise throws, and its loader or        *)
(* handler ends.                                                           *)
(*                                                                         *)
(* The calls of Governance are followed step by step, from this page and   *)
(* from other clients.  Of what the other pages of the API hold only the   *)
(* number of its changes is kept, for they are modelled elsewhere.         *)
(*                                                                         *)
(* The views do not depend on one another: a behaviour follows one of them *)
(* and the buttons that load it.                                           *)
(***************************************************************************)
EXTENDS Governance, Sequences

CONSTANTS
  LabOrg,
  Views,            (* the views of which one is followed                  *)
  ConsolePreference,(* notif-pref-line-demo                                *)
  Contexts,         (* users and organisations one may sign in for         *)
  Buttons,          (* buttons that may be pressed                         *)
  Handlers,         (* presses of buttons, numbered in their order         *)
  Filters,          (* values of the job filter, "" for none               *)
  Selections,       (* instances and conversations one may select; those   *)
                    (* of the demo data are indices                        *)
  NoData,
  MaxChanges,       (* bound: changes of context, filter, language and     *)
                    (* demo data, and of what the API holds by others      *)
  MaxLoads          (* bound: loads of a view in flight when one begins    *)

Demo == INSTANCE DemoStore

AllViews == {"catalog", "instances", "snapshots", "connectors",
             "notifications", "jobs", "governance", "conversations", "detail"}

CallButtons == {"apply", "converse", "send", "authorize", "revoke", "sync", "prefer", "approve", "reject",
                "schedule", "run", "retry", "requeue", "bulk",
                "pause", "resume", "settings"}
DemoButtons == {"failedJob", "auditLog", "notification"}

Tables == {"connectors", "snapshots", "messages", "jobs", "queue", "conversations", "events"}

ASSUME ConsoleViewsAssumption ==
  /\ Views \subseteq AllViews
  /\ Contexts \subseteq [user : Users, org : Orgs]
  /\ Buttons \subseteq CallButtons \cup DemoButtons
  /\ ConsolePreference \in Preferences
  /\ Calls \subseteq Nat /\ Handlers \subseteq Nat /\ None \notin Calls
  /\ Filters \subseteq {"", "queued", "running", "completed", "failed"} /\ "" \in Filters
  /\ HomeOrg # LabOrg /\ LabOrg \in Orgs
  /\ MaxChanges \in Nat /\ MaxLoads \in Nat

(* The seeds create approval records. *)
ASSUME RecordsSeeded == Records # {}

VARIABLES
  view,         (* the view followed                                       *)
  context,      (* auth: user_id and current_organization                  *)
  filter,       (* jobStatusFilter, or the instance or conversation that   *)
                (* is selected, as the view goes by                        *)
  demo,         (* state of demo-data.ts                                   *)
  loads,        (* its loads in flight, in the order they began            *)
  shown,        (* the load that was applied last                          *)
  handler,      (* handlers: button, next step, what it keeps              *)
  changed,      (* tables kept elsewhere: the number of their changes      *)
  occupied,     (* contexts with connectors, schedules or jobs             *)
  changes       (* the number of changes counted by MaxChanges             *)

pageVars == <<view, context, filter, demo, loads, shown, handler>>
tableVars == <<changed, occupied>>
vars == <<serviceVars, pageVars, tableVars, changes>>

-----------------------------------------------------------------------------
(* What api.ts fetches: of each part of a view the answer of the API and    *)
(* that of the demo data.  Of an API answer that is modelled elsewhere only *)
(* the number of changes it shows is kept.                                  *)

Fetched(api, local) == [api |-> api, demo |-> local]

listAssistantCatalog == Fetched(Definitions, DOMAIN Demo!SeededCatalog)
listInstances(u) ==
  Fetched([i \in listAssistantInstances(u) |-> instance[i]], DOMAIN demo.instances)
getTodaySnapshots == Fetched(changed.snapshots, demo.tasks)
listConversations(i) == Fetched(changed.conversations, Demo!listConversations(demo, i))
getConversationDetail(c) ==
  Fetched(changed.events, Demo!getConversationDetail(demo, c))
listConnectorAccounts == Fetched(changed.connectors, DOMAIN demo.connectors)
listPreferences(u) == Fetched(listNotificationPreferences(u), {SeededPreference})
listMessages == Fetched(changed.messages, Len(demo.messages))
listJobsAndQueue(f) ==
  Fetched(<<changed.jobs, changed.queue>>,
          {i \in Demo!listJobs(demo, f) : demo.jobs[i].status = "failed"})
getAdminSummary(at) ==
  Fetched([pending |-> getSummary(at.org, at \in occupied), occupied |-> at \in occupied],
          [pending |-> demo.summary.pending, occupied |-> TRUE])
listApprovalRecords(org) == Fetched(listApprovals(org), demo.approvals)

-----------------------------------------------------------------------------
(* The loaders.  Each part is one call of the API; calls that are made      *)
(* together and never differ in what matters here are one part.             *)

Parts(v) == CASE v = "governance"    -> {"summary", "approvals"}
              [] v = "notifications" -> {"preferences", "messages"}
              [] OTHER               -> {v}

Fetch(part, at, f) ==
  CASE part = "catalog"     -> listAssistantCatalog
    [] part = "instances"   -> listInstances(at.user)
    [] part = "snapshots"   -> getTodaySnapshots
    [] part = "conversations" -> listConversations(f)
    [] part = "detail"      -> getConversationDetail(f)
    [] part = "connectors"  -> listConnectorAccounts
    [] part = "preferences" -> listPreferences(at.user)
    [] part = "messages"    -> listMessages
    [] part = "jobs"        -> listJobsAndQueue(f)
    [] part = "summary"     -> getAdminSummary(at)
    [] part = "approvals"   -> listApprovalRecords(at.org)

Selected == {"conversations", "detail"}
Choices(v) == IF v \in Selected THEN Selections ELSE IF v = "jobs" THEN Filters ELSE {""}

(* What a loader is begun with and its view depends on. *)
Key(v, at, f) ==
  [at |-> IF v \in {"instances", "notifications"} \cup Selected THEN [at EXCEPT !.org = HomeOrg] ELSE at,
   filter |-> f]

NoAnswer == [by |-> "none", data |-> NoData]

(* Histories of a load: old, it was begun with a context or filter the page *)
(* no longer had; behind, one begun later was settled before it; outdated,  *)
(* something it shows was changed and no handler of the page awaits that;   *)
(* torn, an approval record was written between its parts.                  *)
NewLoad(v, at, f, isOld) ==
  [key |-> Key(v, at, f), parts |-> [p \in Parts(v) |-> NoAnswer],
   old |-> isOld, behind |-> FALSE, outdated |-> FALSE, torn |-> FALSE]

Answers(load) == {p \in DOMAIN load.parts : load.parts[p].by # "none"}
Reading(load) == Answers(load) # {}
Complete(load) == Answers(load) = DOMAIN load.parts

(* Loads begin if the view is among those a handler or an effect loads.     *)
Begun(views, at, f) ==
  IF view \notin views THEN loads
  ELSE Append(loads, NewLoad(view, at, f, Key(view, at, f) # Key(view, context', filter')))

(* setAuth fires two effects that load the jobs. *)
BegunForContext(at) ==
  LET load == NewLoad(view, at, filter, FALSE)
  IN  loads \o (IF view = "jobs" THEN <<load, load>> ELSE <<load>>)

Change == changes < MaxChanges /\ changes' = changes + 1
Room == Len(loads) < MaxLoads

AnswerPart(i, p, by) ==
  LET key == loads[i].key
      answer == Fetch(p, key.at, key.filter)
  IN  /\ loads[i].parts[p].by = "none"
      /\ by = "demo" => faults < MaxFaults
      /\ faults' = IF by = "demo" THEN faults + 1 ELSE faults
      /\ loads' = [loads EXCEPT ![i].parts[p] = [by |-> by, data |-> answer[by]]]
      /\ UNCHANGED <<rowVars, now, call, written, view, context, filter, demo, shown, handler,
                     tableVars, changes>>

(* The loads that are left when the one at i is settled. *)
Settled(i) ==
  [j \in 1..(Len(loads) - 1) |->
     IF j < i THEN [loads[j] EXCEPT !.behind = TRUE] ELSE loads[j + 1]]

ApplyLoad(i) ==
  /\ Complete(loads[i])
  /\ shown' = loads[i]
  /\ loads' = Settled(i)
  /\ UNCHANGED <<serviceVars, view, context, filter, demo, handler, tableVars, changes>>

(* An error that is not the demo data's to answer. *)
FailLoad(i) ==
  /\ faults < MaxFaults
  /\ faults' = faults + 1
  /\ shown' = [shown EXCEPT !.behind = @ \/ ~loads[i].behind]
  /\ loads' = Settled(i)
  /\ UNCHANGED <<rowVars, now, call, written, view, context, filter, demo, handler,
                 tableVars, changes>>

-----------------------------------------------------------------------------
(* What api.ts posts: the request to Governance, None if the call is        *)
(* modelled elsewhere; the tables changed elsewhere; the state of the demo  *)
(* data once they have answered instead.                                    *)

Post(request, writes, local) == [request |-> request, writes |-> writes, demo |-> local]
PostElsewhere(writes, local) == Post(None, writes, local)

createAssistantInstance(d, u) ==
  Post(CreateRequest(u, d), {}, Demo!createAssistantInstance(demo, d))
updateNotificationPreference(u) ==
  Post(PreferenceRequest(ConsolePreference, u), {}, Demo!updateNotificationPreference(demo))
approveRequest(r, u) == Post(ApproveRequest(r, u), {}, Demo!approveRequest(demo, r))
rejectRequest(r, u) == Post(RejectRequest(r, u), {}, Demo!rejectRequest(demo, r))
beginConnectorAuthorization == PostElsewhere({"connectors"}, Demo!authorizeConnector(demo))
createConversation(i) == PostElsewhere({"conversations"}, Demo!createConversation(demo, i))
sendConversationMessage(c) ==
  PostElsewhere({"events"},
    IF Demo!KnowsConversation(demo, c) THEN Demo!sendConversationMessage(demo, c) ELSE demo)
revokeConnector(id) == PostElsewhere({"connectors"}, Demo!revokeConnector(demo, id))
syncConnector(id) ==
  PostElsewhere({"connectors", "snapshots", "messages"}, Demo!syncConnector(demo))
createSchedule == PostElsewhere({"jobs"}, Demo!createSchedule(demo))
runJob == PostElsewhere({"jobs"}, Demo!runJob(demo))
retryJob(id) == PostElsewhere({"jobs"}, Demo!retryJob(demo, id))
requeueFailedJob(id) == PostElsewhere({"jobs"}, Demo!requeueFailedJob(demo, id))
bulkRequeueFailedJobs(ids) == PostElsewhere({"jobs"}, Demo!bulkRequeueFailedJobs(demo, ids))
pauseQueue == PostElsewhere({"queue"}, Demo!pauseQueue(demo))
resumeQueue == PostElsewhere({"queue"}, Demo!resumeQueue(demo))
updateQueueSettings(input) == PostElsewhere({"queue"}, Demo!updateQueueSettings(demo, input))

-----------------------------------------------------------------------------
(* The handlers of App.tsx: the call each makes and the views it loads when *)
(* that is answered.                                                        *)

Handle(post, reloads) == [post |-> post, reloads |-> reloads]

handleApplyAssistant(d, u) == Handle(createAssistantInstance(d, u), {"instances"})
handleCreateConversation(i) == Handle(createConversation(i), {"conversations"})
handleSendMessage(c) == Handle(sendConversationMessage(c), {"detail"})
handleAuthorizeConnector == Handle(beginConnectorAuthorization, {"connectors"})
handleRevokeConnector(id) == Handle(revokeConnector(id), {"connectors"})
handleSyncConnector(id) ==
  Handle(syncConnector(id), {"connectors", "snapshots", "notifications", "jobs"})
handleSetLinePreference(u) == Handle(updateNotificationPreference(u), {"notifications"})
handleApproveOnly(r, u) == Handle(approveRequest(r, u), {})
handleApprove(r, u) == Handle(approveRequest(r, u), {"governance"})
handleReject(r, u) == Handle(rejectRequest(r, u), {"governance"})
handleCreateSchedule == Handle(createSchedule, {"jobs"})
handleRunScheduledJob == Handle(runJob, {"jobs", "connectors", "snapshots", "notifications"})
handleRetryJob(id) == Handle(retryJob(id), {"jobs"})
handleRequeueFailedJob(id) == Handle(requeueFailedJob(id), {"jobs"})
handleBulkRequeueFailedJobs(ids) == Handle(bulkRequeueFailedJobs(ids), {"jobs"})
handlePauseQueue == Handle(pauseQueue, {"jobs"})
handleResumeQueue == Handle(resumeQueue, {"jobs"})
handleUpdateQueueSettings ==
  Handle(updateQueueSettings([concurrency |-> 1, rate |-> 30]), {"jobs"})

(* The calls answered by the demo data at once. *)
handleAddDemoFailedJob == Handle(PostElsewhere({}, Demo!addDemoFailedJob(demo)), {"jobs"})
handleAddDemoAuditLog == Handle(PostElsewhere({}, Demo!addDemoAuditLog(demo)), {"governance"})
handleAddDemoNotification ==
  Handle(PostElsewhere({}, Demo!addDemoNotification(demo)), {"notifications", "governance"})

HandlerOf(button, id, u) ==
  CASE button = "apply"        -> handleApplyAssistant(id, u)
    [] button = "converse"     -> handleCreateConversation(id)
    [] button = "send"         -> handleSendMessage(id)
    [] button = "authorize"    -> handleAuthorizeConnector
    [] button = "revoke"       -> handleRevokeConnector(id)
    [] button = "sync"         -> handleSyncConnector(id)
    [] button = "prefer"       -> handleSetLinePreference(u)
    [] button = "approve"      -> handleApprove(id, u)
    [] button = "reject"       -> handleReject(id, u)
    [] button = "schedule"     -> handleCreateSchedule
    [] button = "run"          -> handleRunScheduledJob
    [] button = "retry"        -> handleRetryJob(id)
    [] button = "requeue"      -> handleRequeueFailedJob(id)
    [] button = "bulk"         -> handleBulkRequeueFailedJobs(id)
    [] button = "pause"        -> handlePauseQueue
    [] button = "resume"       -> handleResumeQueue
    [] button = "settings"     -> handleUpdateQueueSettings
    [] button = "failedJob"    -> handleAddDemoFailedJob
    [] button = "auditLog"     -> handleAddDemoAuditLog
    [] button = "notification" -> handleAddDemoNotification

(* The views that show what a call writes; times, as that of the last       *)
(* activity of a conversation, are left out.                                *)
ViewOf(op) == CASE op \in Decisions             -> "governance"
                [] op \in Changes \cup {"create"} -> "instances"
                [] op = "prefer"                -> "notifications"

TablesOf(v) == CASE v = "notifications" -> {"messages"}
                 [] v = "jobs"          -> {"jobs", "queue"}
                 [] v = "detail"        -> {"events"}
                 [] OTHER               -> {v}

Concerns(handled) ==
  LET post == handled.post
  IN  \/ view \in handled.reloads
      \/ post.writes \cap TablesOf(view) # {}
      \/ post.request # None /\ ViewOf(post.request.op) = view

(* The items a button is shown for, if they are those of the view followed; *)
(* None stands for any other item of the API.                               *)
Offered(part, ofAPI) ==
  CASE part \notin DOMAIN shown.parts -> {None}
    [] shown.parts[part].by = "api"   -> ofAPI
    [] shown.parts[part].by = "demo"  -> shown.parts[part].data

ListedApprovals ==
  IF view = "governance" THEN DOMAIN shown.parts["approvals"].data ELSE {Placeholder}

DemoSelection(list) ==
  IF view \in Selected /\ filter \in DOMAIN list THEN filter ELSE None

ItemsOf(button) ==
  CASE button = "apply"                 -> Offered("catalog", Definitions) \cup Definitions
    [] button \in {"approve", "reject"} -> ListedApprovals
    [] button \in {"revoke", "sync"}    -> Offered("connectors", {None})
    [] button \in {"retry", "requeue"}  -> Offered("jobs", {None})
    [] button = "converse"              -> {DemoSelection(demo.instances)}
    [] button = "send"                  -> {DemoSelection(demo.conversations)}
    [] button = "bulk"                  -> (SUBSET Offered("jobs", {None})) \ {{}}
    [] OTHER                            -> {None}

-----------------------------------------------------------------------------
(* Initially the page has loaded the view for its first context. *)

Loaded(load) ==
  [load EXCEPT !.parts = [p \in DOMAIN load.parts |->
     [by |-> "api", data |-> Fetch(p, load.key.at, load.key.filter).api]]]


NoPress == [button |-> "none", pc |-> "new", id |-> None, call |-> None,
            at |-> [user |-> SeededUser, org |-> HomeOrg], filter |-> ""]

Init ==
  /\ ServiceInit
  /\ context = [user |-> SeededUser, org |-> HomeOrg]
  /\ demo = Demo!createInitialState
  /\ handler = [h \in Handlers |-> NoPress]
  /\ changed = [t \in Tables |-> 0]
  /\ occupied = {}
  /\ view \in Views
  /\ filter \in IF view = "jobs" THEN {""} ELSE Choices(view)
  /\ shown = Loaded(NewLoad(view, context, filter, FALSE))
  /\ loads = <<>>
  /\ changes = 0

-----------------------------------------------------------------------------
(* Handlers: a button is pressed, the call is answered. *)

NextPress(h) ==
  handler[h].pc = "new" /\ \A g \in Handlers : g < h => handler[g].pc # "new"

Pressed(button, id, c) ==
  [button |-> button, pc |-> "calling", id |-> id, call |-> c,
   at |-> context, filter |-> filter]

Press(h, button, id, c) ==
  LET handled == HandlerOf(button, id, context.user)
      request == handled.post.request
  IN  /\ NextPress(h)
      /\ Concerns(handled)
      /\ IF request = None
         THEN c = None /\ UNCHANGED call
         ELSE c # None /\ Arrive(c, request) /\ \A d \in Calls : d < c => call[d].pc # "idle"
      /\ handler' = [handler EXCEPT ![h] = Pressed(button, id, c)]
      /\ UNCHANGED <<rowVars, now, written, faults, view, context, filter, demo, loads, shown,
                     tableVars, changes>>

(* The three buttons that only change the demo data, at once. *)
PressDemo(button) ==
  LET handled == HandlerOf(button, None, context.user)
  IN  /\ Change /\ Room
      /\ view \in handled.reloads
      /\ demo' = handled.post.demo
      /\ UNCHANGED <<serviceVars, view, context, filter, handler, shown, tableVars>>
      /\ loads' = Begun(handled.reloads, context, filter)

Calling(h) == handler[h].pc \in {"calling", "served", "refused"}
Pushed(h) == HandlerOf(handler[h].button, handler[h].id, handler[h].at.user)

(* A call that is modelled elsewhere is made by the API, or refused: a job  *)
(* must be known, and to be requeued have failed, an instance and a         *)
(* conversation must be known.  Other identifiers of the demo data change   *)
(* nothing there.                                                           *)
IdOfAPI(h) == IF handler[h].button = "bulk" THEN None \in handler[h].id ELSE handler[h].id = None
Refusing == {"retry", "requeue", "converse", "send"}

Serve(h) ==
  /\ handler[h].pc = "calling" /\ handler[h].call = None
  /\ IdOfAPI(h) \/ handler[h].button \notin Refusing
  /\ handler' = [handler EXCEPT ![h].pc = "served"]
  /\ changed' = [t \in Tables |->
                   IF IdOfAPI(h) /\ t \in Pushed(h).post.writes THEN changed[t] + 1 ELSE changed[t]]
  /\ UNCHANGED <<serviceVars, view, context, filter, demo, loads, shown, occupied, changes>>

Refuse(h) ==
  /\ handler[h].pc = "calling" /\ handler[h].button \in Refusing
  /\ handler' = [handler EXCEPT ![h].pc = "refused"]
  /\ UNCHANGED <<serviceVars, view, context, filter, demo, loads, shown, tableVars, changes>>

CallIs(h, pc) == \E c \in Calls : handler[h].call = c /\ call[c].pc = pc
Answered(h) == handler[h].pc = "served" \/ CallIs(h, "answered")
Refused(h) == handler[h].pc = "refused" \/ CallIs(h, "failed")

(* The rest of a handler: it begins its loaders with what the page had when *)
(* the button was pressed.                                                  *)
Reload(h) ==
  /\ Room
  /\ handler' = [handler EXCEPT ![h] = [NoPress EXCEPT !.pc = "done"]]
  /\ UNCHANGED <<view, context, filter>>
  /\ loads' = Begun(Pushed(h).reloads, handler[h].at, handler[h].filter)
  /\ UNCHANGED <<rowVars, now, call, written, shown, tableVars, changes>>

CallAnswered(h) ==
  /\ Calling(h) /\ Answered(h)
  /\ Reload(h)
  /\ UNCHANGED <<demo, faults>>

(* The demo data answer for an API that refused, failed or was not heard.   *)
DemoCan(h) == handler[h].button = "send" => Demo!KnowsConversation(demo, handler[h].id)

DemoAnswers(h) ==
  /\ Calling(h) /\ DemoCan(h)
  /\ faults' = IF Refused(h) THEN faults ELSE faults + 1
  /\ faults' <= MaxFaults
  /\ demo' = Pushed(h).post.demo
  /\ Reload(h)

(* What the view shows is out of date. *)
Outdated(isOutdated) ==
  IF ~isOutdated THEN UNCHANGED <<loads, shown>>
  ELSE /\ shown' = [shown EXCEPT !.outdated = TRUE]
       /\ loads' = [i \in DOMAIN loads |-> [loads[i] EXCEPT !.outdated = @ \/ Reading(loads[i])]]

HasChanged(h) ==
  handler[h].pc = "served" \/ \E c \in Calls : handler[h].call = c /\ HasWritten(c)

(* An error that is not the demo data's, or that they do not know the       *)
(* conversation either: nothing is loaded.                                  *)
Throw(h) ==
  /\ Calling(h)
  /\ faults' = IF Refused(h) /\ ~DemoCan(h) THEN faults ELSE faults + 1
  /\ faults' <= MaxFaults
  /\ handler' = [handler EXCEPT ![h] = [NoPress EXCEPT !.pc = "done"]]
  /\ Outdated(HasChanged(h))
  /\ UNCHANGED <<rowVars, now, call, written, view, context, filter, demo, tableVars, changes>>

-----------------------------------------------------------------------------
(* The API at work.  Its writes make out of date what no handler of the     *)
(* page is going to load again.                                             *)

Awaited(c) == \E h \in Handlers : Calling(h) /\ handler[h].call = c

(* A decision between the parts of a load of the governance view tears it.  *)
Torn(load) == [load EXCEPT !.torn = @ \/ (Reading(load) /\ ~Complete(load))]

Writer(c) == HasWritten(c)' /\ ~HasWritten(c) /\ view = ViewOf(call[c].op)

ServiceMoves ==
  /\ ServiceStep
  /\ LET isWritten == \E c \in Calls : Writer(c)
         isOutdated == \E c \in Calls : Writer(c) /\ ~Awaited(c)
     IN  /\ shown' = [shown EXCEPT !.outdated = @ \/ isOutdated]
         /\ loads' = [i \in DOMAIN loads |-> IF isWritten
              THEN [Torn(loads[i]) EXCEPT !.outdated = @ \/ (isOutdated /\ Reading(loads[i]))]
              ELSE loads[i]]
  /\ UNCHANGED <<view, context, filter, demo, handler, tableVars, changes>>

(* Requests of other clients that change what the view shows.               *)
OtherClients(c) ==
  /\ Change
  /\ \A d \in Calls : d < c => call[d].pc # "idle"
  /\ Request(c)
  /\ ViewOf(call'[c].op) = view /\ call'[c].id # Placeholder
  /\ UNCHANGED <<pageVars, tableVars>>

ChangeElsewhere(t) ==
  /\ Change
  /\ changed' = [changed EXCEPT ![t] = @ + 1]
  /\ t \in TablesOf(view)
  /\ Outdated(TRUE)
  /\ UNCHANGED <<serviceVars, view, context, filter, demo, handler, occupied>>

(* The other pages, or other clients, create the first connector, schedule  *)
(* or job, of a user in an organisation.                                    *)
Occupy(at) ==
  /\ Change
  /\ view = "governance" /\ at \notin occupied
  /\ occupied' = occupied \cup {at}
  /\ UNCHANGED <<serviceVars, pageVars, changed>>

-----------------------------------------------------------------------------
(* Effects. *)

(* setAuth, with what the API or the demo data answered to a handler of     *)
(* ConsoleSession.                                                          *)
SetAuth(at) ==
  /\ Change /\ Room
  /\ context' = at
  /\ loads' = BegunForContext(at)
  /\ UNCHANGED <<serviceVars, view, filter, demo, shown, handler, tableVars>>

SetAuthByDemo(org) ==
  /\ Change /\ Room
  /\ faults < MaxFaults /\ faults' = faults + 1
  /\ demo' = Demo!switchOrganization(demo, org)
  /\ context' = [user |-> SeededUser, org |-> demo'.org]
  /\ loads' = BegunForContext(context')
  /\ UNCHANGED <<rowVars, now, call, written, view, filter, shown, handler, tableVars>>

(* A filter is set; an instance or a conversation is selected, by a click   *)
(* or because a list was loaded in which it is the first.                   *)
Choose(f) ==
  /\ f # filter
  /\ Change /\ Room
  /\ filter' = f
  /\ UNCHANGED <<serviceVars, view, context, demo, shown, handler, tableVars>>
  /\ loads' = Begun({view}, context, f)

SetLocale ==
  /\ Change /\ Room
  /\ demo' = Demo!setDemoLocale(demo)
  /\ UNCHANGED <<serviceVars, view, context, filter, shown, handler, tableVars>>
  /\ loads' = Begun(AllViews \ Selected, context, filter)

(* The timer of the views admin and connectors. *)
TimerFires ==
  /\ view = "jobs" /\ Room
  /\ UNCHANGED <<serviceVars, view, context, filter, demo, shown, handler, tableVars, changes>>
  /\ loads' = Begun({"jobs"}, context, filter)

-----------------------------------------------------------------------------
LoadStep ==
  \E i \in DOMAIN loads :
    \/ \E p \in Parts(view), by \in {"api", "demo"} : AnswerPart(i, p, by)
    \/ ApplyLoad(i)
    \/ FailLoad(i)

HandlerStep(h) ==
  \/ \E button \in CallButtons \cap Buttons, c \in Calls \cup {None} :
       \E id \in ItemsOf(button) : Press(h, button, id, c)
  \/ Serve(h) \/ Refuse(h)
  \/ CallAnswered(h) \/ DemoAnswers(h) \/ Throw(h)

EffectStep ==
  \/ \E at \in Contexts : SetAuth(at)
  \/ \E org \in Orgs : SetAuthByDemo(org)
  \/ \E f \in Choices(view) : Choose(f)
  \/ SetLocale
  \/ TimerFires

Next ==
  \/ LoadStep
  \/ \E h \in Handlers : HandlerStep(h)
  \/ \E button \in DemoButtons \cap Buttons : PressDemo(button)
  \/ EffectStep
  \/ ServiceMoves
  \/ \E c \in Calls : OtherClients(c)
  \/ \E t \in Tables : ChangeElsewhere(t)
  \/ \E at \in Contexts : Occupy(at)

Spec == Init /\ [][Next]_vars

-----------------------------------------------------------------------------
(* Properties. *)

FromAPI == \A p \in Parts(view) : shown.parts[p].by = "api"

(* What the API would answer now, of the summary as far as it depends on    *)
(* the approval records: no handler loads it again when connectors,         *)
(* schedules or jobs change.                                                *)
IsPresent(p) ==
  LET data == shown.parts[p].data
      key == shown.key
  IN  IF p = "summary" THEN data.pending = getSummary(key.at.org, data.occupied)
      ELSE data = Fetch(p, key.at, key.filter).api

AtRest == loads = <<>> /\ \A h \in Handlers : ~Calling(h)

(* A view at rest shows what the API holds for the user, the organisation   *)
(* and the filter of the page, except after one of four things: a load      *)
(* begun later was answered or failed before the one shown; a handler begun *)
(* before the change of context or filter loaded it; something was changed  *)
(* that no handler awaited; the demo data answered.                         *)
ViewAgrees ==
  AtRest =>
    \/ shown.behind \/ shown.old \/ shown.outdated \/ ~FromAPI
    \/ /\ shown.key = Key(view, context, filter)
       /\ \A p \in Parts(view) : IsPresent(p)

(* The count of pending approvals is that of the list beside it, at rest or *)
(* not, unless a decision was written between the two calls, or the list is *)
(* made up beside a summary that is not.                                    *)
SummaryAgrees ==
  view = "governance" /\ FromAPI /\ ~shown.torn =>
    LET parts == shown.parts
    IN  \/ parts["summary"].data.pending = PendingIn(parts["approvals"].data)
        \/ Placeholder \in DOMAIN parts["approvals"].data /\ parts["summary"].data.occupied

(* The summary of the demo data is that of its lists, whatever the order in *)
(* which calls of both kinds of buttons fell back to it.                    *)
DemoSummaryAgrees == Demo!SummaryAgreesWithLists(demo)
=============================================================================
