------------------------------- MODULE DemoStore -------------------------------
(***************************************************************************)
(* demo-data.ts: the state the web console keeps in the page to answer     *)
(* calls the API does not answer, and the operations of demoData as        *)
(* functions from one state to the next.                                   *)
(*                                                                         *)
(* The code puts new items at the front of its lists; here a list is in    *)
(* order of creation, so that an item is known by its index for good and   *)
(* state.x[0] is the last one.  Any other identifier, as the API gives     *)
(* them, is found in no list.  Names, texts and times are left out.        *)
(***************************************************************************)
EXTENDS Naturals, Sequences, FiniteSets

CONSTANTS HomeOrg, LabOrg     (* org_demo_001 and org_demo_002 *)

Front(list) == list[Len(list)]
FoundOrFront(list, id) == IF id \in DOMAIN list THEN id ELSE Len(list)
CountOf(list, status) == Cardinality({i \in DOMAIN list : list[i] = status})

Job(status, retries) == [status |-> status, retries |-> retries]
CompletedJobs(jobs) == Cardinality({i \in DOMAIN jobs : jobs[i].status = "completed"})

(* The items demo-data.ts begins with. *)
SeededCatalog == <<"not_required", "not_required", "pending">>
SeededInstances == <<"not_required">>           (* their approval_status *)
SeededConversations == <<[instance |-> 1, events |-> 2]>>
SeededTasks == 3
SeededConnectors == <<"active">>
SeededMessages == <<"sent", "delivered", "sent">>
SeededApprovals == <<"approved", "pending">>
SeededAudits == <<"approval_granted", "notification_dispatch", "connector_sync">>
SeededSchedules == 1
SeededJobs == <<Job("failed", 1), Job("completed", 0)>>
SeededQueue == [paused |-> FALSE, settings |-> [concurrency |-> 2, rate |-> 60],
                recent |-> <<"failed", "completed">>, dead |-> <<"failed">>]

(* Of the counts only that of the pending approvals is written out.         *)
SeededSummary ==
  [pending |-> 1,
   audits |-> Len(SeededAudits), latestAudit |-> Front(SeededAudits),
   connectors |-> Len(SeededConnectors), schedules |-> SeededSchedules,
   jobs |-> Len(SeededJobs), completed |-> CompletedJobs(SeededJobs),
   latestJob |-> Front(SeededJobs).status]

createInitialState ==
  [org |-> HomeOrg, instances |-> SeededInstances, conversations |-> SeededConversations,
   tasks |-> SeededTasks, connectors |-> SeededConnectors, messages |-> SeededMessages,
   approvals |-> SeededApprovals, audits |-> SeededAudits, schedules |-> SeededSchedules,
   jobs |-> SeededJobs, queue |-> SeededQueue, summary |-> SeededSummary]

(* A change of the language begins the state anew. *)
setDemoLocale(s) == createInitialState

-----------------------------------------------------------------------------
(* Organisations, assistants and conversations. *)

switchOrganization(s, org) ==
  [s EXCEPT !.org = IF org \in {HomeOrg, LabOrg} THEN org ELSE @]

(* A definition the catalogue does not have is taken for its first.  An     *)
(* instance is active at once, with its approval pending.                   *)
createAssistantInstance(s, definition) ==
  [s EXCEPT !.instances =
     Append(@, SeededCatalog[IF definition \in DOMAIN SeededCatalog THEN definition ELSE 1])]

listConversations(s, instance) ==
  {i \in DOMAIN s.conversations : s.conversations[i].instance = instance}

createConversation(s, instance) ==
  [s EXCEPT !.conversations = Append(@, [instance |-> instance, events |-> 0])]

getConversationDetail(s, id) == s.conversations[FoundOrFront(s.conversations, id)]

(* The one operation that throws, when it does not know the conversation.   *)
KnowsConversation(s, id) == id \in DOMAIN s.conversations
sendConversationMessage(s, id) == [s EXCEPT !.conversations[id].events = @ + 2]

-----------------------------------------------------------------------------
(* Connectors. *)

authorizeConnector(s) ==
  [s EXCEPT !.connectors = Append(@, "active"),
            !.summary.connectors = Len(s.connectors) + 1]

(* A revoked connector stays in the list and in the count. *)
revokeConnector(s, id) ==
  IF id \in DOMAIN s.connectors THEN [s EXCEPT !.connectors[id] = "revoked"] ELSE s

(* An entry of the audit log, and what the summary says of the log. *)
WithAudit(s, action) ==
  [s EXCEPT !.audits = Append(@, action),
            !.summary.audits = Len(s.audits) + 1,
            !.summary.latestAudit = action]

WithMessage(s, status) == [s EXCEPT !.messages = Append(@, status)]

(* A synchronisation makes a task, a message and a completed job, and       *)
(* counts the jobs and the pending approvals again.                         *)
syncConnector(s) ==
  LET jobs == Append(s.jobs, Job("completed", 0))
  IN  WithAudit(WithMessage(
        [s EXCEPT !.tasks = @ + 1,
                  !.jobs = jobs,
                  !.summary.jobs = Len(jobs),
                  !.summary.completed = CompletedJobs(jobs),
                  !.summary.latestJob = "completed",
                  !.summary.pending = CountOf(s.approvals, "pending")], "sent"),
        "snapshot_refresh")

-----------------------------------------------------------------------------
(* Governance and notifications. *)

DecideUncounted(s, id, status, action) ==
  WithAudit([s EXCEPT !.approvals[FoundOrFront(s.approvals, id)] = status], action)

Decide(s, id, status, action) ==
  LET approvals == [s.approvals EXCEPT ![FoundOrFront(s.approvals, id)] = status]
  IN  WithAudit([s EXCEPT !.approvals = approvals,
                          !.summary.pending = CountOf(approvals, "pending")], action)

approveRequest(s, id) == Decide(s, id, "approved", "approval_granted")
rejectRequest(s, id) == Decide(s, id, "rejected", "approval_rejected")

(* The only preference is active and the default from the beginning. *)
updateNotificationPreference(s) == s

addDemoAuditLog(s) == WithAudit(s, "approval_review")
addDemoNotification(s) == WithMessage(s, "queued")

-----------------------------------------------------------------------------
(* Schedules, jobs and their queue. *)

createSchedule(s) ==
  [s EXCEPT !.schedules = @ + 1, !.summary.schedules = s.schedules + 1]

addDemoFailedJob(s) ==
  LET jobs == Append(s.jobs, Job("failed", 0))
  IN  [s EXCEPT !.jobs = jobs,
                !.queue.recent = Append(@, "failed"),
                !.queue.dead = Append(@, "failed"),
                !.summary.jobs = Len(jobs),
                !.summary.latestJob = "failed"]

(* The newest job is not the one the summary calls the latest. *)
runJob(s) ==
  [s EXCEPT !.jobs = Append(@, Job("queued", 0)), !.summary.jobs = Len(s.jobs) + 1]

(* Any job may be retried; its state is not asked. *)
retryJob(s, id) ==
  LET i == FoundOrFront(s.jobs, id)
  IN  [s EXCEPT !.jobs[i] = Job("queued", @.retries + 1)]

requeueFailedJob(s, id) == retryJob(s, id)

(* One retry after another; every unknown job counts for the newest one.    *)
bulkRequeueFailedJobs(s, ids) ==
  LET times(i) == Cardinality({id \in ids : FoundOrFront(s.jobs, id) = i})
  IN  [s EXCEPT !.jobs = [i \in DOMAIN @ |->
         IF times(i) = 0 THEN @[i] ELSE Job("queued", @[i].retries + times(i))]]

listJobs(s, status) == {i \in DOMAIN s.jobs : status \in {"", s.jobs[i].status}}

pauseQueue(s) == [s EXCEPT !.queue.paused = TRUE]
resumeQueue(s) == [s EXCEPT !.queue.paused = FALSE]
updateQueueSettings(s, input) == [s EXCEPT !.queue.settings = input]

-----------------------------------------------------------------------------
(* What the summary says is what its lists hold, though every operation     *)
(* keeps it up by hand.  A revoked connector counts; a completed job that   *)
(* was retried may still be counted as completed.                           *)
SummaryAgreesWithLists(s) ==
  /\ s.summary.pending = CountOf(s.approvals, "pending")
  /\ s.summary.audits = Len(s.audits)
  /\ s.summary.latestAudit = Front(s.audits)
  /\ s.summary.connectors = Len(s.connectors)
  /\ s.summary.schedules = s.schedules
  /\ s.summary.jobs = Len(s.jobs)
  /\ s.summary.completed >= CompletedJobs(s.jobs)
=============================================================================
