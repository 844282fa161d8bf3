--------------------------- MODULE ConsoleViewsProofs ---------------------------
(***************************************************************************)
(* Theorems about ConsoleViews: whatever is pressed and whatever falls     *)
(* back to the demo data, in any order, their summary is that of their     *)
(* lists; a view at rest shows what the API holds; the summary shown       *)
(* counts the list shown beside it.                                        *)
(*                                                                         *)
(* The operations of demoData are shown one by one to keep a state Kept;   *)
(* then every handler pushes such a state, and every step of the console   *)
(* leaves the state as it is or takes it from a handler.                   *)
(*                                                                         *)
(* Of the views, every load owes the page its current answer unless a      *)
(* later one is in flight or a handler is going to begin one (Owed); each  *)
(* step of a load, of a handler, of the API and of others keeps that.      *)
(***************************************************************************)
EXTENDS ConsoleViews, FiniteSetTheorems, TLAPS

JobStates == {"queued", "completed", "failed"}
Actions == {"approval_granted", "approval_rejected", "approval_review",
            "notification_dispatch", "connector_sync", "snapshot_refresh"}

(* States of the demo data, for conversations with the instances of I and   *)
(* jobs with the numbers of retries of R.                                   *)
Jobs(R) == [status : JobStates, retries : R]
Conversations(I) == [instance : I, events : Nat]
Queues == [paused : BOOLEAN, settings : [concurrency : Nat, rate : Nat],
           recent : Seq(JobStates), dead : Seq(JobStates)]
Summaries == [pending : Nat, audits : Nat, latestAudit : Actions, connectors : Nat,
              schedules : Nat, jobs : Nat, completed : Nat, latestJob : JobStates]
States(I, R) ==
  [org : {HomeOrg, LabOrg}, instances : Seq({"not_required", "pending"}),
   conversations : Seq(Conversations(I)), tasks : Nat, connectors : Seq({"active", "revoked"}),
   messages : Seq({"sent", "delivered", "queued"}),
   approvals : Seq({"approved", "pending", "rejected"}), audits : Seq(Actions),
   schedules : Nat, jobs : Seq(Jobs(R)), queue : Queues, summary : Summaries]

Kept(s) ==
  /\ \E I, R : s \in States(I, R)
  /\ Len(s.approvals) > 0 /\ Len(s.jobs) > 0
  /\ Demo!SummaryAgreesWithLists(s)

-----------------------------------------------------------------------------
(* Counting. *)

LEMMA DemoCardinality == \A S : Demo!Cardinality(S) = Cardinality(S)
  BY DEF Demo!Cardinality, Cardinality

LEMMA CountOfType ==
  ASSUME NEW S, NEW list \in Seq(S), NEW status
  PROVE  Demo!CountOf(list, status) \in Nat
<1> DEFINE A == {i \in DOMAIN list : list[i] = status}
<1>1. A \subseteq 1..Len(list)
  OBVIOUS
<1>2. IsFiniteSet(1..Len(list))
  <2>1. 1 \in Int /\ Len(list) \in Int
    OBVIOUS
  <2>2. QED
    BY <2>1, FS_Interval
<1>3. IsFiniteSet(A)
  BY <1>1, <1>2, FS_Subset
<1>4. Cardinality(A) \in Nat
  BY <1>3, FS_CardinalityType
<1>5. QED
  BY <1>4, DemoCardinality DEF Demo!CountOf

(* Completed jobs are not more when no other job becomes completed.         *)
LEMMA CompletedSubset ==
  ASSUME NEW S, NEW jobs \in Seq(S), NEW T, NEW more \in Seq(T),
         \A i \in DOMAIN jobs : jobs[i].status = "completed" =>
            i \in DOMAIN more /\ more[i].status = "completed"
  PROVE  /\ Demo!CompletedJobs(jobs) \in Nat /\ Demo!CompletedJobs(more) \in Nat
         /\ Demo!CompletedJobs(jobs) <= Demo!CompletedJobs(more)
<1> DEFINE A == {i \in DOMAIN jobs : jobs[i].status = "completed"}
           B == {i \in DOMAIN more : more[i].status = "completed"}
<1>1. A \subseteq B /\ B \subseteq 1..Len(more)
  OBVIOUS
<1>2. IsFiniteSet(1..Len(more))
  <2>1. 1 \in Int /\ Len(more) \in Int
    OBVIOUS
  <2>2. QED
    BY <2>1, FS_Interval
<1>3. IsFiniteSet(B)
  BY <1>1, <1>2, FS_Subset
<1>4. IsFiniteSet(A) /\ Cardinality(A) <= Cardinality(B)
  BY <1>1, <1>3, FS_Subset
<1>5. Cardinality(A) \in Nat /\ Cardinality(B) \in Nat
  BY <1>3, <1>4, FS_CardinalityType
<1>6. Demo!CompletedJobs(jobs) = Cardinality(A) /\ Demo!CompletedJobs(more) = Cardinality(B)
  BY DemoCardinality DEF Demo!CompletedJobs
<1>7. QED
  BY <1>4, <1>5, <1>6

-----------------------------------------------------------------------------
(* The operations of demoData. *)

LEMMA InitialKept == Kept(Demo!createInitialState)
<1> DEFINE s == Demo!createInitialState
<1>1. Demo!SeededJobs \in Seq(Jobs({0, 1})) /\ Len(Demo!SeededJobs) = 2
      /\ Demo!SeededJobs[2].status = "completed"
  BY DEF Demo!SeededJobs, Demo!Job, Jobs, JobStates
<1>2. Demo!SeededApprovals \in Seq({"approved", "pending", "rejected"})
      /\ Len(Demo!SeededApprovals) = 2
  BY DEF Demo!SeededApprovals
<1>3. Demo!SeededAudits \in Seq(Actions) /\ Len(Demo!SeededAudits) \in Nat
      /\ Demo!Front(Demo!SeededAudits) \in Actions
  BY DEF Demo!SeededAudits, Actions, Demo!Front
<1>4. Demo!CompletedJobs(Demo!SeededJobs) \in Nat
  BY <1>1, CompletedSubset
<1>5. Demo!CountOf(Demo!SeededApprovals, "pending") = 1
  <2>1. {i \in DOMAIN Demo!SeededApprovals : Demo!SeededApprovals[i] = "pending"} = {2}
    BY DEF Demo!SeededApprovals
  <2>2. Cardinality({2}) = 1
    BY FS_Singleton
  <2>3. QED
    BY <2>1, <2>2, DemoCardinality DEF Demo!CountOf
<1>6. Demo!SeededConversations \in Seq(Conversations({1}))
  BY DEF Demo!SeededConversations, Conversations
<1>7. Demo!SeededConnectors \in Seq({"active", "revoked"}) /\ Len(Demo!SeededConnectors) \in Nat
      /\ Demo!SeededMessages \in Seq({"sent", "delivered", "queued"})
      /\ Demo!SeededInstances \in Seq({"not_required", "pending"})
      /\ Demo!SeededTasks \in Nat /\ Demo!SeededSchedules \in Nat
  BY DEF Demo!SeededConnectors, Demo!SeededMessages, Demo!SeededInstances,
         Demo!SeededTasks, Demo!SeededSchedules
<1>8. Demo!SeededQueue \in Queues
  BY DEF Demo!SeededQueue, Queues, JobStates
<1>9. Demo!SeededSummary \in Summaries
  BY <1>1, <1>3, <1>4, <1>7 DEF Demo!SeededSummary, Summaries, Demo!Front, JobStates
<1>10. s \in States({1}, {0, 1})
  BY <1>1, <1>2, <1>3, <1>6, <1>7, <1>8, <1>9 DEF Demo!createInitialState, States
<1>11. Demo!SummaryAgreesWithLists(s)
  BY <1>1, <1>4, <1>5 DEF Demo!SummaryAgreesWithLists, Demo!createInitialState, Demo!SeededSummary
<1>12. Len(s.approvals) > 0 /\ Len(s.jobs) > 0
  BY <1>1, <1>2 DEF Demo!createInitialState
<1> HIDE DEF s
<1>13. \E I, R : s \in States(I, R)
  BY <1>10
<1>14. Kept(s)
  BY <1>11, <1>12, <1>13 DEF Kept
<1>15. QED
  BY <1>14 DEF s

LEMMA SeqMonotone ==
  ASSUME NEW S, NEW T, S \subseteq T, NEW q \in Seq(S)
  PROVE  q \in Seq(T)
  OBVIOUS

(* A state whose fields are kept is kept.                                   *)
LEMMA KeptFields ==
  ASSUME NEW I, NEW R, NEW s \in States(I, R), NEW J, NEW Q, NEW t \in States(J, Q),
         Kept(s)
  PROVE  /\ t.jobs = s.jobs /\ t.approvals = s.approvals /\ t.audits = s.audits
            /\ t.connectors = s.connectors /\ t.schedules = s.schedules
            /\ t.summary = s.summary
         => Kept(t)
  BY DEF Kept, Demo!SummaryAgreesWithLists

LEMMA OrganizationKept ==
  ASSUME NEW s, Kept(s), NEW org
  PROVE  Kept(Demo!switchOrganization(s, org))
<1>1. PICK I, R : s \in States(I, R)
  BY DEF Kept
<1> DEFINE t == Demo!switchOrganization(s, org)
<1>2. t \in States(I, R)
  BY <1>1 DEF States, Demo!switchOrganization
<1>3. /\ t.jobs = s.jobs /\ t.approvals = s.approvals /\ t.audits = s.audits
      /\ t.connectors = s.connectors /\ t.schedules = s.schedules /\ t.summary = s.summary
  BY <1>1 DEF States, Demo!switchOrganization
<1> HIDE DEF t
<1>4. QED
  BY <1>1, <1>2, <1>3, KeptFields DEF t

LEMMA InstancesKept ==
  ASSUME NEW s, Kept(s), NEW definition
  PROVE  Kept(Demo!createAssistantInstance(s, definition))
<1>1. PICK I, R : s \in States(I, R)
  BY DEF Kept
<1> DEFINE t == Demo!createAssistantInstance(s, definition)
           d == Demo!SeededCatalog[IF definition \in DOMAIN Demo!SeededCatalog THEN definition ELSE 1]
<1>2. d \in {"not_required", "pending"}
  BY DEF Demo!SeededCatalog
<1>3. t = [s EXCEPT !.instances = Append(@, d)]
  BY DEF Demo!createAssistantInstance
<1> HIDE DEF d, t
<1>4. Append(s.instances, d) \in Seq({"not_required", "pending"})
  BY <1>1, <1>2 DEF States
<1>5. t \in States(I, R)
  BY <1>1, <1>3, <1>4 DEF States
<1>6. /\ t.jobs = s.jobs /\ t.approvals = s.approvals /\ t.audits = s.audits
      /\ t.connectors = s.connectors /\ t.schedules = s.schedules /\ t.summary = s.summary
  BY <1>1, <1>3 DEF States
<1>7. QED
  BY <1>1, <1>5, <1>6, KeptFields DEF t

LEMMA ConversationsKept ==
  ASSUME NEW s, Kept(s), NEW i
  PROVE  /\ Kept(Demo!createConversation(s, i))
         /\ Demo!KnowsConversation(s, i) => Kept(Demo!sendConversationMessage(s, i))
<1>1. PICK I, R : s \in States(I, R)
  BY DEF Kept
<1>2. s.conversations \in Seq(Conversations(I))
  BY <1>1 DEF States
<1>3. Kept(Demo!createConversation(s, i))
  <2> DEFINE t == Demo!createConversation(s, i)
             new == [instance |-> i, events |-> 0]
  <2>1. t = [s EXCEPT !.conversations = Append(@, new)]
    BY DEF Demo!createConversation
  <2>2. new \in Conversations(I \cup {i})
        /\ s.conversations \in Seq(Conversations(I \cup {i}))
    <3>1. Conversations(I) \subseteq Conversations(I \cup {i})
      BY DEF Conversations
    <3>2. s.conversations \in Seq(Conversations(I \cup {i}))
      BY <1>2, <3>1, SeqMonotone
    <3>3. QED
      BY <3>2 DEF Conversations
  <2> HIDE DEF new, t
  <2>3. Append(s.conversations, new) \in Seq(Conversations(I \cup {i}))
    BY <2>2
  <2>4. t \in States(I \cup {i}, R)
    BY <1>1, <2>1, <2>3 DEF States
  <2>5. /\ t.jobs = s.jobs /\ t.approvals = s.approvals /\ t.audits = s.audits
        /\ t.connectors = s.connectors /\ t.schedules = s.schedules /\ t.summary = s.summary
    BY <1>1, <2>1 DEF States
  <2>6. QED
    BY <1>1, <2>4, <2>5, KeptFields DEF t
<1>4. ASSUME Demo!KnowsConversation(s, i) PROVE Kept(Demo!sendConversationMessage(s, i))
  <2> DEFINE t == Demo!sendConversationMessage(s, i)
             c == [s.conversations EXCEPT ![i].events = @ + 2]
  <2>1. t = [s EXCEPT !.conversations = c]
    BY <1>1 DEF Demo!sendConversationMessage, States
  <2>2. c \in Seq(Conversations(I))
    <3>1. s.conversations[i] \in Conversations(I)
      BY <1>2, <1>4 DEF Demo!KnowsConversation
    <3>2. [s.conversations[i] EXCEPT !.events = @ + 2] \in Conversations(I)
      BY <3>1 DEF Conversations
    <3>3. QED
      BY <1>2, <1>4, <3>2 DEF Demo!KnowsConversation
  <2> HIDE DEF c, t
  <2>3. t \in States(I, R)
    BY <1>1, <2>1, <2>2 DEF States
  <2>4. /\ t.jobs = s.jobs /\ t.approvals = s.approvals /\ t.audits = s.audits
        /\ t.connectors = s.connectors /\ t.schedules = s.schedules /\ t.summary = s.summary
    BY <1>1, <2>1 DEF States
  <2>5. QED
    BY <1>1, <2>3, <2>4, KeptFields DEF t
<1>5. QED
  BY <1>3, <1>4

(* What the other operations know of the state they change.                 *)
LEMMA KeptHas ==
  ASSUME NEW s, Kept(s), NEW I, NEW R, s \in States(I, R)
  PROVE  /\ s.approvals \in Seq({"approved", "pending", "rejected"})
         /\ s.audits \in Seq(Actions) /\ s.connectors \in Seq({"active", "revoked"})
         /\ s.messages \in Seq({"sent", "delivered", "queued"})
         /\ s.jobs \in Seq(Jobs(R)) /\ s.schedules \in Nat /\ s.tasks \in Nat
         /\ s.summary \in Summaries /\ s.queue \in Queues
         /\ Len(s.jobs) \in Nat /\ Len(s.jobs) > 0
         /\ Len(s.approvals) \in Nat /\ Len(s.approvals) > 0
         /\ s.summary.pending = Demo!CountOf(s.approvals, "pending")
         /\ s.summary.audits = Len(s.audits)
         /\ s.summary.latestAudit = Demo!Front(s.audits)
         /\ s.summary.connectors = Len(s.connectors)
         /\ s.summary.schedules = s.schedules
         /\ s.summary.jobs = Len(s.jobs)
         /\ s.summary.completed >= Demo!CompletedJobs(s.jobs)
  BY DEF Kept, States, Demo!SummaryAgreesWithLists

LEMMA ConnectorsKept ==
  ASSUME NEW s, Kept(s)
  PROVE  /\ Kept(Demo!authorizeConnector(s))
         /\ \A id : Kept(Demo!revokeConnector(s, id))
<1>1. PICK I, R : s \in States(I, R)
  BY DEF Kept
<1>2. Kept(Demo!authorizeConnector(s))
  <2> DEFINE c == Append(s.connectors, "active")
             u == [s.summary EXCEPT !.connectors = Len(s.connectors) + 1]
             t == [s EXCEPT !.connectors = c, !.summary = u]
  <2>1. Demo!authorizeConnector(s) = t
    BY <1>1 DEF Demo!authorizeConnector, States, Summaries
  <2>2. c \in Seq({"active", "revoked"}) /\ Len(c) = Len(s.connectors) + 1
        /\ Len(s.connectors) \in Nat
    BY <1>1, KeptHas
  <2>3. u \in Summaries /\ u.connectors = Len(c) /\ u.pending = s.summary.pending
        /\ u.audits = s.summary.audits /\ u.latestAudit = s.summary.latestAudit
        /\ u.schedules = s.summary.schedules /\ u.jobs = s.summary.jobs
        /\ u.completed = s.summary.completed
    <3>1. s.summary \in Summaries
      BY <1>1, KeptHas
    <3>2. Len(c) = Len(s.connectors) + 1 /\ Len(s.connectors) + 1 \in Nat
      BY <2>2
    <3> HIDE DEF c
    <3>3. QED
      BY <3>1, <3>2 DEF Summaries
  <2> HIDE DEF c, u
  <2>4. t \in States(I, R) /\ t.connectors = c /\ t.summary = u
        /\ t.jobs = s.jobs /\ t.approvals = s.approvals /\ t.audits = s.audits
        /\ t.schedules = s.schedules
    BY <1>1, <2>2, <2>3 DEF States
  <2> HIDE DEF t
  <2>5. Demo!SummaryAgreesWithLists(t)
    BY <1>1, <2>3, <2>4, KeptHas DEF Demo!SummaryAgreesWithLists
  <2>6. Kept(t)
    BY <2>4, <2>5 DEF Kept
  <2>7. QED
    BY <2>1, <2>6
<1>3. ASSUME NEW id PROVE Kept(Demo!revokeConnector(s, id))
  <2>1. CASE id \notin DOMAIN s.connectors
    BY <2>1 DEF Demo!revokeConnector
  <2>2. CASE id \in DOMAIN s.connectors
    <3> DEFINE c == [s.connectors EXCEPT ![id] = "revoked"]
               t == [s EXCEPT !.connectors = c]
    <3>1. Demo!revokeConnector(s, id) = t
      BY <1>1, <2>2 DEF Demo!revokeConnector, States
    <3>2. c \in Seq({"active", "revoked"}) /\ Len(c) = Len(s.connectors)
      BY <1>1, <2>2, KeptHas
    <3> HIDE DEF c
    <3>3. t \in States(I, R) /\ t.connectors = c /\ t.summary = s.summary
          /\ t.jobs = s.jobs /\ t.approvals = s.approvals /\ t.audits = s.audits
          /\ t.schedules = s.schedules
      BY <1>1, <3>2 DEF States
    <3> HIDE DEF t
    <3>4. Demo!SummaryAgreesWithLists(t)
      BY <1>1, <3>2, <3>3, KeptHas DEF Demo!SummaryAgreesWithLists
    <3>5. Kept(t)
      BY <3>3, <3>4 DEF Kept
    <3>6. QED
      BY <3>1, <3>5
  <2>3. QED
    BY <2>1, <2>2
<1>4. QED
  BY <1>2, <1>3

LEMMA AuditKept ==
  ASSUME NEW s, Kept(s), NEW action \in Actions
  PROVE  Kept(Demo!WithAudit(s, action))
<1>1. PICK I, R : s \in States(I, R)
  BY DEF Kept
<1> DEFINE a == Append(s.audits, action)
           u == [s.summary EXCEPT !.audits = Len(s.audits) + 1, !.latestAudit = action]
           t == [s EXCEPT !.audits = a, !.summary = u]
<1>2. Demo!WithAudit(s, action) = t
  BY <1>1 DEF Demo!WithAudit, States, Summaries
<1>3. a \in Seq(Actions) /\ Len(a) = Len(s.audits) + 1 /\ Len(s.audits) \in Nat
      /\ a[Len(a)] = action
  BY <1>1, KeptHas
<1>4. u \in Summaries /\ u.audits = Len(a) /\ u.latestAudit = action
      /\ u.pending = s.summary.pending /\ u.connectors = s.summary.connectors
      /\ u.schedules = s.summary.schedules /\ u.jobs = s.summary.jobs
      /\ u.completed = s.summary.completed
  <2>1. s.summary \in Summaries
    BY <1>1, KeptHas
  <2>2. Len(a) = Len(s.audits) + 1 /\ Len(s.audits) + 1 \in Nat
    BY <1>3
  <2> HIDE DEF a
  <2>3. QED
    BY <2>1, <2>2 DEF Summaries
<1> HIDE DEF a, u
<1>5. t \in States(I, R) /\ t.audits = a /\ t.summary = u
      /\ t.jobs = s.jobs /\ t.approvals = s.approvals /\ t.connectors = s.connectors
      /\ t.schedules = s.schedules
  BY <1>1, <1>3, <1>4 DEF States
<1> HIDE DEF t
<1>6. Demo!SummaryAgreesWithLists(t)
  <2>1. Demo!Front(t.audits) = action
    BY <1>3, <1>5 DEF Demo!Front
  <2>2. QED
    BY <1>1, <1>3, <1>4, <1>5, <2>1, KeptHas DEF Demo!SummaryAgreesWithLists
<1>7. Kept(t)
  <2>1. Len(t.jobs) > 0 /\ Len(t.approvals) > 0
    BY <1>1, <1>5, KeptHas
  <2>2. \E J, Q : t \in States(J, Q)
    BY <1>5
  <2>3. QED
    BY <1>6, <2>1, <2>2 DEF Kept
<1>8. QED
  BY <1>2, <1>7

LEMMA MessageKept ==
  ASSUME NEW s, Kept(s), NEW status \in {"sent", "delivered", "queued"}
  PROVE  Kept(Demo!WithMessage(s, status))
<1>1. PICK I, R : s \in States(I, R)
  BY DEF Kept
<1> DEFINE m == Append(s.messages, status)
           t == [s EXCEPT !.messages = m]
<1>2. Demo!WithMessage(s, status) = t
  BY <1>1 DEF Demo!WithMessage
<1>3. m \in Seq({"sent", "delivered", "queued"})
  BY <1>1, KeptHas
<1> HIDE DEF m
<1>4. t \in States(I, R)
      /\ t.jobs = s.jobs /\ t.approvals = s.approvals /\ t.audits = s.audits
      /\ t.connectors = s.connectors /\ t.schedules = s.schedules /\ t.summary = s.summary
  BY <1>1, <1>3 DEF States
<1> HIDE DEF t
<1>5. QED
  BY <1>1, <1>2, <1>4, KeptFields

LEMMA DecisionKept ==
  ASSUME NEW s, Kept(s), NEW id, NEW status \in {"approved", "rejected"}, NEW action \in Actions
  PROVE  Kept(Demo!Decide(s, id, status, action))
<1>1. PICK I, R : s \in States(I, R)
  BY DEF Kept
<1> DEFINE n == Demo!FoundOrFront(s.approvals, id)
           a == [s.approvals EXCEPT ![n] = status]
           p == Demo!CountOf(a, "pending")
           u == [s.summary EXCEPT !.pending = p]
           t == [s EXCEPT !.approvals = a, !.summary = u]
<1>2. Demo!Decide(s, id, status, action) = Demo!WithAudit(t, action)
  BY <1>1 DEF Demo!Decide, States, Summaries
<1>3. a \in Seq({"approved", "pending", "rejected"}) /\ Len(a) = Len(s.approvals)
  <2>1. s.approvals \in Seq({"approved", "pending", "rejected"})
        /\ Len(s.approvals) \in Nat /\ Len(s.approvals) > 0
    BY <1>1, KeptHas
  <2>2. n \in DOMAIN s.approvals
    BY <2>1 DEF Demo!FoundOrFront
  <2>3. QED
    BY <2>1, <2>2
<1> HIDE DEF a
<1>4. p \in Nat
  BY <1>3, CountOfType
<1> HIDE DEF p
<1>5. u \in Summaries /\ u.pending = p /\ u.audits = s.summary.audits
      /\ u.latestAudit = s.summary.latestAudit /\ u.connectors = s.summary.connectors
      /\ u.schedules = s.summary.schedules /\ u.jobs = s.summary.jobs
      /\ u.completed = s.summary.completed
  <2>1. s.summary \in Summaries
    BY <1>1, KeptHas
  <2>2. QED
    BY <1>4, <2>1 DEF Summaries
<1> HIDE DEF u
<1>6. t \in States(I, R) /\ t.approvals = a /\ t.summary = u
      /\ t.jobs = s.jobs /\ t.audits = s.audits /\ t.connectors = s.connectors
      /\ t.schedules = s.schedules
  BY <1>1, <1>3, <1>5 DEF States
<1> HIDE DEF t
<1>7. Demo!SummaryAgreesWithLists(t)
  BY <1>1, <1>5, <1>6, KeptHas DEF Demo!SummaryAgreesWithLists, p
<1>8. Kept(t)
  <2>1. Len(t.jobs) > 0 /\ Len(t.approvals) > 0
    BY <1>1, <1>3, <1>6, KeptHas
  <2>2. \E J, Q : t \in States(J, Q)
    BY <1>6
  <2>3. QED
    BY <1>7, <2>1, <2>2 DEF Kept
<1>9. QED
  BY <1>2, <1>8, AuditKept

(* Another list of jobs, with the summary's counts kept up.                 *)
LEMMA JobsKept ==
  ASSUME NEW s, Kept(s), NEW Q, NEW jobs \in Seq(Jobs(Q)), Len(jobs) > 0,
         NEW I, NEW R, s \in States(I, R),
         NEW J, NEW t \in States(J, Q), t.jobs = jobs,
         t.approvals = s.approvals, t.audits = s.audits,
         t.connectors = s.connectors, t.schedules = s.schedules,
         t.summary.pending = s.summary.pending, t.summary.audits = s.summary.audits,
         t.summary.latestAudit = s.summary.latestAudit,
         t.summary.connectors = s.summary.connectors,
         t.summary.schedules = s.summary.schedules,
         t.summary.jobs = Len(jobs), t.summary.completed >= Demo!CompletedJobs(jobs)
  PROVE  Kept(t)
<1>1. Demo!SummaryAgreesWithLists(t)
  BY KeptHas DEF Demo!SummaryAgreesWithLists
<1>2. Len(t.approvals) > 0 /\ \E L, P : t \in States(L, P)
  BY KeptHas
<1>3. QED
  BY <1>1, <1>2 DEF Kept

(* A job at the front of the list.                                          *)
LEMMA JobAppended ==
  ASSUME NEW s, Kept(s), NEW I, NEW R, s \in States(I, R),
         NEW status \in JobStates
  PROVE  LET jobs == Append(s.jobs, Demo!Job(status, 0))
         IN  /\ jobs \in Seq(Jobs(R \cup {0})) /\ Len(jobs) = Len(s.jobs) + 1
             /\ Len(jobs) > 0 /\ Len(jobs) \in Nat /\ Len(s.jobs) \in Nat
             /\ s \in States(I, R \cup {0})
             /\ Demo!CompletedJobs(jobs) \in Nat
             /\ status # "completed" => s.summary.completed >= Demo!CompletedJobs(jobs)
<1> DEFINE j == Demo!Job(status, 0)
           jobs == Append(s.jobs, j)
<1>1. s.jobs \in Seq(Jobs(R)) /\ Len(s.jobs) \in Nat /\ s.summary \in Summaries
      /\ s.summary.completed >= Demo!CompletedJobs(s.jobs)
  BY KeptHas
<1>2. Jobs(R) \subseteq Jobs(R \cup {0}) /\ j \in Jobs(R \cup {0}) /\ j.status = status
  BY DEF Jobs, Demo!Job
<1>3. s.jobs \in Seq(Jobs(R \cup {0}))
  BY <1>1, <1>2, SeqMonotone
<1> HIDE DEF j
<1>4. jobs \in Seq(Jobs(R \cup {0})) /\ Len(jobs) = Len(s.jobs) + 1
      /\ Len(jobs) > 0 /\ Len(jobs) \in Nat
  BY <1>1, <1>2, <1>3
<1>5. s \in States(I, R \cup {0})
  BY <1>3 DEF States
<1>6. Demo!CompletedJobs(jobs) \in Nat
  BY <1>4, CompletedSubset
<1>7. ASSUME status # "completed" PROVE s.summary.completed >= Demo!CompletedJobs(jobs)
  <2>1. \A i \in DOMAIN jobs : jobs[i].status = "completed" =>
          i \in DOMAIN s.jobs /\ s.jobs[i].status = "completed"
    BY <1>1, <1>2, <1>3, <1>7
  <2>2. Demo!CompletedJobs(jobs) <= Demo!CompletedJobs(s.jobs)
        /\ Demo!CompletedJobs(s.jobs) \in Nat
    BY <1>1, <1>4, <2>1, CompletedSubset
  <2>3. s.summary.completed \in Nat
    BY <1>1 DEF Summaries
  <2>4. QED
    BY <1>1, <1>6, <2>2, <2>3
<1>8. QED
  BY <1>1, <1>4, <1>5, <1>6, <1>7 DEF j

LEMMA SyncKept ==
  ASSUME NEW s, Kept(s)
  PROVE  Kept(Demo!syncConnector(s))
<1>1. PICK I, R : s \in States(I, R)
  BY DEF Kept
<1> DEFINE jobs == Append(s.jobs, Demo!Job("completed", 0))
           n == Demo!CompletedJobs(jobs)
           p == Demo!CountOf(s.approvals, "pending")
           u == [s.summary EXCEPT !.jobs = Len(jobs), !.completed = n,
                                  !.latestJob = "completed", !.pending = p]
           m == s.tasks + 1
           t == [s EXCEPT !.tasks = m, !.jobs = jobs, !.summary = u]
<1>2. Demo!syncConnector(s) =
        Demo!WithAudit(Demo!WithMessage(t, "sent"), "snapshot_refresh")
  BY <1>1 DEF Demo!syncConnector, States, Summaries
<1>3. /\ jobs \in Seq(Jobs(R \cup {0})) /\ Len(jobs) > 0 /\ Len(jobs) \in Nat
      /\ s \in States(I, R \cup {0}) /\ n \in Nat
  BY <1>1, JobAppended DEF JobStates
<1>4. s.summary \in Summaries /\ p = s.summary.pending
  BY <1>1, KeptHas
<1> HIDE DEF n, p, jobs
<1>5. u \in Summaries /\ u.pending = s.summary.pending /\ u.audits = s.summary.audits
      /\ u.latestAudit = s.summary.latestAudit /\ u.connectors = s.summary.connectors
      /\ u.schedules = s.summary.schedules /\ u.jobs = Len(jobs) /\ u.completed = n
  BY <1>3, <1>4 DEF Summaries, JobStates
<1> HIDE DEF u
<1>6. t \in States(I, R \cup {0}) /\ t.jobs = jobs /\ t.summary = u
      /\ t.approvals = s.approvals /\ t.audits = s.audits
      /\ t.connectors = s.connectors /\ t.schedules = s.schedules
  <2>1. m \in Nat
    BY <1>1, KeptHas
  <2> HIDE DEF m
  <2>2. t \in States(I, R \cup {0})
    BY <1>3, <1>5, <2>1 DEF States
  <2>3. QED
    BY <1>3, <2>2 DEF States
<1> HIDE DEF t
<1>7. t.summary.completed >= Demo!CompletedJobs(jobs)
  BY <1>3, <1>5, <1>6 DEF n
<1>8. Kept(t)
  BY <1>1, <1>3, <1>5, <1>6, <1>7, JobsKept
<1>9. Kept(Demo!WithMessage(t, "sent"))
  BY <1>8, MessageKept
<1>10. QED
  BY <1>2, <1>9, AuditKept DEF Actions

LEMMA ScheduleKept ==
  ASSUME NEW s, Kept(s)
  PROVE  Kept(Demo!createSchedule(s))
<1>1. PICK I, R : s \in States(I, R)
  BY DEF Kept
<1> DEFINE m == s.schedules + 1
           u == [s.summary EXCEPT !.schedules = m]
           t == [s EXCEPT !.schedules = m, !.summary = u]
<1>2. Demo!createSchedule(s) = t
  BY <1>1 DEF Demo!createSchedule, States, Summaries
<1>3. m \in Nat /\ s.summary \in Summaries
  BY <1>1, KeptHas
<1> HIDE DEF m
<1>4. u \in Summaries /\ u.pending = s.summary.pending /\ u.audits = s.summary.audits
      /\ u.latestAudit = s.summary.latestAudit /\ u.connectors = s.summary.connectors
      /\ u.schedules = m /\ u.jobs = s.summary.jobs /\ u.completed = s.summary.completed
  BY <1>3 DEF Summaries
<1> HIDE DEF u
<1>5. t \in States(I, R) /\ t.schedules = m /\ t.summary = u /\ t.jobs = s.jobs
      /\ t.approvals = s.approvals /\ t.audits = s.audits /\ t.connectors = s.connectors
  BY <1>1, <1>3, <1>4 DEF States
<1> HIDE DEF t
<1>6. Demo!SummaryAgreesWithLists(t)
  BY <1>1, <1>4, <1>5, KeptHas DEF Demo!SummaryAgreesWithLists
<1>7. Len(t.jobs) > 0 /\ Len(t.approvals) > 0 /\ \E J, Q : t \in States(J, Q)
  BY <1>1, <1>5, KeptHas
<1>8. QED
  BY <1>2, <1>6, <1>7 DEF Kept

LEMMA FailedJobKept ==
  ASSUME NEW s, Kept(s)
  PROVE  Kept(Demo!addDemoFailedJob(s))
<1>1. PICK I, R : s \in States(I, R)
  BY DEF Kept
<1> DEFINE jobs == Append(s.jobs, Demo!Job("failed", 0))
           recent == Append(s.queue.recent, "failed")
           dead == Append(s.queue.dead, "failed")
           q == [s.queue EXCEPT !.recent = recent, !.dead = dead]
           u == [s.summary EXCEPT !.jobs = Len(jobs), !.latestJob = "failed"]
           t == [s EXCEPT !.jobs = jobs, !.queue = q, !.summary = u]
<1>2. Demo!addDemoFailedJob(s) = t
  BY <1>1 DEF Demo!addDemoFailedJob, States, Summaries, Queues
<1>3. /\ jobs \in Seq(Jobs(R \cup {0})) /\ Len(jobs) > 0 /\ Len(jobs) \in Nat
      /\ s \in States(I, R \cup {0}) /\ s.summary.completed >= Demo!CompletedJobs(jobs)
  BY <1>1, JobAppended DEF JobStates
<1>4. s.summary \in Summaries /\ s.queue \in Queues
  BY <1>1, KeptHas
<1> HIDE DEF jobs
<1>5. u \in Summaries /\ u.pending = s.summary.pending /\ u.audits = s.summary.audits
      /\ u.latestAudit = s.summary.latestAudit /\ u.connectors = s.summary.connectors
      /\ u.schedules = s.summary.schedules /\ u.jobs = Len(jobs)
      /\ u.completed = s.summary.completed
  BY <1>3, <1>4 DEF Summaries, JobStates
<1>6. q \in Queues
  <2>1. recent \in Seq(JobStates) /\ dead \in Seq(JobStates)
    BY <1>4 DEF Queues, JobStates
  <2> HIDE DEF recent, dead
  <2>2. QED
    BY <1>4, <2>1 DEF Queues
<1> HIDE DEF u, q
<1>7. t \in States(I, R \cup {0}) /\ t.jobs = jobs /\ t.summary = u
      /\ t.approvals = s.approvals /\ t.audits = s.audits
      /\ t.connectors = s.connectors /\ t.schedules = s.schedules
  BY <1>3, <1>5, <1>6 DEF States
<1> HIDE DEF t
<1>8. Kept(t)
  BY <1>1, <1>3, <1>5, <1>7, JobsKept
<1>9. QED
  BY <1>2, <1>8

LEMMA RunKept ==
  ASSUME NEW s, Kept(s)
  PROVE  Kept(Demo!runJob(s))
<1>1. PICK I, R : s \in States(I, R)
  BY DEF Kept
<1> DEFINE jobs == Append(s.jobs, Demo!Job("queued", 0))
           u == [s.summary EXCEPT !.jobs = Len(s.jobs) + 1]
           t == [s EXCEPT !.jobs = jobs, !.summary = u]
<1>2. Demo!runJob(s) = t
  BY <1>1 DEF Demo!runJob, States, Summaries
<1>3. /\ jobs \in Seq(Jobs(R \cup {0})) /\ Len(jobs) > 0 /\ Len(jobs) \in Nat
      /\ Len(jobs) = Len(s.jobs) + 1
      /\ s \in States(I, R \cup {0}) /\ s.summary.completed >= Demo!CompletedJobs(jobs)
  BY <1>1, JobAppended DEF JobStates
<1>4. s.summary \in Summaries
  BY <1>1, KeptHas
<1> HIDE DEF jobs
<1>5. u \in Summaries /\ u.pending = s.summary.pending /\ u.audits = s.summary.audits
      /\ u.latestAudit = s.summary.latestAudit /\ u.connectors = s.summary.connectors
      /\ u.schedules = s.summary.schedules /\ u.jobs = Len(jobs)
      /\ u.completed = s.summary.completed
  BY <1>3, <1>4 DEF Summaries
<1> HIDE DEF u
<1>6. t \in States(I, R \cup {0}) /\ t.jobs = jobs /\ t.summary = u
      /\ t.approvals = s.approvals /\ t.audits = s.audits
      /\ t.connectors = s.connectors /\ t.schedules = s.schedules
  BY <1>3, <1>5 DEF States
<1> HIDE DEF t
<1>7. Kept(t)
  BY <1>1, <1>3, <1>5, <1>6, JobsKept
<1>8. QED
  BY <1>2, <1>7

(* Jobs of the same length, of which no other is completed.                 *)
LEMMA RequeueKept ==
  ASSUME NEW s, Kept(s), NEW Q, NEW jobs \in Seq(Jobs(Q)), Len(jobs) = Len(s.jobs),
         \A i \in DOMAIN jobs : jobs[i].status = "completed" => s.jobs[i].status = "completed"
  PROVE  Kept([s EXCEPT !.jobs = jobs])
<1>1. PICK I, R : s \in States(I, R)
  BY DEF Kept
<1> DEFINE t == [s EXCEPT !.jobs = jobs]
<1>2. s.jobs \in Seq(Jobs(R)) /\ Len(s.jobs) > 0 /\ s.summary \in Summaries
      /\ s.summary.completed >= Demo!CompletedJobs(s.jobs) /\ s.summary.jobs = Len(s.jobs)
  BY <1>1, KeptHas
<1>3. Demo!CompletedJobs(jobs) <= Demo!CompletedJobs(s.jobs)
      /\ Demo!CompletedJobs(jobs) \in Nat /\ Demo!CompletedJobs(s.jobs) \in Nat
  BY <1>2, CompletedSubset
<1>4. s.summary.completed \in Nat
  BY <1>2 DEF Summaries
<1>5. s.summary.completed >= Demo!CompletedJobs(jobs)
  BY <1>2, <1>3, <1>4
<1>6. t \in States(I, Q) /\ t.jobs = jobs /\ t.summary = s.summary
      /\ t.approvals = s.approvals /\ t.audits = s.audits
      /\ t.connectors = s.connectors /\ t.schedules = s.schedules
  BY <1>1 DEF States
<1> HIDE DEF t
<1>7. Kept(t)
  BY <1>1, <1>2, <1>5, <1>6, JobsKept
<1>8. QED
  BY <1>7 DEF t

LEMMA RetryKept ==
  ASSUME NEW s, Kept(s), NEW id
  PROVE  Kept(Demo!retryJob(s, id)) /\ Kept(Demo!requeueFailedJob(s, id))
<1>1. PICK I, R : s \in States(I, R)
  BY DEF Kept
<1> DEFINE n == Demo!FoundOrFront(s.jobs, id)
           retries == s.jobs[n].retries + 1
           job == Demo!Job("queued", retries)
           jobs == [s.jobs EXCEPT ![n] = job]
           Q == R \cup {retries}
<1>2. s.jobs \in Seq(Jobs(R)) /\ Len(s.jobs) > 0 /\ Len(s.jobs) \in Nat
  BY <1>1, KeptHas
<1>3. n \in DOMAIN s.jobs
  BY <1>2 DEF Demo!FoundOrFront
<1>4. Demo!retryJob(s, id) = [s EXCEPT !.jobs = jobs]
  BY <1>1, <1>2, <1>3 DEF Demo!retryJob, States
<1>5. job \in Jobs(Q) /\ job.status = "queued"
  BY DEF Jobs, JobStates, Demo!Job
<1>6. s.jobs \in Seq(Jobs(Q))
  <2>1. Jobs(R) \subseteq Jobs(Q)
    BY DEF Jobs
  <2>2. QED
    BY <1>2, <2>1, SeqMonotone
<1> HIDE DEF n, job, Q
<1>7. jobs \in Seq(Jobs(Q)) /\ Len(jobs) = Len(s.jobs)
      /\ \A i \in DOMAIN jobs : jobs[i].status = "completed" => s.jobs[i].status = "completed"
  BY <1>3, <1>5, <1>6
<1> HIDE DEF jobs
<1>8. Kept([s EXCEPT !.jobs = jobs])
  BY <1>7, RequeueKept
<1>9. QED
  BY <1>4, <1>8 DEF Demo!requeueFailedJob

LEMMA BulkKept ==
  ASSUME NEW s, Kept(s), NEW ids
  PROVE  Kept(Demo!bulkRequeueFailedJobs(s, ids))
<1>1. PICK I, R : s \in States(I, R)
  BY DEF Kept
<1> DEFINE times(i) == Demo!Cardinality({id \in ids : Demo!FoundOrFront(s.jobs, id) = i})
           retries(i) == s.jobs[i].retries + times(i)
           requeued(i) == IF times(i) = 0 THEN s.jobs[i] ELSE Demo!Job("queued", retries(i))
           jobs == [i \in DOMAIN s.jobs |-> requeued(i)]
           Q == R \cup {retries(i) : i \in DOMAIN s.jobs}
<1>2. s.jobs \in Seq(Jobs(R)) /\ Len(s.jobs) > 0 /\ Len(s.jobs) \in Nat
  BY <1>1, KeptHas
<1>3. Demo!bulkRequeueFailedJobs(s, ids) = [s EXCEPT !.jobs = jobs]
  BY <1>1 DEF Demo!bulkRequeueFailedJobs, States
<1>4. ASSUME NEW i \in DOMAIN s.jobs
      PROVE  requeued(i) \in Jobs(Q) /\ (requeued(i).status = "completed" => s.jobs[i].status = "completed")
  <2>1. s.jobs[i] \in Jobs(R)
    BY <1>2
  <2>2. retries(i) \in Q
    OBVIOUS
  <2> HIDE DEF times, retries
  <2>3. Demo!Job("queued", retries(i)) \in Jobs(Q) /\ Demo!Job("queued", retries(i)).status = "queued"
    BY <2>2 DEF Jobs, JobStates, Demo!Job
  <2>4. Jobs(R) \subseteq Jobs(Q)
    BY DEF Jobs
  <2>5. QED
    BY <2>1, <2>3, <2>4
<1> HIDE DEF requeued, Q
<1>5. jobs \in Seq(Jobs(Q)) /\ Len(jobs) = Len(s.jobs)
      /\ \A i \in DOMAIN jobs : jobs[i].status = "completed" => s.jobs[i].status = "completed"
  BY <1>2, <1>4
<1> HIDE DEF jobs
<1>6. Kept([s EXCEPT !.jobs = jobs])
  BY <1>5, RequeueKept
<1>7. QED
  BY <1>3, <1>6

LEMMA QueueKept ==
  ASSUME NEW s, Kept(s)
  PROVE  /\ Kept(Demo!pauseQueue(s)) /\ Kept(Demo!resumeQueue(s))
         /\ \A input \in [concurrency : Nat, rate : Nat] : Kept(Demo!updateQueueSettings(s, input))
<1>1. PICK I, R : s \in States(I, R)
  BY DEF Kept
<1>2. ASSUME NEW q \in Queues PROVE Kept([s EXCEPT !.queue = q])
  <2> DEFINE t == [s EXCEPT !.queue = q]
  <2>1. t \in States(I, R) /\ t.summary = s.summary /\ t.jobs = s.jobs
        /\ t.approvals = s.approvals /\ t.audits = s.audits
        /\ t.connectors = s.connectors /\ t.schedules = s.schedules
    BY <1>1, <1>2 DEF States
  <2> HIDE DEF t
  <2>2. Kept(t)
    BY <1>1, <2>1, KeptFields
  <2>3. QED
    BY <2>2 DEF t
<1>3. s.queue \in Queues
  BY <1>1, KeptHas
<1>4. ASSUME NEW b \in BOOLEAN PROVE Kept([s EXCEPT !.queue.paused = b])
  <2> DEFINE q == [s.queue EXCEPT !.paused = b]
  <2>1. q \in Queues
    BY <1>3 DEF Queues
  <2>2. [s EXCEPT !.queue.paused = b] = [s EXCEPT !.queue = q]
    BY <1>1 DEF States, Queues
  <2> HIDE DEF q
  <2>3. QED
    BY <1>2, <2>1, <2>2
<1>5. ASSUME NEW input \in [concurrency : Nat, rate : Nat]
      PROVE  Kept([s EXCEPT !.queue.settings = input])
  <2> DEFINE q == [s.queue EXCEPT !.settings = input]
  <2>1. q \in Queues
    BY <1>3 DEF Queues
  <2>2. [s EXCEPT !.queue.settings = input] = [s EXCEPT !.queue = q]
    BY <1>1 DEF States, Queues
  <2> HIDE DEF q
  <2>3. QED
    BY <1>2, <2>1, <2>2
<1>6. QED
  BY <1>4, <1>5 DEF Demo!pauseQueue, Demo!resumeQueue, Demo!updateQueueSettings

-----------------------------------------------------------------------------
(* What the console does with the demo data. *)

(* Whatever button is pressed, its call leaves a state that is kept.        *)
LEMMA HandlersKeep ==
  ASSUME Kept(demo), NEW button \in CallButtons \cup DemoButtons, NEW id, NEW u
  PROVE  Kept(HandlerOf(button, id, u).post.demo)
<1> USE DEF HandlerOf, Handle, PostElsewhere, Post
<1>1. CASE button = "apply"
  BY <1>1, InstancesKept DEF handleApplyAssistant, createAssistantInstance
<1>2. CASE button = "converse"
  BY <1>2, ConversationsKept DEF handleCreateConversation, createConversation
<1>3. CASE button = "send"
  BY <1>3, ConversationsKept DEF handleSendMessage, sendConversationMessage
<1>4. CASE button = "authorize"
  BY <1>4, ConnectorsKept DEF handleAuthorizeConnector, beginConnectorAuthorization
<1>5. CASE button = "revoke"
  BY <1>5, ConnectorsKept DEF handleRevokeConnector, revokeConnector
<1>6. CASE button = "sync"
  BY <1>6, SyncKept DEF handleSyncConnector, syncConnector
<1>7. CASE button = "prefer"
  BY <1>7 DEF handleSetLinePreference, updateNotificationPreference,
              Demo!updateNotificationPreference
<1>8. CASE button = "approve"
  BY <1>8, DecisionKept DEF handleApprove, approveRequest, Demo!approveRequest, Actions
<1>9. CASE button = "reject"
  BY <1>9, DecisionKept DEF handleReject, rejectRequest, Demo!rejectRequest, Actions
<1>10. CASE button = "schedule"
  BY <1>10, ScheduleKept DEF handleCreateSchedule, createSchedule
<1>11. CASE button = "run"
  BY <1>11, RunKept DEF handleRunScheduledJob, runJob
<1>12. CASE button = "retry"
  BY <1>12, RetryKept DEF handleRetryJob, retryJob
<1>13. CASE button = "requeue"
  BY <1>13, RetryKept DEF handleRequeueFailedJob, requeueFailedJob
<1>14. CASE button = "bulk"
  BY <1>14, BulkKept DEF handleBulkRequeueFailedJobs, bulkRequeueFailedJobs
<1>15. CASE button = "pause"
  BY <1>15, QueueKept DEF handlePauseQueue, pauseQueue
<1>16. CASE button = "resume"
  BY <1>16, QueueKept DEF handleResumeQueue, resumeQueue
<1>17. CASE button = "settings"
  BY <1>17, QueueKept DEF handleUpdateQueueSettings, updateQueueSettings
<1>18. CASE button = "failedJob"
  BY <1>18, FailedJobKept DEF handleAddDemoFailedJob
<1>19. CASE button = "auditLog"
  BY <1>19, AuditKept DEF handleAddDemoAuditLog, Demo!addDemoAuditLog, Actions
<1>20. CASE button = "notification"
  BY <1>20, MessageKept DEF handleAddDemoNotification, Demo!addDemoNotification
<1>21. QED
  BY <1>1, <1>2, <1>3, <1>4, <1>5, <1>6, <1>7, <1>8, <1>9, <1>10, <1>11, <1>12, <1>13,
     <1>14, <1>15, <1>16, <1>17, <1>18, <1>19, <1>20 DEF CallButtons, DemoButtons

(* A handler that is calling has a button that calls.                       *)
HandlerRows(X) ==
  [button : CallButtons \cup {"none"}, pc : {"new", "calling", "served", "refused", "done"},
   id : X, call : X, at : X, filter : X]

HandlersSound ==
  /\ \E X : handler \in [Handlers -> HandlerRows(X)]
  /\ \A h \in Handlers : Calling(h) => handler[h].button \in CallButtons

ViewsInv == Kept(demo) /\ HandlersSound

LEMMA ViewsInit == Init => ViewsInv
<1> SUFFICES ASSUME Init PROVE ViewsInv
  OBVIOUS
<1>1. Kept(demo)
  BY InitialKept DEF Init
<1>2. NoPress \in HandlerRows({None, [user |-> SeededUser, org |-> HomeOrg], ""})
  BY DEF NoPress, HandlerRows
<1>3. HandlersSound
  <2>1. handler = [h \in Handlers |-> NoPress]
    BY DEF Init
  <2>2. handler \in [Handlers -> HandlerRows({None, [user |-> SeededUser, org |-> HomeOrg], ""})]
    BY <1>2, <2>1
  <2>3. \E X : handler \in [Handlers -> HandlerRows(X)]
    BY <2>2
  <2>4. \A h \in Handlers : ~Calling(h)
    BY <2>1 DEF Calling, NoPress
  <2>5. QED
    BY <2>3, <2>4 DEF HandlersSound
<1>4. QED
  BY <1>1, <1>3 DEF ViewsInv

(* One handler goes on.                                                     *)
LEMMA HandlerGoesOn ==
  ASSUME HandlersSound, NEW h \in Handlers, NEW Y, NEW row \in HandlerRows(Y),
         row.pc \in {"calling", "served", "refused"} => row.button \in CallButtons,
         handler' = [handler EXCEPT ![h] = row]
  PROVE  HandlersSound'
<1>1. PICK X : handler \in [Handlers -> HandlerRows(X)]
  BY DEF HandlersSound
<1>2. HandlerRows(X) \subseteq HandlerRows(X \cup Y) /\ row \in HandlerRows(X \cup Y)
  BY DEF HandlerRows
<1>3. handler' \in [Handlers -> HandlerRows(X \cup Y)]
  BY <1>1, <1>2
<1>4. \A g \in Handlers : handler'[g] = IF g = h THEN row ELSE handler[g]
  BY <1>1
<1>5. ASSUME NEW g \in Handlers, handler'[g].pc \in {"calling", "served", "refused"}
      PROVE  handler'[g].button \in CallButtons
  BY <1>4, <1>5 DEF HandlersSound, Calling
<1>6. \E Z : handler' \in [Handlers -> HandlerRows(Z)]
  BY <1>3
<1>7. QED
  BY <1>5, <1>6 DEF HandlersSound, Calling

(* A handler that ends.                                                     *)
LEMMA HandlerEnds ==
  ASSUME HandlersSound, NEW h \in Handlers,
         handler' = [handler EXCEPT ![h] = [NoPress EXCEPT !.pc = "done"]]
  PROVE  HandlersSound'
<1> DEFINE Y == {None, [user |-> SeededUser, org |-> HomeOrg], ""}
           row == [NoPress EXCEPT !.pc = "done"]
<1>1. row \in HandlerRows(Y) /\ row.pc = "done"
  BY DEF NoPress, HandlerRows
<1> HIDE DEF row, Y
<1>2. handler' = [handler EXCEPT ![h] = row]
  BY DEF row
<1>3. QED
  BY <1>1, <1>2, HandlerGoesOn

LEMMA PressKeeps ==
  ASSUME ViewsInv, NEW h \in Handlers, NEW button \in CallButtons, NEW id, NEW c,
         Press(h, button, id, c)
  PROVE  ViewsInv'
<1> DEFINE row == Pressed(button, id, c)
           Y == {id, c, context, filter}
<1>1. row \in HandlerRows(Y) /\ row.button = button
  BY DEF Pressed, HandlerRows
<1>2. handler' = [handler EXCEPT ![h] = row] /\ UNCHANGED demo
  BY DEF Press
<1> HIDE DEF row, Y
<1>3. HandlersSound'
  BY <1>1, <1>2, HandlerGoesOn DEF ViewsInv
<1>4. QED
  BY <1>2, <1>3 DEF ViewsInv

(* The API serves or refuses a call that is modelled elsewhere.             *)
LEMMA ServeKeeps ==
  ASSUME ViewsInv, NEW h \in Handlers, Serve(h) \/ Refuse(h)
  PROVE  ViewsInv'
<1>1. PICK X : handler \in [Handlers -> HandlerRows(X)]
  BY DEF ViewsInv, HandlersSound
<1>2. handler[h] \in HandlerRows(X) /\ handler[h].pc = "calling" /\ UNCHANGED demo
  BY <1>1 DEF Serve, Refuse
<1>3. handler[h].button \in CallButtons
  BY <1>2 DEF ViewsInv, HandlersSound, Calling
<1>4. ASSUME NEW pc \in {"served", "refused"}, handler' = [handler EXCEPT ![h].pc = pc]
      PROVE  HandlersSound'
  <2> DEFINE row == [handler[h] EXCEPT !.pc = pc]
  <2>1. row \in HandlerRows(X) /\ row.button \in CallButtons
    BY <1>2, <1>3, <1>4 DEF HandlerRows
  <2>2. handler' = [handler EXCEPT ![h] = row]
    BY <1>1, <1>4
  <2> HIDE DEF row
  <2>3. QED
    BY <2>1, <2>2, HandlerGoesOn DEF ViewsInv
<1>5. HandlersSound'
  BY <1>4 DEF Serve, Refuse
<1>6. QED
  BY <1>2, <1>5 DEF ViewsInv

(* A handler ends, the demo data having answered or not.                    *)
LEMMA AnswerKeeps ==
  ASSUME ViewsInv, NEW h \in Handlers,
         CallAnswered(h) \/ DemoAnswers(h) \/ Throw(h)
  PROVE  ViewsInv'
<1>1. Calling(h) /\ handler' = [handler EXCEPT ![h] = [NoPress EXCEPT !.pc = "done"]]
  BY DEF CallAnswered, DemoAnswers, Throw, Reload
<1>2. HandlersSound'
  BY <1>1, HandlerEnds DEF ViewsInv
<1>3. handler[h].button \in CallButtons
  BY <1>1 DEF ViewsInv, HandlersSound
<1>4. demo' = demo \/ demo' = Pushed(h).post.demo
  BY DEF CallAnswered, DemoAnswers, Throw, Reload
<1>5. Kept(Pushed(h).post.demo)
  BY <1>3, HandlersKeep DEF ViewsInv, Pushed
<1>6. QED
  BY <1>2, <1>4, <1>5 DEF ViewsInv

(* The steps that leave the handlers alone.                                 *)
LEMMA OthersKeep ==
  ASSUME ViewsInv, UNCHANGED handler, demo' = demo \/ Kept(demo')
  PROVE  ViewsInv'
<1>1. HandlersSound'
  BY DEF ViewsInv, HandlersSound, Calling
<1>2. Kept(demo')
  BY DEF ViewsInv
<1>3. QED
  BY <1>1, <1>2 DEF ViewsInv

LEMMA ViewsInductive == ViewsInv /\ [Next]_vars => ViewsInv'
<1> SUFFICES ASSUME ViewsInv, [Next]_vars PROVE ViewsInv'
  OBVIOUS
<1>1. CASE LoadStep
  BY <1>1, OthersKeep DEF LoadStep, AnswerPart, ApplyLoad, FailLoad
<1>2. ASSUME NEW h \in Handlers, HandlerStep(h) PROVE ViewsInv'
  <2>1. ASSUME NEW button \in CallButtons, NEW id, NEW c, Press(h, button, id, c)
        PROVE  ViewsInv'
    BY <2>1, PressKeeps
  <2>2. ASSUME Serve(h) \/ Refuse(h) PROVE ViewsInv'
    BY <2>2, ServeKeeps
  <2>3. ASSUME CallAnswered(h) \/ DemoAnswers(h) \/ Throw(h) PROVE ViewsInv'
    BY <2>3, AnswerKeeps
  <2>4. QED
    BY <1>2, <2>1, <2>2, <2>3 DEF HandlerStep
<1>3. ASSUME NEW button \in DemoButtons, PressDemo(button) PROVE ViewsInv'
  <2>1. Kept(HandlerOf(button, None, context.user).post.demo)
    BY HandlersKeep DEF ViewsInv
  <2>2. UNCHANGED handler /\ demo' = HandlerOf(button, None, context.user).post.demo
    BY <1>3 DEF PressDemo
  <2>3. QED
    BY <2>1, <2>2, OthersKeep
<1>4. CASE EffectStep
  <2>1. ASSUME NEW at, SetAuth(at) PROVE ViewsInv'
    BY <2>1, OthersKeep DEF SetAuth
  <2>2. ASSUME NEW org, SetAuthByDemo(org) PROVE ViewsInv'
    <3>1. demo' = Demo!switchOrganization(demo, org) /\ UNCHANGED handler
      BY <2>2 DEF SetAuthByDemo
    <3>2. Kept(Demo!switchOrganization(demo, org))
      BY OrganizationKept DEF ViewsInv
    <3>3. QED
      BY <3>1, <3>2, OthersKeep
  <2>3. ASSUME NEW f, Choose(f) PROVE ViewsInv'
    BY <2>3, OthersKeep DEF Choose
  <2>4. ASSUME SetLocale PROVE ViewsInv'
    <3>1. demo' = Demo!createInitialState /\ UNCHANGED handler
      BY <2>4 DEF SetLocale, Demo!setDemoLocale
    <3>2. QED
      BY <3>1, InitialKept, OthersKeep
  <2>5. ASSUME TimerFires PROVE ViewsInv'
    BY <2>5, OthersKeep DEF TimerFires
  <2>6. QED
    BY <1>4, <2>1, <2>2, <2>3, <2>4, <2>5 DEF EffectStep
<1>5. CASE ServiceMoves
  BY <1>5, OthersKeep DEF ServiceMoves
<1>6. ASSUME NEW c \in Calls, OtherClients(c) PROVE ViewsInv'
  BY <1>6, OthersKeep DEF OtherClients, pageVars
<1>7. ASSUME NEW t \in Tables, ChangeElsewhere(t) PROVE ViewsInv'
  BY <1>7, OthersKeep DEF ChangeElsewhere
<1>8. ASSUME NEW at, Occupy(at) PROVE ViewsInv'
  BY <1>8, OthersKeep DEF Occupy, pageVars
<1>9. CASE UNCHANGED vars
  BY <1>9, OthersKeep DEF vars, pageVars
<1>10. QED
  BY <1>1, <1>2, <1>3, <1>4, <1>5, <1>6, <1>7, <1>8, <1>9 DEF Next

(* In whatever order calls of the console fall back to the demo data, and   *)
(* whatever is pressed, the summary they answer is that of their lists.     *)
THEOREM DemoSummaryIsOfItsLists == Spec => []DemoSummaryAgrees
<1>1. ViewsInv => DemoSummaryAgrees
  BY DEF ViewsInv, Kept, DemoSummaryAgrees
<1>2. QED
  BY <1>1, ViewsInit, ViewsInductive, PTL DEF Spec

-----------------------------------------------------------------------------
(* The views.  The invariant is stated of sequences ls of loads, the load s *)
(* that is shown, the key k of the page, the handlers C that have changed   *)
(* something and are going to load it again, and the tables T of the API,   *)
(* so that what a step does to them is shown without primes.                *)

ListAt(T, org) ==
  IF org = HomeOrg /\ Records # {} THEN [r \in Records |-> T[1][r].status]
  ELSE [r \in {Placeholder} |-> "pending"]

SummaryAt(T, org, isOccupied) ==
  IF org # HomeOrg /\ ~isOccupied THEN 1
  ELSE Cardinality({r \in Records : org = HomeOrg /\ T[1][r].status = "pending"})

(* An answer of the API is what it would answer of the tables T.            *)
PresentAt(T, key, p, data) ==
  CASE p = "catalog"       -> data = Definitions
    [] p = "instances"     -> data = [i \in {j \in Instances : T[2][j].user = key.at.user} |-> T[2][i]]
    [] p = "preferences"   -> data = {q \in Preferences : T[3][q] = key.at.user}
    [] p = "messages"      -> data = T[4].messages
    [] p = "jobs"          -> data = <<T[4].jobs, T[4].queue>>
    [] p = "snapshots"     -> data = T[4].snapshots
    [] p = "connectors"    -> data = T[4].connectors
    [] p = "conversations" -> data = T[4].conversations
    [] p = "detail"        -> data = T[4].events
    [] p = "summary"       -> data.pending = SummaryAt(T, key.at.org, data.occupied)
    [] p = "approvals"     -> data = ListAt(T, key.at.org)

LoadAnswers(X) == [by : {"none", "api", "demo"}, data : X]
LoadRows(v, X) ==
  [key : X, parts : [Parts(v) -> LoadAnswers(X)],
   old : BOOLEAN, behind : BOOLEAN, outdated : BOOLEAN, torn : BOOLEAN]

LoadsTyped(v, ls, s) == \E X : ls \in Seq(LoadRows(v, X)) /\ s \in LoadRows(v, X)

(* Loads begun before one that is behind are behind.                        *)
Ordered(ls) == \A i, j \in DOMAIN ls : i < j /\ ls[j].behind => ls[i].behind

(* A load begun after that at i has not been overtaken.                     *)
Later(ls, i) == \E j \in DOMAIN ls : j > i /\ ~ls[j].behind

PartsPresent(v, x, T) ==
  \A p \in Parts(v) : x.parts[p].by = "api" => PresentAt(T, x.key, p, x.parts[p].data)

(* What a load x, begun when that at i was, owes to the page.               *)
Owed(v, ls, i, x, k, C, T) ==
  \/ x.old \/ x.behind \/ x.outdated
  \/ Later(ls, i)
  \/ x.key = k /\ (C # {} \/ PartsPresent(v, x, T))

(* What a load of the governance view that was not torn has fetched.        *)
SameCount(summary, list) ==
  \/ summary.pending = PendingIn(list)
  \/ Placeholder \in DOMAIN list /\ summary.occupied

Counted(v, x, T) ==
  v = "governance" /\ ~x.torn =>
    LET s == x.parts["summary"]
        a == x.parts["approvals"]
    IN  /\ s.by = "api" /\ a.by = "api" => SameCount(s.data, a.data)
        /\ s.by = "api" /\ a.by = "none" => PresentAt(T, x.key, "summary", s.data)
        /\ a.by = "api" /\ s.by = "none" => PresentAt(T, x.key, "approvals", a.data)

LoadsSound(v, ls, s, k, C, T) ==
  /\ LoadsTyped(v, ls, s) /\ Ordered(ls)
  /\ Owed(v, ls, 0, s, k, C, T) /\ \A i \in DOMAIN ls : Owed(v, ls, i, ls[i], k, C, T)
  /\ Counted(v, s, T) /\ \A i \in DOMAIN ls : Counted(v, ls[i], T)

-----------------------------------------------------------------------------
(* A load that begins: those before it have a later one. *)
LEMMA LoadBegins ==
  ASSUME NEW v, NEW ls, NEW s, NEW k, NEW C, NEW T, LoadsSound(v, ls, s, k, C, T),
         NEW l, NEW D, NEW U, U[1] = T[1],
         NEW Y, NEW n \in LoadRows(v, Y), ~n.behind, n.old \/ n.key = l,
         \A p \in Parts(v) : n.parts[p].by = "none"
  PROVE  LoadsSound(v, Append(ls, n), s, l, D, U)
<1> DEFINE m == Append(ls, n)
<1>1. PICK X : ls \in Seq(LoadRows(v, X)) /\ s \in LoadRows(v, X)
  BY DEF LoadsSound, LoadsTyped
<1>2. LoadRows(v, X) \subseteq LoadRows(v, X \cup Y) /\ n \in LoadRows(v, X \cup Y)
  BY DEF LoadRows, LoadAnswers
<1>3. ls \in Seq(LoadRows(v, X \cup Y)) /\ s \in LoadRows(v, X \cup Y)
  BY <1>1, <1>2, SeqMonotone
<1>4. /\ m \in Seq(LoadRows(v, X \cup Y)) /\ Len(m) = Len(ls) + 1 /\ Len(ls) \in Nat
      /\ m[Len(ls) + 1] = n /\ \A i \in DOMAIN ls : i \in DOMAIN m /\ m[i] = ls[i]
      /\ DOMAIN m = 1..(Len(ls) + 1) /\ DOMAIN ls = 1..Len(ls)
  BY <1>2, <1>3
<1> HIDE DEF m
<1>5. LoadsTyped(v, m, s)
  BY <1>3, <1>4 DEF LoadsTyped
<1>6. Ordered(m)
  BY <1>4 DEF LoadsSound, Ordered
<1>7. \A i \in {0} \cup DOMAIN ls : Later(m, i)
  <2> SUFFICES ASSUME NEW i \in {0} \cup DOMAIN ls PROVE Later(m, i)
    OBVIOUS
  <2>1. Len(ls) + 1 \in DOMAIN m /\ Len(ls) + 1 > i /\ ~m[Len(ls) + 1].behind
    BY <1>4
  <2>2. QED
    BY <2>1 DEF Later
<1>8. Owed(v, m, Len(ls) + 1, n, l, D, U)
  BY DEF Owed, PartsPresent
<1>9. \A i \in DOMAIN m : Owed(v, m, i, m[i], l, D, U)
  BY <1>4, <1>7, <1>8 DEF Owed
<1>10. Owed(v, m, 0, s, l, D, U)
  BY <1>7 DEF Owed
<1>11. \A x : Counted(v, x, T) => Counted(v, x, U)
  BY DEF Counted, PresentAt, SummaryAt, ListAt
<1>12. Counted(v, n, U)
  BY DEF Counted, Parts
<1>13. \A i \in DOMAIN m : Counted(v, m[i], U)
  BY <1>4, <1>11, <1>12 DEF LoadsSound
<1>14. QED
  BY <1>5, <1>6, <1>9, <1>10, <1>11, <1>13 DEF LoadsSound, m

(* Only what loads say of being outdated or torn changes.                   *)
Renewed(x, y) ==
  /\ y.key = x.key /\ y.parts = x.parts /\ y.old = x.old /\ y.behind = x.behind
  /\ x.outdated => y.outdated
  /\ x.torn => y.torn

(* What x has fetched stays present, unless it is said to be outdated.      *)
StaysPresent(v, x, y, C, T, D, U) ==
  C # {} \/ PartsPresent(v, x, T) => y.outdated \/ D # {} \/ PartsPresent(v, x, U)

LEMMA LoadsRenewed ==
  ASSUME NEW v, NEW ls, NEW s, NEW k, NEW C, NEW T, LoadsSound(v, ls, s, k, C, T),
         NEW D, NEW U, NEW ms, NEW r, LoadsTyped(v, ms, r), DOMAIN ms = DOMAIN ls,
         Renewed(s, r), \A i \in DOMAIN ls : Renewed(ls[i], ms[i]),
         StaysPresent(v, s, r, C, T, D, U),
         \A i \in DOMAIN ls : StaysPresent(v, ls[i], ms[i], C, T, D, U),
         Counted(v, r, U), \A i \in DOMAIN ls : Counted(v, ms[i], U)
  PROVE  LoadsSound(v, ms, r, k, D, U)
<1>1. Ordered(ms)
  BY DEF LoadsSound, Ordered, Renewed
<1>2. \A i : Later(ls, i) => Later(ms, i)
  BY DEF Later, Renewed
<1>3. \A x, y, i : Owed(v, ls, i, x, k, C, T) /\ Renewed(x, y) /\ StaysPresent(v, x, y, C, T, D, U)
                     => Owed(v, ms, i, y, k, D, U)
  BY <1>2 DEF Owed, Renewed, StaysPresent, PartsPresent
<1>4. QED
  BY <1>1, <1>3 DEF LoadsSound

(* A summary and a list that are both present agree. *)
LEMMA PresentTogether ==
  ASSUME NEW T, NEW key, NEW sum, NEW app,
         PresentAt(T, key, "summary", sum), PresentAt(T, key, "approvals", app)
  PROVE  SameCount(sum, app)
<1>1. sum.pending = SummaryAt(T, key.at.org, sum.occupied) /\ app = ListAt(T, key.at.org)
  BY DEF PresentAt
<1>2. CASE key.at.org = HomeOrg /\ Records # {}
  <2>1. app = [r \in Records |-> T[1][r].status]
    BY <1>1, <1>2 DEF ListAt
  <2>2. {r \in DOMAIN app : app[r] = "pending"}
          = {r \in Records : key.at.org = HomeOrg /\ T[1][r].status = "pending"}
    BY <1>2, <2>1
  <2>3. QED
    BY <1>1, <1>2, <2>2 DEF SameCount, SummaryAt, PendingIn
<1>3. CASE key.at.org # HomeOrg
  <2>1. app = [r \in {Placeholder} |-> "pending"]
    BY <1>1, <1>3 DEF ListAt
  <2>2. {r \in DOMAIN app : app[r] = "pending"} = {Placeholder}
    BY <2>1
  <2>3. PendingIn(app) = 1
    BY <2>2, FS_Singleton DEF PendingIn
  <2>4. QED
    BY <1>1, <1>3, <2>1, <2>3 DEF SameCount, SummaryAt
<1>4. QED
  BY <1>2, <1>3, RecordsSeeded

(* A part p of the load at n is answered, by the API with what is present.  *)
LEMMA LoadAnswered ==
  ASSUME NEW v, NEW ls, NEW s, NEW k, NEW C, NEW T, LoadsSound(v, ls, s, k, C, T),
         NEW n \in DOMAIN ls, NEW p \in Parts(v), ls[n].parts[p].by = "none",
         NEW by \in {"api", "demo"}, NEW data,
         by = "api" => PresentAt(T, ls[n].key, p, data)
  PROVE  LoadsSound(v, [ls EXCEPT ![n].parts[p] = [by |-> by, data |-> data]], s, k, C, T)
<1>1. PICK X : ls \in Seq(LoadRows(v, X)) /\ s \in LoadRows(v, X)
  BY DEF LoadsSound, LoadsTyped
<1> DEFINE Y == X \cup {data}
           answer == [by |-> by, data |-> data]
           parts == [ls[n].parts EXCEPT ![p] = answer]
           y == [ls[n] EXCEPT !.parts = parts]
           ms == [ls EXCEPT ![n] = y]
<1>2. LoadRows(v, X) \subseteq LoadRows(v, Y)
  BY DEF LoadRows, LoadAnswers
<1>3. ls \in Seq(LoadRows(v, Y)) /\ s \in LoadRows(v, Y) /\ ls[n] \in LoadRows(v, Y)
  <2> HIDE DEF Y, answer, parts, y, ms
  <2>1. ls \in Seq(LoadRows(v, Y))
    BY <1>1, <1>2, SeqMonotone
  <2>2. QED
    BY <1>1, <1>2, <2>1
<1>4. answer \in LoadAnswers(Y) /\ answer.by = by /\ answer.data = data
  BY DEF LoadAnswers
<1>5. [ls EXCEPT ![n].parts[p] = [by |-> by, data |-> data]] = ms
  BY <1>3 DEF LoadRows
<1> HIDE DEF answer, Y
<1>6. parts \in [Parts(v) -> LoadAnswers(Y)] /\ parts[p] = answer
      /\ \A q \in Parts(v) : q # p => parts[q] = ls[n].parts[q]
  BY <1>3, <1>4 DEF LoadRows
<1> HIDE DEF parts
<1>7. /\ y \in LoadRows(v, Y) /\ y.parts = parts /\ y.key = ls[n].key /\ y.old = ls[n].old
      /\ y.behind = ls[n].behind /\ y.outdated = ls[n].outdated /\ y.torn = ls[n].torn
  BY <1>3, <1>6 DEF LoadRows
<1> HIDE DEF y
<1>8. ms \in Seq(LoadRows(v, Y)) /\ DOMAIN ms = DOMAIN ls /\ ms[n] = y
      /\ \A i \in DOMAIN ls : i # n => ms[i] = ls[i]
  BY <1>3, <1>7
<1> HIDE DEF ms
<1>9. LoadsTyped(v, ms, s)
  BY <1>3, <1>8 DEF LoadsTyped
<1>10. \A i \in DOMAIN ls : ms[i].behind = ls[i].behind
  BY <1>7, <1>8
<1>11. Ordered(ms)
  BY <1>8, <1>10 DEF LoadsSound, Ordered
<1>12. \A i : Later(ls, i) => Later(ms, i)
  BY <1>8, <1>10 DEF Later
<1>13. PartsPresent(v, ls[n], T) => PartsPresent(v, y, T)
  BY <1>4, <1>6, <1>7 DEF PartsPresent
<1>14. Owed(v, ms, n, y, k, C, T)
  BY <1>7, <1>12, <1>13 DEF LoadsSound, Owed
<1>15. \A i \in DOMAIN ms : Owed(v, ms, i, ms[i], k, C, T)
  BY <1>8, <1>12, <1>14 DEF LoadsSound, Owed
<1>16. Owed(v, ms, 0, s, k, C, T)
  BY <1>12 DEF LoadsSound, Owed
<1>17. Counted(v, y, T)
  <2> SUFFICES ASSUME v = "governance", ~y.torn
               PROVE  LET sum == y.parts["summary"]
                          app == y.parts["approvals"]
                      IN  /\ sum.by = "api" /\ app.by = "api" => SameCount(sum.data, app.data)
                          /\ sum.by = "api" /\ app.by = "none" =>
                               PresentAt(T, y.key, "summary", sum.data)
                          /\ app.by = "api" /\ sum.by = "none" =>
                               PresentAt(T, y.key, "approvals", app.data)
    BY DEF Counted
  <2>1. Parts(v) = {"summary", "approvals"}
    BY DEF Parts
  <2>2. Counted(v, ls[n], T) /\ ~ls[n].torn
    BY <1>7 DEF LoadsSound
  <2>3. \A sum, app : /\ PresentAt(T, y.key, "summary", sum)
                     /\ PresentAt(T, y.key, "approvals", app)
                     => SameCount(sum, app)
    BY PresentTogether
  <2>4. CASE p = "summary"
    BY <1>4, <1>6, <1>7, <2>1, <2>2, <2>3, <2>4 DEF Counted
  <2>5. CASE p = "approvals"
    BY <1>4, <1>6, <1>7, <2>1, <2>2, <2>3, <2>5 DEF Counted
  <2>6. QED
    BY <2>1, <2>4, <2>5
<1>18. \A i \in DOMAIN ms : Counted(v, ms[i], T)
  BY <1>8, <1>17 DEF LoadsSound
<1>19. LoadsSound(v, ms, s, k, C, T)
  BY <1>9, <1>11, <1>15, <1>16, <1>18 DEF LoadsSound
<1>20. QED
  BY <1>5, <1>19

(* The loads that are left when the one at n is settled.                    *)
SettledOf(ls, n) ==
  [j \in 1..(Len(ls) - 1) |-> IF j < n THEN [ls[j] EXCEPT !.behind = TRUE] ELSE ls[j + 1]]

LEMMA LoadsSettled ==
  ASSUME NEW v, NEW ls, NEW s, NEW k, NEW C, NEW T, LoadsSound(v, ls, s, k, C, T),
         NEW n \in DOMAIN ls, NEW r, LoadsTyped(v, ls, r),
         Owed(v, SettledOf(ls, n), 0, r, k, C, T), Counted(v, r, T)
  PROVE  LoadsSound(v, SettledOf(ls, n), r, k, C, T)
<1> DEFINE ms == SettledOf(ls, n)
<1>1. PICK X : ls \in Seq(LoadRows(v, X)) /\ s \in LoadRows(v, X)
  BY DEF LoadsSound, LoadsTyped
<1>2. PICK Z : ls \in Seq(LoadRows(v, Z)) /\ r \in LoadRows(v, Z)
  BY DEF LoadsTyped
<1>3. DOMAIN ls = 1..Len(ls) /\ Len(ls) \in Nat /\ n \in 1..Len(ls)
  BY <1>2
<1>4. \A j \in DOMAIN ls :
        LET y == [ls[j] EXCEPT !.behind = TRUE]
        IN  y \in LoadRows(v, Z) /\ y.behind = TRUE /\ y.key = ls[j].key /\ y.parts = ls[j].parts
            /\ y.torn = ls[j].torn
  <2> SUFFICES ASSUME NEW j \in DOMAIN ls
               PROVE  LET y == [ls[j] EXCEPT !.behind = TRUE]
                      IN  y \in LoadRows(v, Z) /\ y.behind = TRUE /\ y.key = ls[j].key
                          /\ y.parts = ls[j].parts /\ y.torn = ls[j].torn
    OBVIOUS
  <2>1. ls[j] \in LoadRows(v, Z)
    BY <1>2
  <2>2. QED
    BY <2>1 DEF LoadRows
<1>5. \A j \in 1..(Len(ls) - 1) :
        /\ j < n => /\ ms[j] \in LoadRows(v, Z) /\ ms[j].behind = TRUE /\ ms[j].key = ls[j].key
                    /\ ms[j].parts = ls[j].parts /\ ms[j].torn = ls[j].torn /\ j \in DOMAIN ls
        /\ ~(j < n) => ms[j] = ls[j + 1] /\ ms[j] \in LoadRows(v, Z) /\ j + 1 \in DOMAIN ls
  BY <1>2, <1>3, <1>4 DEF SettledOf
<1>6. DOMAIN ms = 1..(Len(ls) - 1) /\ ms = [j \in 1..(Len(ls) - 1) |-> ms[j]]
  BY DEF SettledOf
<1> HIDE DEF ms
<1>7. ms \in Seq(LoadRows(v, Z)) /\ Len(ms) = Len(ls) - 1
  <2>1. Len(ls) - 1 \in Nat
    BY <1>3
  <2>2. ms \in [1..(Len(ls) - 1) -> LoadRows(v, Z)]
    BY <1>5, <1>6
  <2>3. QED
    BY <2>1, <2>2
<1>8. LoadsTyped(v, ms, r)
  BY <1>2, <1>7 DEF LoadsTyped
<1>9. Ordered(ms)
  <2> SUFFICES ASSUME NEW i \in DOMAIN ms, NEW j \in DOMAIN ms, i < j, ms[j].behind
               PROVE  ms[i].behind
    BY DEF Ordered
  <2>1. CASE i < n
    BY <1>5, <1>6, <2>1
  <2>2. CASE ~(i < n)
    <3>1. ~(j < n) /\ ms[j] = ls[j + 1] /\ ms[i] = ls[i + 1]
          /\ i + 1 \in DOMAIN ls /\ j + 1 \in DOMAIN ls /\ i + 1 < j + 1
      BY <1>3, <1>5, <1>6, <2>2
    <3>2. QED
      BY <3>1 DEF LoadsSound, Ordered
  <2>3. QED
    BY <2>1, <2>2
<1>10. ASSUME NEW j \in DOMAIN ms PROVE Owed(v, ms, j, ms[j], k, C, T) /\ Counted(v, ms[j], T)
  <2>1. CASE j < n
    BY <1>5, <1>6, <2>1 DEF Owed, Counted, LoadsSound, PresentAt
  <2>2. CASE ~(j < n)
    <3>1. ms[j] = ls[j + 1] /\ j + 1 \in DOMAIN ls /\ j \in Nat
      BY <1>5, <1>6, <2>2
    <3>2. Owed(v, ls, j + 1, ls[j + 1], k, C, T) /\ Counted(v, ls[j + 1], T)
      BY <3>1 DEF LoadsSound
    <3>3. Later(ls, j + 1) => Later(ms, j)
      <4> SUFFICES ASSUME NEW i \in DOMAIN ls, i > j + 1, ~ls[i].behind PROVE Later(ms, j)
        BY DEF Later
      <4>1. i - 1 \in 1..(Len(ls) - 1) /\ i - 1 > j /\ ~(i - 1 < n) /\ (i - 1) + 1 = i
        BY <1>3, <2>2, <3>1
      <4>2. i - 1 \in DOMAIN ms /\ ~ms[i - 1].behind
        BY <1>5, <1>6, <4>1
      <4>3. QED
        BY <4>1, <4>2 DEF Later
    <3>4. QED
      BY <3>1, <3>2, <3>3 DEF Owed
  <2>3. QED
    BY <2>1, <2>2
<1>11. QED
  BY <1>8, <1>9, <1>10 DEF LoadsSound, ms

LEMMA LoadApplied ==
  ASSUME NEW v, NEW ls, NEW s, NEW k, NEW C, NEW T, LoadsSound(v, ls, s, k, C, T),
         NEW n \in DOMAIN ls
  PROVE  LoadsSound(v, SettledOf(ls, n), ls[n], k, C, T)
<1>1. LoadsTyped(v, ls, ls[n])
  BY DEF LoadsSound, LoadsTyped
<1>2. Counted(v, ls[n], T) /\ Owed(v, ls, n, ls[n], k, C, T)
  BY DEF LoadsSound
<1>3. Later(ls, n) => Later(SettledOf(ls, n), 0)
  <2> SUFFICES ASSUME NEW j \in DOMAIN ls, j > n, ~ls[j].behind PROVE Later(SettledOf(ls, n), 0)
    BY DEF Later
  <2>1. PICK X : ls \in Seq(LoadRows(v, X))
    BY <1>1 DEF LoadsTyped
  <2>2. j \in 1..Len(ls) /\ n \in 1..Len(ls) /\ Len(ls) \in Nat
    BY <2>1
  <2>3. j - 1 \in 1..(Len(ls) - 1) /\ ~(j - 1 < n) /\ (j - 1) + 1 = j /\ j - 1 > 0
    BY <2>2
  <2>4. j - 1 \in DOMAIN SettledOf(ls, n) /\ SettledOf(ls, n)[j - 1] = ls[j]
    BY <2>3 DEF SettledOf
  <2>5. QED
    BY <2>3, <2>4 DEF Later
<1>4. Owed(v, SettledOf(ls, n), 0, ls[n], k, C, T)
  BY <1>2, <1>3 DEF Owed
<1>5. QED
  BY <1>1, <1>2, <1>4, LoadsSettled

LEMMA LoadFailed ==
  ASSUME NEW v, NEW ls, NEW s, NEW k, NEW C, NEW T, LoadsSound(v, ls, s, k, C, T),
         NEW n \in DOMAIN ls
  PROVE  LoadsSound(v, SettledOf(ls, n), [s EXCEPT !.behind = @ \/ ~ls[n].behind], k, C, T)
<1> DEFINE b == s.behind \/ ~ls[n].behind
           r == [s EXCEPT !.behind = b]
<1>1. PICK X : ls \in Seq(LoadRows(v, X)) /\ s \in LoadRows(v, X)
  BY DEF LoadsSound, LoadsTyped
<1>2. b \in BOOLEAN
  OBVIOUS
<1>3. [s EXCEPT !.behind = @ \/ ~ls[n].behind] = r
  BY <1>1 DEF LoadRows
<1>4. b \/ (~s.behind /\ ls[n].behind)
  OBVIOUS
<1>5. s.behind => b
  OBVIOUS
<1> HIDE DEF b
<1>6. /\ r \in LoadRows(v, X) /\ r.behind = b /\ r.key = s.key /\ r.parts = s.parts
      /\ r.old = s.old /\ r.outdated = s.outdated /\ r.torn = s.torn
  BY <1>1, <1>2 DEF LoadRows
<1> HIDE DEF r
<1>7. LoadsTyped(v, ls, r)
  BY <1>1, <1>6 DEF LoadsTyped
<1>8. Counted(v, r, T)
  BY <1>6 DEF LoadsSound, Counted
<1>9. Owed(v, SettledOf(ls, n), 0, r, k, C, T)
  <2>1. CASE b
    BY <1>6, <2>1 DEF Owed
  <2>2. CASE ~b
    <3>1. ls[n].behind /\ ~s.behind
      BY <1>4, <2>2
    <3>2. Later(ls, 0) => Later(SettledOf(ls, n), 0)
      <4> SUFFICES ASSUME NEW j \in DOMAIN ls, j > 0, ~ls[j].behind
                   PROVE  Later(SettledOf(ls, n), 0)
        BY DEF Later
      <4>1. DOMAIN ls = 1..Len(ls) /\ Len(ls) \in Nat
        BY <1>1
      <4>2. j > n
        <5>1. ~(j < n)
          BY <3>1 DEF LoadsSound, Ordered
        <5>2. j # n
          BY <3>1
        <5>3. QED
          BY <4>1, <5>1, <5>2
      <4>3. j - 1 \in 1..(Len(ls) - 1) /\ ~(j - 1 < n) /\ (j - 1) + 1 = j /\ j - 1 > 0
        BY <4>1, <4>2
      <4>4. j - 1 \in DOMAIN SettledOf(ls, n) /\ SettledOf(ls, n)[j - 1] = ls[j]
        BY <4>3 DEF SettledOf
      <4>5. QED
        BY <4>3, <4>4 DEF Later
    <3>3. Owed(v, ls, 0, s, k, C, T)
      BY DEF LoadsSound
    <3>4. PartsPresent(v, s, T) => PartsPresent(v, r, T)
      BY <1>6 DEF PartsPresent
    <3>5. QED
      BY <1>6, <3>1, <3>2, <3>3, <3>4 DEF Owed
  <2>3. QED
    BY <2>1, <2>2
<1>10. QED
  BY <1>3, <1>7, <1>8, <1>9, LoadsSettled

-----------------------------------------------------------------------------
(* What a button loads again and what its call writes. *)

ReloadsOf(button) ==
  CASE button = "apply"        -> {"instances"}
    [] button = "converse"     -> {"conversations"}
    [] button = "send"         -> {"detail"}
    [] button = "prefer"       -> {"notifications"}
    [] button = "sync"         -> {"connectors", "snapshots", "notifications", "jobs"}
    [] button = "run"          -> {"jobs", "connectors", "snapshots", "notifications"}
    [] button = "notification" -> {"notifications", "governance"}
    [] button \in {"authorize", "revoke"}            -> {"connectors"}
    [] button \in {"approve", "reject", "auditLog"}  -> {"governance"}
    [] button \in {"schedule", "retry", "requeue", "bulk", "pause", "resume", "settings",
                   "failedJob"} -> {"jobs"}

(* A view that shows what a button's call writes is loaded again.           *)
LEMMA HandlersReload ==
  ASSUME NEW button \in CallButtons \cup DemoButtons, NEW id, NEW u,
         NEW handled, handled = HandlerOf(button, id, u)
  PROVE  /\ handled.reloads = ReloadsOf(button)
         /\ \A v \in AllViews : handled.post.writes \cap TablesOf(v) # {} => v \in ReloadsOf(button)
         /\ \/ handled.post.request = None
            \/ ViewOf(handled.post.request.op) \in ReloadsOf(button)
<1> USE DEF HandlerOf, Handle, PostElsewhere, Post, ReloadsOf, TablesOf, AllViews
<1>1. CASE button = "apply"
  BY <1>1 DEF handleApplyAssistant, createAssistantInstance, CreateRequest, NewCall, ViewOf,
              Decisions, Changes
<1>2. CASE button = "converse"
  BY <1>2 DEF handleCreateConversation, createConversation
<1>3. CASE button = "send"
  BY <1>3 DEF handleSendMessage, sendConversationMessage
<1>4. CASE button = "authorize"
  BY <1>4 DEF handleAuthorizeConnector, beginConnectorAuthorization
<1>5. CASE button = "revoke"
  BY <1>5 DEF handleRevokeConnector, revokeConnector
<1>6. CASE button = "sync"
  BY <1>6 DEF handleSyncConnector, syncConnector
<1>7. CASE button = "prefer"
  BY <1>7 DEF handleSetLinePreference, updateNotificationPreference, PreferenceRequest, NewCall,
              ViewOf, Decisions, Changes
<1>8. CASE button = "approve"
  BY <1>8 DEF handleApprove, approveRequest, ApproveRequest, NewCall, ViewOf, Decisions, Changes
<1>9. CASE button = "reject"
  BY <1>9 DEF handleReject, rejectRequest, RejectRequest, NewCall, ViewOf, Decisions, Changes
<1>10. CASE button = "schedule"
  BY <1>10 DEF handleCreateSchedule, createSchedule
<1>11. CASE button = "run"
  BY <1>11 DEF handleRunScheduledJob, runJob
<1>12. CASE button = "retry"
  BY <1>12 DEF handleRetryJob, retryJob
<1>13. CASE button = "requeue"
  BY <1>13 DEF handleRequeueFailedJob, requeueFailedJob
<1>14. CASE button = "bulk"
  BY <1>14 DEF handleBulkRequeueFailedJobs, bulkRequeueFailedJobs
<1>15. CASE button = "pause"
  BY <1>15 DEF handlePauseQueue, pauseQueue
<1>16. CASE button = "resume"
  BY <1>16 DEF handleResumeQueue, resumeQueue
<1>17. CASE button = "settings"
  BY <1>17 DEF handleUpdateQueueSettings, updateQueueSettings
<1>18. CASE button = "failedJob"
  BY <1>18 DEF handleAddDemoFailedJob
<1>19. CASE button = "auditLog"
  BY <1>19 DEF handleAddDemoAuditLog
<1>20. CASE button = "notification"
  BY <1>20 DEF handleAddDemoNotification
<1>21. QED
  BY <1>1, <1>2, <1>3, <1>4, <1>5, <1>6, <1>7, <1>8, <1>9, <1>10, <1>11, <1>12, <1>13,
     <1>14, <1>15, <1>16, <1>17, <1>18, <1>19, <1>20 DEF CallButtons, DemoButtons

-----------------------------------------------------------------------------
(* The page between its loads, its handlers and the API. *)

PageKey == Key(view, context, filter)
NowTables == <<approval, instance, preference, changed>>

(* Handlers whose call has changed something and that will load the view.   *)
Moving == {h \in Handlers : Calling(h) /\ HasChanged(h) /\ view \in ReloadsOf(handler[h].button)}

PageSound == LoadsSound(view, loads, shown, PageKey, Moving, NowTables)

(* Calls that have written are answered, and ids are whatever the page had. *)
CallsOver(X) ==
  [pc : {"idle", "find", "definition", "save", "answered", "failed"}, op : Operations,
   id : X, user : X, definition : X, approval : X, instance : X, seen : X, place : Nat]

CallsTyped ==
  /\ \E X : call \in [Calls -> CallsOver(X)]
  /\ \A c \in Calls : call[c].place > 0 => call[c].pc = "answered"
  /\ written \in Nat

(* The call a handler awaits writes what its button loads again.            *)
HandlersCall ==
  \A h \in Handlers : Calling(h) /\ handler[h].call \in Calls =>
    /\ call[handler[h].call].pc # "idle"
    /\ ViewOf(call[handler[h].call].op) \in ReloadsOf(handler[h].button)

(* What is shown has been answered in all its parts.                        *)
ShownComplete == \A p \in Parts(view) : shown.parts[p].by # "none"

PageInv ==
  view \in AllViews /\ CallsTyped /\ HandlersCall /\ ShownComplete /\ PageSound

-----------------------------------------------------------------------------
(* What the API answers is what it holds. *)
LEMMA FetchPresent ==
  ASSUME NEW v \in AllViews, NEW p \in Parts(v), NEW key
  PROVE  PresentAt(NowTables, key, p, Fetch(p, key.at, key.filter).api)
<1> USE DEF Fetch, Fetched, PresentAt, NowTables
<1>1. CASE p = "catalog"
  BY <1>1 DEF listAssistantCatalog
<1>2. CASE p = "instances"
  BY <1>2 DEF listInstances, listAssistantInstances
<1>3. CASE p = "preferences"
  BY <1>3 DEF listPreferences, listNotificationPreferences
<1>4. CASE p = "messages"
  BY <1>4 DEF listMessages
<1>5. CASE p = "jobs"
  BY <1>5 DEF listJobsAndQueue
<1>6. CASE p = "snapshots"
  BY <1>6 DEF getTodaySnapshots
<1>7. CASE p = "connectors"
  BY <1>7 DEF listConnectorAccounts
<1>8. CASE p = "conversations"
  BY <1>8 DEF listConversations
<1>9. CASE p = "detail"
  BY <1>9 DEF getConversationDetail
<1>10. CASE p = "summary"
  <2> DEFINE b == key.at \in occupied
             data == [pending |-> getSummary(key.at.org, b), occupied |-> b]
  <2>1. Fetch(p, key.at, key.filter).api = data
    BY <1>10 DEF getAdminSummary
  <2>2. b \in BOOLEAN
    OBVIOUS
  <2> HIDE DEF b
  <2>3. data.pending = getSummary(key.at.org, b) /\ data.occupied = b
    OBVIOUS
  <2>4. getSummary(key.at.org, b) = SummaryAt(NowTables, key.at.org, data.occupied)
    <3>1. CASE b
      BY <2>3, <3>1 DEF getSummary, SummaryAt
    <3>2. CASE ~b
      BY <2>3, <3>2 DEF getSummary, SummaryAt
    <3>3. QED
      BY <3>1, <3>2
  <2> HIDE DEF data
  <2>5. QED
    BY <1>10, <2>1, <2>3, <2>4 DEF PresentAt
<1>11. CASE p = "approvals"
  BY <1>11 DEF listApprovalRecords, listApprovals, ListAt
<1>12. QED
  BY <1>1, <1>2, <1>3, <1>4, <1>5, <1>6, <1>7, <1>8, <1>9, <1>10, <1>11 DEF Parts, AllViews

-----------------------------------------------------------------------------
(* How steps leave the page sound. *)

(* Nothing of the page or the tables changes.                               *)
LEMMA PageStays ==
  ASSUME PageSound, UNCHANGED <<view, context, filter, loads, shown>>,
         UNCHANGED <<approval, instance, preference, changed>>,
         Moving # {} => Moving' # {}
  PROVE  PageSound'
<1>1. LoadsSound(view, loads, shown, PageKey, Moving, NowTables)
  BY DEF PageSound
<1>2. LoadsTyped(view, loads, shown)
  BY <1>1 DEF LoadsSound
<1>3. NowTables' = NowTables /\ PageKey' = PageKey
  BY DEF NowTables, PageKey, Key, Selected
<1>4. \A x : StaysPresent(view, x, x, Moving, NowTables, Moving', NowTables) /\ Renewed(x, x)
  BY DEF StaysPresent, Renewed
<1>5. Counted(view, shown, NowTables) /\ \A i \in DOMAIN loads : Counted(view, loads[i], NowTables)
  BY <1>1 DEF LoadsSound
<1>6. LoadsSound(view, loads, shown, PageKey, Moving', NowTables)
  BY <1>1, <1>2, <1>4, <1>5, LoadsRenewed
<1>7. QED
  BY <1>3, <1>6 DEF PageSound

(* A load begins for the page as it is after the step, or is old.           *)
LEMMA NewLoadSound ==
  ASSUME NEW v, NEW at, NEW f, NEW b \in BOOLEAN
  PROVE  /\ NewLoad(v, at, f, b) \in LoadRows(v, {Key(v, at, f), NoData})
         /\ NewLoad(v, at, f, b).key = Key(v, at, f)
         /\ NewLoad(v, at, f, b).old = b
         /\ ~NewLoad(v, at, f, b).behind
         /\ \A p \in Parts(v) : NewLoad(v, at, f, b).parts[p].by = "none"
<1> DEFINE k == Key(v, at, f)
           parts == [p \in Parts(v) |-> NoAnswer]
<1>1. parts \in [Parts(v) -> LoadAnswers({k, NoData})] /\ \A p \in Parts(v) : parts[p].by = "none"
  BY DEF NoAnswer, LoadAnswers
<1>2. NewLoad(v, at, f, b) = [key |-> k, parts |-> parts, old |-> b, behind |-> FALSE,
                             outdated |-> FALSE, torn |-> FALSE]
  BY DEF NewLoad
<1> HIDE DEF k, parts
<1>3. QED
  BY <1>1, <1>2 DEF LoadRows, k

LEMMA PageBegins ==
  ASSUME PageSound, NEW at, NEW f, NEW b \in BOOLEAN, b \/ Key(view, at, f) = PageKey',
         loads' = Append(loads, NewLoad(view, at, f, b)),
         UNCHANGED <<view, shown, approval>>
  PROVE  PageSound'
<1>1. LoadsSound(view, loads, shown, PageKey, Moving, NowTables)
  BY DEF PageSound
<1>2. NowTables'[1] = NowTables[1]
  BY DEF NowTables
<1> DEFINE n == NewLoad(view, at, f, b)
<1>3. /\ n \in LoadRows(view, {Key(view, at, f), NoData}) /\ n.key = Key(view, at, f) /\ n.old = b
      /\ ~n.behind /\ \A p \in Parts(view) : n.parts[p].by = "none"
  BY NewLoadSound
<1>4. n.old \/ n.key = PageKey'
  BY <1>3
<1> HIDE DEF n
<1>5. LoadsSound(view, Append(loads, n), shown, PageKey', Moving', NowTables')
  BY <1>1, <1>2, <1>3, <1>4, LoadBegins
<1>6. QED
  BY <1>5 DEF PageSound, n

LEMMA BegunSound ==
  ASSUME PageSound, NEW views, view \in views, NEW at, NEW f,
         UNCHANGED <<view, shown, approval>>, loads' = Begun(views, at, f)
  PROVE  PageSound'
<1> DEFINE b == Key(view, at, f) # Key(view, context', filter')
<1>1. b \in BOOLEAN /\ (b \/ Key(view, at, f) = PageKey')
  BY DEF PageKey, Key, Selected
<1>2. loads' = Append(loads, NewLoad(view, at, f, b))
  BY DEF Begun
<1> HIDE DEF b
<1>3. QED
  BY <1>1, <1>2, PageBegins

(* A change of context begins one load or two. *)
LEMMA BegunForContextSound ==
  ASSUME PageSound, UNCHANGED <<view, filter, shown, approval>>,
         loads' = BegunForContext(context')
  PROVE  PageSound'
<1> DEFINE n == NewLoad(view, context', filter, FALSE)
<1>1. LoadsSound(view, loads, shown, PageKey, Moving, NowTables)
  BY DEF PageSound
<1>2. Key(view, context', filter) = PageKey'
  BY DEF PageKey, Key, Selected
<1>3. /\ n \in LoadRows(view, {PageKey', NoData}) /\ n.key = PageKey'
      /\ ~n.behind /\ \A p \in Parts(view) : n.parts[p].by = "none"
  BY <1>2, NewLoadSound
<1>4. NowTables'[1] = NowTables[1]
  BY DEF NowTables
<1>5. loads' = loads \o (IF view = "jobs" THEN <<n, n>> ELSE <<n>>)
  BY DEF BegunForContext
<1>6. PICK X : loads \in Seq(LoadRows(view, X))
  BY <1>1 DEF LoadsSound, LoadsTyped
<1> HIDE DEF n
<1>7. LoadsSound(view, Append(loads, n), shown, PageKey', Moving', NowTables')
  BY <1>1, <1>3, <1>4, LoadBegins
<1>8. LoadsSound(view, Append(Append(loads, n), n), shown, PageKey', Moving', NowTables')
  BY <1>3, <1>7, LoadBegins
<1>9. loads' = Append(loads, n) \/ loads' = Append(Append(loads, n), n)
  <2>1. loads \o <<n>> = Append(loads, n)
    BY <1>6
  <2>2. loads \o <<n, n>> = Append(Append(loads, n), n)
    BY <1>6
  <2>3. QED
    BY <1>5, <2>1, <2>2
<1>10. QED
  BY <1>7, <1>8, <1>9 DEF PageSound

(* Nothing but loads and what they have set changes.                        *)
LEMMA CallsStay ==
  ASSUME CallsTyped, HandlersCall, UNCHANGED <<call, written, handler>>
  PROVE  CallsTyped' /\ HandlersCall' /\ (UNCHANGED view => Moving' = Moving)
<1>1. CallsTyped'
  BY DEF CallsTyped
<1>2. HandlersCall'
  BY DEF HandlersCall, Calling
<1>3. ASSUME UNCHANGED view PROVE Moving' = Moving
  BY <1>3 DEF Moving, Calling, HasChanged, HasWritten
<1>4. QED
  BY <1>1, <1>2, <1>3

LEMMA LoadStepSound ==
  ASSUME PageInv, LoadStep
  PROVE  PageInv'
<1>1. UNCHANGED <<view, context, filter, call, written, handler, approval, instance, preference,
                  changed>>
  BY DEF LoadStep, AnswerPart, ApplyLoad, FailLoad, serviceVars, rowVars, tableVars
<1>2. CallsTyped' /\ HandlersCall' /\ Moving' = Moving
  BY <1>1, CallsStay DEF PageInv
<1>3. PageKey' = PageKey /\ NowTables' = NowTables
  BY <1>1 DEF PageKey, Key, Selected, NowTables
<1>4. LoadsSound(view, loads, shown, PageKey, Moving, NowTables)
  BY DEF PageInv, PageSound
<1>5. ASSUME NEW i \in DOMAIN loads, NEW p \in Parts(view), NEW by \in {"api", "demo"},
             AnswerPart(i, p, by)
      PROVE  LoadsSound(view, loads', shown', PageKey, Moving, NowTables)
  <2> DEFINE data == Fetch(p, loads[i].key.at, loads[i].key.filter)[by]
  <2>1. /\ loads[i].parts[p].by = "none" /\ shown' = shown
        /\ loads' = [loads EXCEPT ![i].parts[p] = [by |-> by, data |-> data]]
    BY <1>5 DEF AnswerPart
  <2>2. by = "api" => PresentAt(NowTables, loads[i].key, p, data)
    BY FetchPresent DEF PageInv
  <2> HIDE DEF data
  <2>3. QED
    BY <1>4, <2>1, <2>2, LoadAnswered
<1>6. ASSUME NEW i \in DOMAIN loads, ApplyLoad(i)
      PROVE  LoadsSound(view, loads', shown', PageKey, Moving, NowTables)
  <2>1. loads' = SettledOf(loads, i) /\ shown' = loads[i]
    BY <1>6 DEF ApplyLoad, Settled, SettledOf
  <2>2. QED
    BY <1>4, <2>1, LoadApplied
<1>7. ASSUME NEW i \in DOMAIN loads, FailLoad(i)
      PROVE  LoadsSound(view, loads', shown', PageKey, Moving, NowTables)
  <2>1. loads' = SettledOf(loads, i) /\ shown' = [shown EXCEPT !.behind = @ \/ ~loads[i].behind]
    BY <1>7 DEF FailLoad, Settled, SettledOf
  <2>2. QED
    BY <1>4, <2>1, LoadFailed
<1>8. LoadsSound(view, loads', shown', PageKey, Moving, NowTables)
  BY <1>5, <1>6, <1>7 DEF LoadStep
<1>9. PageSound'
  BY <1>1, <1>2, <1>3, <1>8 DEF PageSound
<1>10. ShownComplete'
  <2>1. PICK X : loads \in Seq(LoadRows(view, X)) /\ shown \in LoadRows(view, X)
    BY <1>4 DEF LoadsSound, LoadsTyped
  <2>2. ASSUME NEW i \in DOMAIN loads, ApplyLoad(i) PROVE ShownComplete'
    <3>1. shown' = loads[i] /\ Complete(loads[i]) /\ loads[i] \in LoadRows(view, X)
      BY <2>1, <2>2 DEF ApplyLoad
    <3>2. QED
      BY <1>1, <3>1 DEF ShownComplete, Complete, Answers, LoadRows
  <2>3. ASSUME NEW i \in DOMAIN loads, FailLoad(i) PROVE ShownComplete'
    <3>1. shown'.parts = shown.parts
      BY <2>1, <2>3 DEF FailLoad, LoadRows
    <3>2. QED
      BY <1>1, <3>1 DEF ShownComplete, PageInv
  <2>4. ASSUME NEW i, NEW p, NEW by, AnswerPart(i, p, by) PROVE ShownComplete'
    BY <1>1, <2>4 DEF ShownComplete, PageInv, AnswerPart
  <2>5. QED
    BY <2>2, <2>3, <2>4 DEF LoadStep
<1>11. QED
  BY <1>1, <1>2, <1>9, <1>10 DEF PageInv

(* What is shown or read is said to be outdated: whatever the tables become.*)
LEMMA OutdatedSound ==
  ASSUME PageSound, Outdated(TRUE), UNCHANGED <<view, context, filter, approval>>
  PROVE  PageSound'
<1>1. LoadsSound(view, loads, shown, PageKey, Moving, NowTables)
  BY DEF PageSound
<1>2. PICK X : loads \in Seq(LoadRows(view, X)) /\ shown \in LoadRows(view, X)
  BY <1>1 DEF LoadsSound, LoadsTyped
<1> DEFINE r == [shown EXCEPT !.outdated = TRUE]
           renewed(x) == [x EXCEPT !.outdated = @ \/ Reading(x)]
           ms == [i \in DOMAIN loads |-> renewed(loads[i])]
<1>3. shown' = r /\ loads' = ms
  BY DEF Outdated
<1>4. r \in LoadRows(view, X) /\ Renewed(shown, r) /\ r.outdated
  BY <1>2 DEF LoadRows, Renewed
<1>5. ASSUME NEW x \in LoadRows(view, X)
      PROVE  /\ renewed(x) \in LoadRows(view, X) /\ Renewed(x, renewed(x))
             /\ Reading(x) => renewed(x).outdated
             /\ renewed(x).torn = x.torn
  <2> DEFINE b == x.outdated \/ Reading(x)
             y == [x EXCEPT !.outdated = b]
  <2>1. renewed(x) = y
    BY <1>5 DEF LoadRows
  <2>2. b \in BOOLEAN /\ (x.outdated => b) /\ (Reading(x) => b)
    BY <1>5 DEF LoadRows
  <2> HIDE DEF b
  <2>3. /\ y \in LoadRows(view, X) /\ y.key = x.key /\ y.parts = x.parts /\ y.old = x.old
        /\ y.behind = x.behind /\ y.outdated = b /\ y.torn = x.torn
    BY <1>5, <2>2 DEF LoadRows
  <2> HIDE DEF y
  <2>4. Renewed(x, y) /\ (Reading(x) => y.outdated)
    BY <2>2, <2>3 DEF Renewed
  <2>5. QED
    BY <2>1, <2>3, <2>4
<1>6. \A x \in LoadRows(view, X) : \A T : ~Reading(x) => PartsPresent(view, x, T)
  BY DEF LoadRows, LoadAnswers, Reading, Answers, PartsPresent
<1> HIDE DEF r, renewed
<1>7. /\ ms \in Seq(LoadRows(view, X)) /\ DOMAIN ms = DOMAIN loads
      /\ \A i \in DOMAIN loads : ms[i] = renewed(loads[i]) /\ loads[i] \in LoadRows(view, X)
  BY <1>2, <1>5
<1> HIDE DEF ms
<1>8. LoadsTyped(view, ms, r)
  BY <1>4, <1>7 DEF LoadsTyped
<1>9. PageKey' = PageKey /\ NowTables'[1] = NowTables[1]
  BY DEF PageKey, Key, Selected, NowTables
<1>10. StaysPresent(view, shown, r, Moving, NowTables, Moving', NowTables')
  BY <1>4 DEF StaysPresent
<1>11. \A i \in DOMAIN loads :
         StaysPresent(view, loads[i], ms[i], Moving, NowTables, Moving', NowTables')
  BY <1>5, <1>6, <1>7 DEF StaysPresent
<1>12. \A x, y : Counted(view, x, NowTables) /\ Renewed(x, y) => Counted(view, y, NowTables')
  BY <1>9 DEF Counted, Renewed, PresentAt, SummaryAt, ListAt
<1>13. Renewed(shown, r) /\ \A i \in DOMAIN loads : Renewed(loads[i], ms[i])
  BY <1>4, <1>5, <1>7
<1>14. Counted(view, r, NowTables') /\ \A i \in DOMAIN loads : Counted(view, ms[i], NowTables')
  BY <1>1, <1>12, <1>13 DEF LoadsSound
<1>15. LoadsSound(view, ms, r, PageKey, Moving', NowTables')
  BY <1>1, <1>7, <1>8, <1>10, <1>11, <1>13, <1>14, LoadsRenewed
<1>16. QED
  BY <1>3, <1>9, <1>15 DEF PageSound

-----------------------------------------------------------------------------
(* Initially what is shown is what the API holds. *)
LEMMA PageInit == Init => PageInv
<1> SUFFICES ASSUME Init PROVE PageInv
  OBVIOUS
<1>1. view \in AllViews
  BY ConsoleViewsAssumption DEF Init
<1>2. CallsTyped
  <2> DEFINE X == {None, SeededUser, Pending, NoInstance, 0}
  <2>1. Idle \in CallsOver(X) /\ Idle.place = 0
    BY DEF Idle, NewCall, CallsOver, Operations
  <2> HIDE DEF X
  <2>2. call = [c \in Calls |-> Idle] /\ written = 0
    BY DEF Init, ServiceInit
  <2>3. call \in [Calls -> CallsOver(X)]
    BY <2>1, <2>2
  <2>4. QED
    BY <2>1, <2>2, <2>3 DEF CallsTyped
<1>3. HandlersCall
  BY DEF HandlersCall, Init, Calling, NoPress
<1> DEFINE n == NewLoad(view, context, filter, FALSE)
           data(p) == Fetch(p, PageKey.at, PageKey.filter).api
           parts == [p \in Parts(view) |-> [by |-> "api", data |-> data(p)]]
           Y == {PageKey} \cup {data(p) : p \in Parts(view)}
           s == [key |-> PageKey, parts |-> parts, old |-> FALSE, behind |-> FALSE,
                 outdated |-> FALSE, torn |-> FALSE]
<1>4. shown = s
  <2>1. n = [key |-> PageKey, parts |-> [p \in Parts(view) |-> NoAnswer], old |-> FALSE,
             behind |-> FALSE, outdated |-> FALSE, torn |-> FALSE]
    BY DEF NewLoad, PageKey
  <2> DEFINE none == [p \in Parts(view) |-> NoAnswer]
  <2>2. DOMAIN none = Parts(view)
    OBVIOUS
  <2> HIDE DEF n, none
  <2>3. n.key = PageKey /\ n.parts = none
    BY <2>1 DEF none
  <2>4. Loaded(n) = [n EXCEPT !.parts = parts]
    BY <2>2, <2>3 DEF Loaded
  <2> HIDE DEF parts
  <2>5. Loaded(n) = s
    BY <2>1, <2>4
  <2>6. QED
    BY <2>5 DEF Init, n
<1>5. /\ parts \in [Parts(view) -> LoadAnswers(Y)]
      /\ \A p \in Parts(view) : parts[p].by = "api" /\ parts[p].data = data(p)
  BY DEF LoadAnswers
<1>6. \A p \in Parts(view) : PresentAt(NowTables, PageKey, p, data(p))
  BY <1>1, FetchPresent
<1>7. PageKey \in Y
  OBVIOUS
<1> HIDE DEF parts, data, Y, n
<1>8. /\ s \in LoadRows(view, Y) /\ s.key = PageKey /\ s.parts = parts
  BY <1>5, <1>7 DEF LoadRows
<1> HIDE DEF s
<1>9. PartsPresent(view, s, NowTables)
  BY <1>5, <1>6, <1>8 DEF PartsPresent
<1>10. Owed(view, <<>>, 0, s, PageKey, Moving, NowTables)
  BY <1>8, <1>9 DEF Owed
<1>11. Counted(view, s, NowTables)
  <2> SUFFICES ASSUME view = "governance"
               PROVE  /\ SameCount(s.parts["summary"].data, s.parts["approvals"].data)
                      /\ s.parts["summary"].by = "api" /\ s.parts["approvals"].by = "api"
    BY DEF Counted
  <2>1. Parts(view) = {"summary", "approvals"}
    BY DEF Parts
  <2>2. QED
    BY <1>5, <1>6, <1>8, <2>1, PresentTogether
<1>12. LoadsTyped(view, <<>>, s)
  BY <1>8 DEF LoadsTyped
<1>13. LoadsSound(view, <<>>, s, PageKey, Moving, NowTables)
  BY <1>10, <1>11, <1>12 DEF LoadsSound, Ordered
<1>14. PageSound
  BY <1>4, <1>13 DEF PageSound, Init
<1>15. ShownComplete
  BY <1>4, <1>5, <1>8 DEF ShownComplete
<1>16. QED
  BY <1>1, <1>2, <1>3, <1>14, <1>15 DEF PageInv

-----------------------------------------------------------------------------
(* Calls that arrive. *)

Fresh(request) ==
  /\ \E Y : request \in CallsOver(Y)
  /\ request.place = 0 /\ request.pc # "idle"

LEMMA NewCallFresh ==
  ASSUME NEW pc \in {"find", "definition", "save"}, NEW op \in Operations,
         NEW id, NEW user, NEW definition
  PROVE  Fresh(NewCall(pc, op, id, user, definition))
<1> DEFINE Y == {id, user, definition, Pending, NoInstance, 0}
<1>1. NewCall(pc, op, id, user, definition) \in CallsOver(Y)
  BY DEF NewCall, CallsOver
<1>2. NewCall(pc, op, id, user, definition).place = 0
      /\ NewCall(pc, op, id, user, definition).pc = pc
  BY DEF NewCall
<1> HIDE DEF Y
<1>3. QED
  BY <1>1, <1>2 DEF Fresh

(* The call at c becomes row: what it had written it has written still.     *)
LEMMA CallGoesOn ==
  ASSUME CallsTyped, NEW c \in Calls, NEW Y, NEW row \in CallsOver(Y),
         call' = [call EXCEPT ![c] = row], written' \in Nat,
         row.place > 0 => row.pc = "answered",
         HasWritten(c) => row.place > 0
  PROVE  /\ CallsTyped'
         /\ call'[c] = row
         /\ \A d \in Calls : d # c => call'[d] = call[d]
         /\ \A d \in Calls : HasWritten(d) => HasWritten(d)'
<1>1. PICK X : call \in [Calls -> CallsOver(X)]
  BY DEF CallsTyped
<1>2. CallsOver(X) \subseteq CallsOver(X \cup Y) /\ row \in CallsOver(X \cup Y)
  BY DEF CallsOver
<1>3. call' \in [Calls -> CallsOver(X \cup Y)]
  BY <1>1, <1>2
<1>4. call'[c] = row /\ \A d \in Calls : d # c => call'[d] = call[d]
  BY <1>1
<1>5. \E Z : call' \in [Calls -> CallsOver(Z)]
  BY <1>3
<1>6. \A d \in Calls : call'[d].place > 0 => call'[d].pc = "answered"
  BY <1>4 DEF CallsTyped
<1>7. CallsTyped'
  BY <1>5, <1>6 DEF CallsTyped
<1>8. QED
  BY <1>4, <1>7 DEF HasWritten

LEMMA CallArrives ==
  ASSUME CallsTyped, NEW c \in Calls, NEW request, Fresh(request), Arrive(c, request),
         UNCHANGED written
  PROVE  /\ CallsTyped'
         /\ call'[c] = request
         /\ \A d \in Calls : call[d].pc # "idle" => call'[d] = call[d]
         /\ \A d \in Calls : HasWritten(d) => HasWritten(d)'
<1>1. PICK Y : request \in CallsOver(Y)
  BY DEF Fresh
<1>2. call' = [call EXCEPT ![c] = request] /\ call[c].pc = "idle"
  BY DEF Arrive
<1>3. ~HasWritten(c) /\ ~(request.place > 0) /\ written' \in Nat
  BY <1>2 DEF CallsTyped, HasWritten, Fresh
<1>4. QED
  BY <1>1, <1>2, <1>3, CallGoesOn

(* Handlers that have changed something still have.                         *)
LEMMA MovingStays ==
  ASSUME UNCHANGED view, \A d \in Calls : HasWritten(d) => HasWritten(d)',
         \A h \in Moving : handler'[h] = handler[h]
  PROVE  Moving \subseteq Moving'
  BY DEF Moving, Calling, HasChanged

LEMMA HandlersRequest ==
  ASSUME NEW button \in CallButtons, NEW id, NEW u
  PROVE  LET request == HandlerOf(button, id, u).post.request
         IN  request = None \/ Fresh(request)
<1> USE DEF HandlerOf, Handle, PostElsewhere, Post, Operations, Decisions, Changes
<1>1. CASE button = "apply"
  BY <1>1, NewCallFresh DEF handleApplyAssistant, createAssistantInstance, CreateRequest
<1>2. CASE button = "prefer"
  BY <1>2, NewCallFresh DEF handleSetLinePreference, updateNotificationPreference,
                            PreferenceRequest
<1>3. CASE button = "approve"
  BY <1>3, NewCallFresh DEF handleApprove, approveRequest, ApproveRequest
<1>4. CASE button = "reject"
  BY <1>4, NewCallFresh DEF handleReject, rejectRequest, RejectRequest
<1>5. CASE button \in {"converse", "send", "authorize", "revoke", "sync"}
  BY <1>5 DEF handleCreateConversation, createConversation,
              handleSendMessage, sendConversationMessage,
              handleAuthorizeConnector, beginConnectorAuthorization,
              handleRevokeConnector, revokeConnector, handleSyncConnector, syncConnector
<1>6. CASE button \in {"schedule", "run", "retry", "requeue", "bulk"}
  BY <1>6 DEF handleCreateSchedule, createSchedule, handleRunScheduledJob, runJob,
              handleRetryJob, retryJob, handleRequeueFailedJob, requeueFailedJob,
              handleBulkRequeueFailedJobs, bulkRequeueFailedJobs
<1>7. CASE button \in {"pause", "resume", "settings"}
  BY <1>7 DEF handlePauseQueue, pauseQueue, handleResumeQueue, resumeQueue,
              handleUpdateQueueSettings, updateQueueSettings
<1>8. QED
  BY <1>1, <1>2, <1>3, <1>4, <1>5, <1>6, <1>7 DEF CallButtons

(* What a view shows depends on its own tables only. *)
SameTables(v, T, U) ==
  /\ v = "governance" => U[1] = T[1]
  /\ v = "instances" => U[2] = T[2]
  /\ v = "notifications" => U[3] = T[3]
  /\ \A t \in TablesOf(v) \cap Tables : U[4][t] = T[4][t]

LEMMA TablesShown ==
  ASSUME NEW v \in AllViews, NEW T, NEW U, SameTables(v, T, U)
  PROVE  \A x : PartsPresent(v, x, T) => PartsPresent(v, x, U)
<1>1. ASSUME NEW p \in Parts(v), NEW key, NEW data, PresentAt(T, key, p, data)
      PROVE  PresentAt(U, key, p, data)
  <2>1. CASE p = "catalog"
    BY <1>1, <2>1 DEF PresentAt
  <2>2. CASE p = "instances"
    <3>1. v = "instances"
      BY <2>2 DEF Parts, AllViews
    <3>2. U[2] = T[2]
      BY <3>1 DEF SameTables
    <3>3. QED
      BY <1>1, <2>2, <3>2 DEF PresentAt
  <2>3. CASE p = "preferences"
    <3>1. v = "notifications"
      BY <2>3 DEF Parts, AllViews
    <3>2. U[3] = T[3]
      BY <3>1 DEF SameTables
    <3>3. QED
      BY <1>1, <2>3, <3>2 DEF PresentAt
  <2>4. CASE p \in {"summary", "approvals"}
    <3>1. v = "governance"
      BY <2>4 DEF Parts, AllViews
    <3>2. U[1] = T[1]
      BY <3>1 DEF SameTables
    <3>3. \A org, b : SummaryAt(U, org, b) = SummaryAt(T, org, b) /\ ListAt(U, org) = ListAt(T, org)
      BY <3>2 DEF SummaryAt, ListAt
    <3>4. CASE p = "summary"
      BY <1>1, <3>3, <3>4 DEF PresentAt
    <3>5. CASE p = "approvals"
      BY <1>1, <3>3, <3>5 DEF PresentAt
    <3>6. QED
      BY <2>4, <3>4, <3>5
  <2>5. CASE p = "messages"
    <3>1. v = "notifications"
      BY <2>5 DEF Parts, AllViews
    <3>2. "messages" \in TablesOf(v) \cap Tables
      BY <3>1 DEF TablesOf, Tables
    <3>3. U[4]["messages"] = T[4]["messages"]
      BY <3>2 DEF SameTables
    <3>4. QED
      BY <1>1, <2>5, <3>3 DEF PresentAt
  <2>6. CASE p = "jobs"
    <3>1. v = "jobs"
      BY <2>6 DEF Parts, AllViews
    <3>2. {"jobs", "queue"} \subseteq TablesOf(v) \cap Tables
      BY <3>1 DEF TablesOf, Tables
    <3>3. U[4]["jobs"] = T[4]["jobs"] /\ U[4]["queue"] = T[4]["queue"]
      BY <3>2 DEF SameTables
    <3>4. QED
      BY <1>1, <2>6, <3>3 DEF PresentAt
  <2>7. CASE p = "detail"
    <3>1. v = "detail"
      BY <2>7 DEF Parts, AllViews
    <3>2. "events" \in TablesOf(v) \cap Tables
      BY <3>1 DEF TablesOf, Tables
    <3>3. U[4]["events"] = T[4]["events"]
      BY <3>2 DEF SameTables
    <3>4. QED
      BY <1>1, <2>7, <3>3 DEF PresentAt
  <2>8. CASE p \in {"snapshots", "connectors", "conversations"}
    <3>1. v = p
      BY <2>8 DEF Parts, AllViews
    <3>2. p \in TablesOf(v) \cap Tables
      BY <2>8, <3>1 DEF TablesOf, Tables
    <3>3. U[4][p] = T[4][p]
      BY <3>2 DEF SameTables
    <3>4. QED
      BY <1>1, <2>8, <3>3 DEF PresentAt
  <2>9. QED
    BY <2>1, <2>2, <2>3, <2>4, <2>5, <2>6, <2>7, <2>8 DEF Parts, AllViews
<1>2. QED
  BY <1>1 DEF PartsPresent

(* Only the tables change: the view shows none of it, or awaits it.         *)
LEMMA LoadsStay ==
  ASSUME NEW v \in AllViews, NEW ls, NEW s, NEW k, NEW C, NEW T, LoadsSound(v, ls, s, k, C, T),
         NEW D, NEW U, U[1] = T[1],
         D # {} \/ (C = {} /\ SameTables(v, T, U))
  PROVE  LoadsSound(v, ls, s, k, D, U)
<1>1. LoadsTyped(v, ls, s)
  BY DEF LoadsSound
<1>2. \A x : StaysPresent(v, x, x, C, T, D, U) /\ Renewed(x, x)
  BY TablesShown DEF StaysPresent, Renewed
<1>3. \A x : Counted(v, x, T) => Counted(v, x, U)
  BY DEF Counted, PresentAt, SummaryAt, ListAt
<1>4. Counted(v, s, U) /\ \A i \in DOMAIN ls : Counted(v, ls[i], U)
  BY <1>3 DEF LoadsSound
<1>5. QED
  BY <1>1, <1>2, <1>4, LoadsRenewed

LEMMA PressSound ==
  ASSUME ViewsInv, PageInv, NEW h \in Handlers, NEW button \in CallButtons, NEW id,
         NEW c \in Calls \cup {None}, Press(h, button, id, c)
  PROVE  PageInv'
<1> DEFINE request == HandlerOf(button, id, context.user).post.request
           row == Pressed(button, id, c)
<1>1. /\ handler' = [handler EXCEPT ![h] = row]
      /\ handler[h].pc = "new"
      /\ UNCHANGED <<view, context, filter, loads, shown, approval, instance, preference, changed,
                     written>>
      /\ IF request = None THEN c = None /\ UNCHANGED call ELSE c # None /\ Arrive(c, request)
  BY DEF Press, NextPress, rowVars, tableVars
<1>2. row.button = button /\ row.call = c
  BY DEF Pressed
<1>3. /\ request = None \/ Fresh(request)
      /\ request = None \/ ViewOf(request.op) \in ReloadsOf(button)
  BY HandlersRequest, HandlersReload
<1> HIDE DEF request, row
<1>4. PICK X : handler \in [Handlers -> HandlerRows(X)]
  BY DEF ViewsInv, HandlersSound
<1>5. handler'[h] = row /\ \A g \in Handlers : g # h => handler'[g] = handler[g]
  BY <1>1, <1>4
<1>6. /\ CallsTyped'
      /\ \A d \in Calls : call[d].pc # "idle" => call'[d] = call[d]
      /\ \A d \in Calls : HasWritten(d) => HasWritten(d)'
      /\ c \in Calls => call'[c] = request /\ Fresh(request) /\ request # None
  <2>1. CASE request = None
    BY <1>1, <2>1, ConsoleViewsAssumption DEF PageInv, CallsTyped, HasWritten
  <2>2. CASE request # None
    BY <1>1, <1>3, <2>2, CallArrives DEF PageInv
  <2>3. QED
    BY <2>1, <2>2
<1>7. HandlersCall'
  <2> SUFFICES ASSUME NEW g \in Handlers, Calling(g)', handler'[g].call \in Calls
               PROVE  /\ call'[handler'[g].call].pc # "idle"
                      /\ ViewOf(call'[handler'[g].call].op) \in ReloadsOf(handler'[g].button)
    BY DEF HandlersCall
  <2>1. CASE g = h
    BY <1>2, <1>3, <1>5, <1>6, <2>1 DEF Fresh
  <2>2. CASE g # h
    BY <1>5, <1>6, <2>2 DEF PageInv, HandlersCall, Calling
  <2>3. QED
    BY <2>1, <2>2
<1>8. h \notin Moving
  BY <1>1 DEF Moving, Calling
<1>9. Moving \subseteq Moving'
  BY <1>1, <1>5, <1>6, <1>8, MovingStays DEF Moving
<1>10. PageSound'
  BY <1>1, <1>9, PageStays DEF PageInv
<1>11. QED
  BY <1>1, <1>6, <1>7, <1>10 DEF PageInv, ShownComplete

(* The handler at h goes on, or ends. *)
LEMMA OneHandlerMoves ==
  ASSUME ViewsInv, PageInv, NEW h \in Handlers, NEW row, handler' = [handler EXCEPT ![h] = row],
         row.pc \in {"served", "refused"} =>
            Calling(h) /\ row.button = handler[h].button /\ row.call = handler[h].call,
         row.pc # "calling",
         UNCHANGED <<view, call, written>>
  PROVE  /\ CallsTyped' /\ HandlersCall'
         /\ handler'[h] = row
         /\ Moving \ {h} \subseteq Moving'
<1>1. PICK X : handler \in [Handlers -> HandlerRows(X)]
  BY DEF ViewsInv, HandlersSound
<1>2. handler'[h] = row /\ \A g \in Handlers : g # h => handler'[g] = handler[g]
  BY <1>1
<1>3. CallsTyped'
  BY DEF PageInv, CallsTyped
<1>4. HandlersCall'
  <2> SUFFICES ASSUME NEW g \in Handlers, Calling(g)', handler'[g].call \in Calls
               PROVE  /\ call'[handler'[g].call].pc # "idle"
                      /\ ViewOf(call'[handler'[g].call].op) \in ReloadsOf(handler'[g].button)
    BY DEF HandlersCall
  <2>1. CASE g = h
    BY <1>2, <2>1 DEF PageInv, HandlersCall, Calling
  <2>2. CASE g # h
    BY <1>2, <2>2 DEF PageInv, HandlersCall, Calling
  <2>3. QED
    BY <2>1, <2>2
<1>5. Moving \ {h} \subseteq Moving'
  BY <1>2 DEF Moving, Calling, HasChanged, HasWritten
<1>6. QED
  BY <1>2, <1>3, <1>4, <1>5

LEMMA ServeSound ==
  ASSUME ViewsInv, PageInv, NEW h \in Handlers, Serve(h)
  PROVE  PageInv'
<1> DEFINE row == [handler[h] EXCEPT !.pc = "served"]
<1>1. PICK X : handler \in [Handlers -> HandlerRows(X)]
  BY DEF ViewsInv, HandlersSound
<1>2. handler[h] \in HandlerRows(X) /\ Calling(h) /\ handler[h].button \in CallButtons
  BY <1>1 DEF Serve, Calling, ViewsInv, HandlersSound
<1>3. row.pc = "served" /\ row.button = handler[h].button /\ row.call = handler[h].call
  BY <1>2 DEF HandlerRows
<1>4. /\ handler' = [handler EXCEPT ![h] = row]
      /\ UNCHANGED <<view, context, filter, loads, shown, approval, instance, preference, call,
                     written>>
      /\ changed' = [t \in Tables |-> IF IdOfAPI(h) /\ t \in Pushed(h).post.writes
                                      THEN changed[t] + 1 ELSE changed[t]]
  BY <1>1 DEF Serve, serviceVars, rowVars
<1> HIDE DEF row
<1>5. CallsTyped' /\ HandlersCall' /\ handler'[h] = row /\ Moving \ {h} \subseteq Moving'
  BY <1>2, <1>3, <1>4, OneHandlerMoves
<1>6. LoadsSound(view, loads, shown, PageKey, Moving, NowTables)
  BY DEF PageInv, PageSound
<1>7. NowTables' = <<approval, instance, preference, changed'>> /\ PageKey' = PageKey
  BY <1>4 DEF NowTables, PageKey, Key, Selected
<1>8. LoadsSound(view, loads, shown, PageKey, Moving', NowTables')
  <2>1. CASE view \in ReloadsOf(handler[h].button)
    <3>1. h \in Moving'
      BY <1>3, <1>4, <1>5, <2>1 DEF Moving, Calling, HasChanged
    <3>2. QED
      BY <1>6, <1>7, <3>1, LoadsStay DEF NowTables, PageInv
  <2>2. CASE view \notin ReloadsOf(handler[h].button)
    <3>1. Pushed(h).post.writes \cap TablesOf(view) = {}
      BY <1>2, <2>2, HandlersReload DEF Pushed, PageInv
    <3>2. SameTables(view, NowTables, NowTables')
      BY <1>4, <1>7, <3>1 DEF SameTables, NowTables
    <3>3. h \notin Moving
      BY <2>2 DEF Moving
    <3>4. Moving' # {} \/ Moving = {}
      BY <1>5, <3>3
    <3>5. QED
      BY <1>6, <1>7, <3>2, <3>4, LoadsStay DEF NowTables, PageInv
  <2>3. QED
    BY <2>1, <2>2
<1>9. PageSound'
  BY <1>4, <1>7, <1>8 DEF PageSound
<1>10. QED
  BY <1>4, <1>5, <1>9 DEF PageInv, ShownComplete

LEMMA RefuseSound ==
  ASSUME ViewsInv, PageInv, NEW h \in Handlers, Refuse(h)
  PROVE  PageInv'
<1> DEFINE row == [handler[h] EXCEPT !.pc = "refused"]
<1>1. PICK X : handler \in [Handlers -> HandlerRows(X)]
  BY DEF ViewsInv, HandlersSound
<1>2. handler[h] \in HandlerRows(X) /\ Calling(h) /\ handler[h].pc = "calling"
  BY <1>1 DEF Refuse, Calling
<1>3. row.pc = "refused" /\ row.button = handler[h].button /\ row.call = handler[h].call
  BY <1>2 DEF HandlerRows
<1>4. /\ handler' = [handler EXCEPT ![h] = row]
      /\ UNCHANGED <<view, context, filter, loads, shown, approval, instance, preference, changed,
                     call, written>>
  BY <1>1 DEF Refuse, serviceVars, rowVars, tableVars
<1> HIDE DEF row
<1>5. CallsTyped' /\ HandlersCall' /\ handler'[h] = row /\ Moving \ {h} \subseteq Moving'
  BY <1>2, <1>3, <1>4, OneHandlerMoves
<1>6. h \in Moving => h \in Moving'
  BY <1>2, <1>3, <1>4, <1>5 DEF Moving, Calling, HasChanged, HasWritten
<1>7. PageSound'
  BY <1>4, <1>5, <1>6, PageStays DEF PageInv
<1>8. QED
  BY <1>4, <1>5, <1>7 DEF PageInv, ShownComplete

(* A handler ends and loads the view again, or had nothing to load there.   *)
LEMMA EndSound ==
  ASSUME ViewsInv, PageInv, NEW h \in Handlers, CallAnswered(h) \/ DemoAnswers(h) \/ Throw(h)
  PROVE  PageInv'
<1> DEFINE row == [NoPress EXCEPT !.pc = "done"]
<1>1. Calling(h) /\ handler' = [handler EXCEPT ![h] = row]
      /\ UNCHANGED <<view, context, filter, approval, instance, preference, changed, call, written>>
  BY DEF CallAnswered, DemoAnswers, Throw, Reload, rowVars, tableVars
<1>2. handler[h].button \in CallButtons
  BY <1>1 DEF ViewsInv, HandlersSound
<1>3. row.pc = "done"
  BY DEF NoPress
<1> HIDE DEF row
<1>4. CallsTyped' /\ HandlersCall' /\ Moving \ {h} \subseteq Moving'
  BY <1>1, <1>3, OneHandlerMoves
<1>5. ASSUME h \notin Moving, UNCHANGED <<loads, shown>> PROVE PageSound'
  BY <1>1, <1>4, <1>5, PageStays DEF PageInv
<1>6. PICK X : shown \in LoadRows(view, X)
  BY DEF PageInv, PageSound, LoadsSound, LoadsTyped
<1>7. CASE CallAnswered(h) \/ DemoAnswers(h)
  <2>1. UNCHANGED shown /\ loads' = Begun(Pushed(h).reloads, handler[h].at, handler[h].filter)
    BY <1>7 DEF CallAnswered, DemoAnswers, Reload
  <2>2. Pushed(h).reloads = ReloadsOf(handler[h].button)
    BY <1>2, HandlersReload DEF Pushed
  <2>3. ASSUME view \in Pushed(h).reloads PROVE PageSound'
    BY <1>1, <2>1, <2>3, BegunSound DEF PageInv
  <2>4. ASSUME view \notin Pushed(h).reloads PROVE PageSound'
    BY <1>5, <2>1, <2>2, <2>4 DEF Begun, Moving
  <2>5. PageSound'
    BY <2>3, <2>4
  <2>6. QED
    BY <1>1, <1>4, <2>1, <2>5 DEF PageInv, ShownComplete
<1>8. CASE Throw(h)
  <2>1. CASE HasChanged(h)
    <3>1. Outdated(TRUE)
      BY <1>8, <2>1 DEF Throw, Outdated
    <3>2. PageSound'
      BY <1>1, <3>1, OutdatedSound DEF PageInv
    <3>3. shown'.parts = shown.parts
      BY <1>6, <3>1 DEF Outdated, LoadRows
    <3>4. QED
      BY <1>1, <1>4, <3>2, <3>3 DEF PageInv, ShownComplete
  <2>2. CASE ~HasChanged(h)
    <3>1. UNCHANGED <<loads, shown>> /\ h \notin Moving
      BY <1>8, <2>2 DEF Throw, Outdated, Moving
    <3>2. QED
      BY <1>1, <1>4, <1>5, <3>1 DEF PageInv, ShownComplete
  <2>3. QED
    BY <2>1, <2>2
<1>9. QED
  BY <1>7, <1>8

-----------------------------------------------------------------------------
(* Effects, and what happens elsewhere. *)
LEMMA PressDemoSound ==
  ASSUME PageInv, NEW button \in DemoButtons, PressDemo(button)
  PROVE  PageInv'
<1> DEFINE handled == HandlerOf(button, None, context.user)
<1>1. /\ UNCHANGED <<view, context, filter, shown, handler, call, written, approval>>
      /\ view \in handled.reloads /\ loads' = Begun(handled.reloads, context, filter)
  BY DEF PressDemo, serviceVars, rowVars
<1> HIDE DEF handled
<1>2. PageSound'
  BY <1>1, BegunSound DEF PageInv
<1>3. QED
  BY <1>1, <1>2, CallsStay DEF PageInv, ShownComplete

LEMMA EffectSound ==
  ASSUME PageInv, EffectStep
  PROVE  PageInv'
<1>1. UNCHANGED <<view, shown, handler, call, written, approval, instance, preference, changed>>
  BY DEF EffectStep, SetAuth, SetAuthByDemo, Choose, SetLocale, TimerFires, serviceVars,
         rowVars, tableVars
<1>2. CallsTyped' /\ HandlersCall' /\ Moving' = Moving
  BY <1>1, CallsStay DEF PageInv
<1>3. ASSUME NEW at, SetAuth(at) PROVE PageSound'
  BY <1>1, <1>3, BegunForContextSound DEF SetAuth, PageInv
<1>4. ASSUME NEW org, SetAuthByDemo(org) PROVE PageSound'
  BY <1>1, <1>4, BegunForContextSound DEF SetAuthByDemo, PageInv
<1>5. ASSUME NEW f, Choose(f) PROVE PageSound'
  BY <1>1, <1>5, BegunSound DEF Choose, PageInv
<1>6. ASSUME SetLocale PROVE PageSound'
  <2>1. UNCHANGED <<context, filter>> /\ loads' = Begun(AllViews \ Selected, context, filter)
    BY <1>6 DEF SetLocale
  <2>2. CASE view \in Selected
    BY <1>1, <1>2, <2>1, <2>2, PageStays DEF PageInv, Begun
  <2>3. CASE view \notin Selected
    BY <1>1, <2>1, <2>3, BegunSound DEF PageInv
  <2>4. QED
    BY <2>2, <2>3
<1>7. ASSUME TimerFires PROVE PageSound'
  BY <1>1, <1>7, BegunSound DEF TimerFires, PageInv
<1>8. PageSound'
  BY <1>3, <1>4, <1>5, <1>6, <1>7 DEF EffectStep
<1>9. QED
  BY <1>1, <1>2, <1>8 DEF PageInv, ShownComplete

LEMMA ElsewhereSound ==
  ASSUME PageInv, NEW t, ChangeElsewhere(t)
  PROVE  PageInv'
<1>1. /\ UNCHANGED <<view, context, filter, handler, call, written, approval>>
      /\ Outdated(TRUE)
  BY DEF ChangeElsewhere, serviceVars, rowVars
<1>2. PICK X : shown \in LoadRows(view, X)
  BY DEF PageInv, PageSound, LoadsSound, LoadsTyped
<1>3. PageSound'
  BY <1>1, OutdatedSound DEF PageInv
<1>4. shown'.parts = shown.parts
  BY <1>1, <1>2 DEF Outdated, LoadRows
<1>5. QED
  BY <1>1, <1>3, <1>4, CallsStay DEF PageInv, ShownComplete

(* Steps that leave all of it as it is. *)
LEMMA NothingSound ==
  ASSUME PageInv, UNCHANGED <<pageVars, serviceVars, changed>>
  PROVE  PageInv'
<1>1. UNCHANGED <<view, context, filter, loads, shown, handler, call, written, approval, instance,
                  preference, changed>>
  BY DEF pageVars, serviceVars, rowVars
<1>2. CallsTyped' /\ HandlersCall' /\ Moving' = Moving
  BY <1>1, CallsStay DEF PageInv
<1>3. PageSound'
  BY <1>1, <1>2, PageStays DEF PageInv
<1>4. QED
  BY <1>1, <1>2, <1>3 DEF PageInv, ShownComplete

(* Calls of handlers are not idle, so no request of another client takes    *)
(* their place.                                                             *)
LEMMA OtherClientsSound ==
  ASSUME PageInv, NEW c \in Calls, OtherClients(c)
  PROVE  PageInv'
<1>1. UNCHANGED <<view, context, filter, loads, shown, handler, written, approval, instance,
                  preference, changed>>
  BY DEF OtherClients, Request, pageVars, tableVars, rowVars
<1>2. PICK request : Fresh(request) /\ Arrive(c, request)
  <2> USE DEF Operations, Decisions, Changes
  <2>1. ASSUME NEW u, NEW r, Arrive(c, ApproveRequest(r, u)) \/ Arrive(c, RejectRequest(r, u))
        PROVE  \E request : Fresh(request) /\ Arrive(c, request)
    BY <2>1, NewCallFresh DEF ApproveRequest, RejectRequest
  <2>2. ASSUME NEW u, NEW d, Arrive(c, CreateRequest(u, d))
        PROVE  \E request : Fresh(request) /\ Arrive(c, request)
    BY <2>2, NewCallFresh DEF CreateRequest
  <2>3. ASSUME NEW u, NEW q, Arrive(c, PreferenceRequest(q, u))
        PROVE  \E request : Fresh(request) /\ Arrive(c, request)
    BY <2>3, NewCallFresh DEF PreferenceRequest
  <2>4. ASSUME NEW i, Arrive(c, SuspendRequest(i))
        PROVE  \E request : Fresh(request) /\ Arrive(c, request)
    BY <2>4, NewCallFresh DEF SuspendRequest
  <2>5. ASSUME NEW i, NEW d, Arrive(c, UpgradeRequest(i, d))
        PROVE  \E request : Fresh(request) /\ Arrive(c, request)
    BY <2>5, NewCallFresh DEF UpgradeRequest
  <2>6. Request(c)
    BY DEF OtherClients
  <2>7. QED
    BY <2>1, <2>2, <2>3, <2>4, <2>5, <2>6 DEF Request
<1>3. /\ CallsTyped'
      /\ \A d \in Calls : call[d].pc # "idle" => call'[d] = call[d]
      /\ \A d \in Calls : HasWritten(d) => HasWritten(d)'
  BY <1>1, <1>2, CallArrives DEF PageInv
<1>4. HandlersCall'
  BY <1>1, <1>3 DEF PageInv, HandlersCall, Calling
<1>5. Moving \subseteq Moving'
  BY <1>1, <1>3, MovingStays
<1>6. PageSound'
  BY <1>1, <1>5, PageStays DEF PageInv
<1>7. QED
  BY <1>1, <1>3, <1>4, <1>6 DEF PageInv, ShownComplete

-----------------------------------------------------------------------------
(* The API at work. *)

(* A call goes on, and its row is written by it alone. *)
ServiceEffect ==
  /\ CallsTyped'
  /\ \A d \in Calls : /\ call'[d].op = call[d].op
                      /\ call[d].pc # "idle" => call'[d].pc # "idle"
                      /\ HasWritten(d) => HasWritten(d)'
  /\ \/ UNCHANGED approval
     \/ \E d \in Calls : HasWritten(d)' /\ ~HasWritten(d) /\ call[d].op \in Decisions
  /\ \/ UNCHANGED instance
     \/ \E d \in Calls : HasWritten(d)' /\ ~HasWritten(d) /\ call[d].op \in Changes \cup {"create"}
  /\ \/ UNCHANGED preference
     \/ \E d \in Calls : HasWritten(d)' /\ ~HasWritten(d) /\ call[d].op = "prefer"

(* A call that reads, or fails. *)
LEMMA CallReads ==
  ASSUME CallsTyped, NEW c \in Calls, NEW Y, NEW row \in CallsOver(Y),
         call' = [call EXCEPT ![c] = row], UNCHANGED <<rowVars, written>>,
         call[c].pc # "answered", row.place = call[c].place, row.op = call[c].op, row.pc # "idle"
  PROVE  ServiceEffect
<1>1. ~HasWritten(c) /\ ~(row.place > 0) /\ written' \in Nat
  BY DEF CallsTyped, HasWritten
<1>2. /\ CallsTyped' /\ call'[c] = row /\ \A d \in Calls : d # c => call'[d] = call[d]
      /\ \A d \in Calls : HasWritten(d) => HasWritten(d)'
  BY <1>1, CallGoesOn
<1>3. UNCHANGED <<approval, instance, preference>>
  BY DEF rowVars
<1>4. QED
  BY <1>2, <1>3 DEF ServiceEffect

LEMMA CallWrites ==
  ASSUME CallsTyped, NEW c \in Calls, call[c].pc = "save", Written(c)
  PROVE  /\ CallsTyped'
         /\ \A d \in Calls : /\ call'[d].op = call[d].op
                             /\ call[d].pc # "idle" => call'[d].pc # "idle"
                             /\ HasWritten(d) => HasWritten(d)'
         /\ HasWritten(c)' /\ ~HasWritten(c)
<1> DEFINE row == [call[c] EXCEPT !.pc = "answered", !.place = written + 1]
<1>1. PICK X : call \in [Calls -> CallsOver(X)]
  BY DEF CallsTyped
<1>2. written + 1 \in Nat /\ written + 1 > 0
  BY DEF CallsTyped
<1>3. row \in CallsOver(X) /\ row.pc = "answered" /\ row.place = written + 1
      /\ row.op = call[c].op
  BY <1>1, <1>2 DEF CallsOver
<1>4. call' = [call EXCEPT ![c] = row] /\ written' \in Nat
  BY <1>1, <1>2 DEF Written, CallsOver
<1> HIDE DEF row
<1>5. ~HasWritten(c)
  BY DEF CallsTyped, HasWritten
<1>6. /\ CallsTyped' /\ call'[c] = row /\ \A d \in Calls : d # c => call'[d] = call[d]
      /\ \A d \in Calls : HasWritten(d) => HasWritten(d)'
  BY <1>2, <1>3, <1>4, <1>5, CallGoesOn
<1>7. HasWritten(c)'
  BY <1>2, <1>3, <1>6 DEF HasWritten
<1>8. QED
  BY <1>3, <1>5, <1>6, <1>7

LEMMA ServiceWrites ==
  ASSUME CallsTyped, ServiceStep
  PROVE  ServiceEffect
<1>1. PICK X : call \in [Calls -> CallsOver(X)]
  BY DEF CallsTyped
<1>2. CASE Tick
  BY <1>2 DEF Tick, rowVars, ServiceEffect, CallsTyped, HasWritten
<1>3. ASSUME NEW c \in Calls, FindApproval(c) PROVE ServiceEffect
  <2>1. call[c] \in CallsOver(X) /\ call[c].pc = "find" /\ UNCHANGED <<rowVars, written>>
        /\ written \in Nat
    BY <1>1, <1>3 DEF FindApproval, CallsTyped
  <2>2. CASE call[c].id \in Records
    <3> DEFINE a == approval[call[c].id]
               row == [call[c] EXCEPT !.pc = "save", !.approval = a, !.seen = written]
    <3>1. call' = [call EXCEPT ![c] = row]
      BY <1>1, <1>3, <2>2 DEF FindApproval
    <3> HIDE DEF a
    <3>2. /\ row \in CallsOver(X \cup {a, written}) /\ row.place = call[c].place
          /\ row.op = call[c].op /\ row.pc # "idle"
      BY <2>1 DEF CallsOver
    <3> HIDE DEF row
    <3>3. QED
      BY <2>1, <3>1, <3>2, CallReads
  <2>3. CASE call[c].id \notin Records
    <3> DEFINE row == [call[c] EXCEPT !.pc = "answered"]
    <3>1. call' = [call EXCEPT ![c] = row]
      BY <1>1, <1>3, <2>3 DEF FindApproval
    <3>2. /\ row \in CallsOver(X) /\ row.place = call[c].place
          /\ row.op = call[c].op /\ row.pc # "idle"
      BY <2>1 DEF CallsOver
    <3> HIDE DEF row
    <3>3. QED
      BY <2>1, <3>1, <3>2, CallReads
  <2>4. QED
    BY <2>2, <2>3
<1>4. ASSUME NEW c \in Calls, FindInstance(c) PROVE ServiceEffect
  <2> DEFINE a == instance[call[c].id]
             row == [call[c] EXCEPT !.pc = "save", !.instance = a, !.seen = written]
  <2>1. call[c] \in CallsOver(X) /\ call[c].pc = "find" /\ UNCHANGED <<rowVars, written>>
        /\ written \in Nat
    BY <1>1, <1>4 DEF FindInstance, CallsTyped
  <2>2. call' = [call EXCEPT ![c] = row]
    BY <1>1, <1>4 DEF FindInstance
  <2> HIDE DEF a
  <2>3. /\ row \in CallsOver(X \cup {a, written}) /\ row.place = call[c].place
        /\ row.op = call[c].op /\ row.pc # "idle"
    BY <2>1 DEF CallsOver
  <2> HIDE DEF row
  <2>4. QED
    BY <2>1, <2>2, <2>3, CallReads
<1>5. ASSUME NEW c \in Calls, NameInstance(c) PROVE ServiceEffect
  <2> DEFINE row == [call[c] EXCEPT !.pc = "save", !.id = now]
  <2>1. call[c] \in CallsOver(X) /\ call[c].pc = "definition" /\ UNCHANGED <<rowVars, written>>
    BY <1>1, <1>5 DEF NameInstance
  <2>2. call' = [call EXCEPT ![c] = row]
    BY <1>1, <1>5 DEF NameInstance
  <2>3. /\ row \in CallsOver(X \cup {now}) /\ row.place = call[c].place
        /\ row.op = call[c].op /\ row.pc # "idle"
    BY <2>1 DEF CallsOver
  <2> HIDE DEF row
  <2>4. QED
    BY <2>1, <2>2, <2>3, CallReads
<1>6. ASSUME NEW c \in Calls, RefuseDefinition(c) \/ FailCall(c) PROVE ServiceEffect
  <2> DEFINE row == [call[c] EXCEPT !.pc = "failed"]
  <2>1. call[c] \in CallsOver(X) /\ call[c].pc # "answered" /\ UNCHANGED <<rowVars, written>>
    BY <1>1, <1>6 DEF RefuseDefinition, SavesInstance, FailCall, Running
  <2>2. call' = [call EXCEPT ![c] = row]
    BY <1>1, <1>6 DEF RefuseDefinition, FailCall
  <2>3. /\ row \in CallsOver(X) /\ row.place = call[c].place
        /\ row.op = call[c].op /\ row.pc # "idle"
    BY <2>1 DEF CallsOver
  <2> HIDE DEF row
  <2>4. QED
    BY <2>1, <2>2, <2>3, CallReads
<1>7. ASSUME NEW c \in Calls, SaveDecision(c) PROVE ServiceEffect
  BY <1>7, CallWrites DEF SaveDecision, ServiceEffect
<1>8. ASSUME NEW c \in Calls, SaveInstance(c) PROVE ServiceEffect
  BY <1>8, CallWrites DEF SaveInstance, SavesInstance, ServiceEffect
<1>9. ASSUME NEW c \in Calls, SavePreference(c) PROVE ServiceEffect
  BY <1>9, CallWrites DEF SavePreference, ServiceEffect
<1>10. QED
  BY <1>2, <1>3, <1>4, <1>5, <1>6, <1>7, <1>8, <1>9 DEF ServiceStep

(* Without a writer for the view, its tables stay as they are.              *)
LEMMA NoWriter ==
  ASSUME ServiceEffect, ~ \E c \in Calls : Writer(c), UNCHANGED changed
  PROVE  SameTables(view, NowTables, NowTables')
<1>1. \A op : /\ op \in Decisions => ViewOf(op) = "governance"
              /\ op \in Changes \cup {"create"} => ViewOf(op) = "instances"
              /\ op = "prefer" => ViewOf(op) = "notifications"
  BY DEF ViewOf, Decisions, Changes
<1>2. view = "governance" => UNCHANGED approval
  BY <1>1 DEF ServiceEffect, Writer
<1>3. view = "instances" => UNCHANGED instance
  BY <1>1 DEF ServiceEffect, Writer
<1>4. view = "notifications" => UNCHANGED preference
  BY <1>1 DEF ServiceEffect, Writer
<1>5. QED
  BY <1>2, <1>3, <1>4 DEF SameTables, NowTables

(* A writer for the view tears the loads in flight; what they have read is  *)
(* out of date, unless a handler awaits the writer.                         *)
LEMMA ServiceSound ==
  ASSUME PageInv, ServiceMoves
  PROVE  PageInv'
<1>1. ServiceEffect
  BY ServiceWrites DEF ServiceMoves, PageInv
<1>2. UNCHANGED <<view, context, filter, handler, changed>>
  BY DEF ServiceMoves, tableVars
<1>3. CallsTyped' /\ HandlersCall'
  BY <1>1, <1>2 DEF ServiceEffect, PageInv, HandlersCall, Calling
<1>4. Moving \subseteq Moving'
  BY <1>1, <1>2, MovingStays DEF ServiceEffect
<1>5. LoadsSound(view, loads, shown, PageKey, Moving, NowTables) /\ PageKey' = PageKey
  BY <1>2 DEF PageInv, PageSound, PageKey, Key, Selected
<1>6. PICK X : loads \in Seq(LoadRows(view, X)) /\ shown \in LoadRows(view, X)
  BY <1>5 DEF LoadsSound, LoadsTyped
<1> DEFINE isWritten == \E c \in Calls : Writer(c)
           isOutdated == \E c \in Calls : Writer(c) /\ ~Awaited(c)
           renewed(x) == [Torn(x) EXCEPT !.outdated = @ \/ (isOutdated /\ Reading(x))]
           r == [shown EXCEPT !.outdated = @ \/ isOutdated]
           ms == [i \in DOMAIN loads |-> IF isWritten THEN renewed(loads[i]) ELSE loads[i]]
<1>7. shown' = r /\ loads' = ms
  BY DEF ServiceMoves
<1>8. isWritten \in BOOLEAN /\ isOutdated \in BOOLEAN /\ (isOutdated => isWritten)
  OBVIOUS
<1>9. isWritten /\ ~isOutdated => Moving' # {}
  <2> SUFFICES ASSUME NEW c \in Calls, Writer(c), Awaited(c) PROVE Moving' # {}
    OBVIOUS
  <2>1. PICK h \in Handlers : Calling(h) /\ handler[h].call = c
    BY DEF Awaited
  <2>2. view \in ReloadsOf(handler[h].button)
    BY <2>1 DEF PageInv, HandlersCall, Writer
  <2>3. h \in Moving'
    BY <1>2, <2>1, <2>2 DEF Moving, Writer, Calling, HasChanged
  <2>4. QED
    BY <2>3
<1>10. ~isWritten => SameTables(view, NowTables, NowTables')
  BY <1>1, <1>2, NoWriter
<1> HIDE DEF isWritten, isOutdated
<1>11. /\ r \in LoadRows(view, X) /\ Renewed(shown, r) /\ r.parts = shown.parts
       /\ isOutdated => r.outdated
  <2> DEFINE b == shown.outdated \/ isOutdated
             y == [shown EXCEPT !.outdated = b]
  <2>1. r = y
    BY <1>6 DEF LoadRows
  <2>2. b \in BOOLEAN /\ (shown.outdated => b) /\ (isOutdated => b)
    BY <1>6, <1>8 DEF LoadRows
  <2> HIDE DEF b, r
  <2>3. /\ y \in LoadRows(view, X) /\ y.key = shown.key /\ y.parts = shown.parts
        /\ y.old = shown.old /\ y.behind = shown.behind /\ y.outdated = b /\ y.torn = shown.torn
    BY <1>6, <2>2 DEF LoadRows
  <2> HIDE DEF y
  <2>4. QED
    BY <2>1, <2>2, <2>3 DEF Renewed
<1>12. ASSUME NEW x \in LoadRows(view, X)
       PROVE  /\ renewed(x) \in LoadRows(view, X) /\ Renewed(x, renewed(x))
              /\ isOutdated /\ Reading(x) => renewed(x).outdated
              /\ Reading(x) /\ ~Complete(x) => renewed(x).torn
  <2> DEFINE b == x.outdated \/ (isOutdated /\ Reading(x))
             t == x.torn \/ (Reading(x) /\ ~Complete(x))
             y == [x EXCEPT !.torn = t, !.outdated = b]
  <2>1. renewed(x) = y
    BY <1>12 DEF LoadRows, Torn
  <2>2. b \in BOOLEAN /\ (x.outdated => b) /\ (isOutdated /\ Reading(x) => b)
    BY <1>8, <1>12 DEF LoadRows
  <2>3. t \in BOOLEAN /\ (x.torn => t) /\ (Reading(x) /\ ~Complete(x) => t)
    BY <1>12 DEF LoadRows
  <2> HIDE DEF b, t, renewed
  <2>4. /\ y \in LoadRows(view, X) /\ y.key = x.key /\ y.parts = x.parts /\ y.old = x.old
        /\ y.behind = x.behind /\ y.outdated = b /\ y.torn = t
    BY <1>12, <2>2, <2>3 DEF LoadRows
  <2> HIDE DEF y
  <2>5. QED
    BY <2>1, <2>2, <2>3, <2>4 DEF Renewed
<1> HIDE DEF r, renewed
<1>13. /\ ms \in Seq(LoadRows(view, X)) /\ DOMAIN ms = DOMAIN loads
       /\ \A i \in DOMAIN loads : /\ loads[i] \in LoadRows(view, X)
                                  /\ ms[i] = IF isWritten THEN renewed(loads[i]) ELSE loads[i]
  BY <1>6, <1>12
<1> HIDE DEF ms
<1>14. LoadsTyped(view, ms, r)
  BY <1>11, <1>13 DEF LoadsTyped
<1>15. \A i \in DOMAIN loads : Renewed(loads[i], ms[i])
  BY <1>12, <1>13 DEF Renewed
<1>16. \A x \in LoadRows(view, X) : \A T : ~Reading(x) => PartsPresent(view, x, T)
  BY DEF LoadRows, LoadAnswers, Reading, Answers, PartsPresent
<1>17. ASSUME NEW x, NEW y, Renewed(x, y),
              isOutdated => y.outdated \/ (x \in LoadRows(view, X) /\ ~Reading(x))
       PROVE  StaysPresent(view, x, y, Moving, NowTables, Moving', NowTables')
  <2>1. CASE isOutdated
    BY <1>16, <1>17, <2>1 DEF StaysPresent
  <2>2. CASE isWritten /\ ~isOutdated
    BY <1>9, <2>2 DEF StaysPresent
  <2>3. CASE ~isWritten
    BY <1>4, <1>10, <2>3, TablesShown DEF StaysPresent, PageInv
  <2>4. QED
    BY <1>8, <2>1, <2>2, <2>3
<1>18. StaysPresent(view, shown, r, Moving, NowTables, Moving', NowTables')
  BY <1>11, <1>17
<1>19. \A i \in DOMAIN loads :
         StaysPresent(view, loads[i], ms[i], Moving, NowTables, Moving', NowTables')
  BY <1>8, <1>12, <1>13, <1>15, <1>17
<1>20. ASSUME NEW x, NEW y, Renewed(x, y), Counted(view, x, NowTables),
              isWritten /\ ~y.torn =>
                (\A p \in Parts(view) : x.parts[p].by # "none") \/ ~(\E p \in Parts(view) : x.parts[p].by # "none")
       PROVE  Counted(view, y, NowTables')
  <2> SUFFICES ASSUME view = "governance", ~y.torn PROVE Counted(view, y, NowTables')
    BY DEF Counted
  <2>1. Parts(view) = {"summary", "approvals"}
    BY DEF Parts
  <2>2. ~x.torn /\ y.parts = x.parts /\ y.key = x.key
    BY <1>20 DEF Renewed
  <2>3. CASE isWritten
    BY <1>20, <2>1, <2>2, <2>3 DEF Counted
  <2>4. CASE ~isWritten
    <3>1. NowTables'[1] = NowTables[1]
      BY <1>10, <2>4 DEF SameTables
    <3>2. QED
      BY <1>20, <2>2, <3>1 DEF Counted, PresentAt, SummaryAt, ListAt
  <2>5. QED
    BY <2>3, <2>4
<1>21. Counted(view, r, NowTables')
  <2>1. \A p \in Parts(view) : shown.parts[p].by # "none"
    BY DEF PageInv, ShownComplete
  <2>2. Counted(view, shown, NowTables)
    BY <1>5 DEF LoadsSound
  <2>3. QED
    BY <1>11, <1>20, <2>1, <2>2
<1>22. \A i \in DOMAIN loads : Counted(view, ms[i], NowTables')
  <2> SUFFICES ASSUME NEW i \in DOMAIN loads PROVE Counted(view, ms[i], NowTables')
    OBVIOUS
  <2>1. Counted(view, loads[i], NowTables) /\ loads[i] \in LoadRows(view, X)
    BY <1>5, <1>13 DEF LoadsSound
  <2>2. isWritten /\ ~ms[i].torn => ~Reading(loads[i]) \/ Complete(loads[i])
    BY <1>12, <1>13
  <2>3. DOMAIN loads[i].parts = Parts(view)
    BY <2>1 DEF LoadRows
  <2>4. isWritten /\ ~ms[i].torn => (\A p \in Parts(view) : loads[i].parts[p].by # "none")
                                    \/ ~(\E p \in Parts(view) : loads[i].parts[p].by # "none")
    BY <2>2, <2>3 DEF Reading, Complete, Answers
  <2>5. QED
    BY <1>15, <1>20, <2>1, <2>4
<1>23. LoadsSound(view, ms, r, PageKey, Moving', NowTables')
  BY <1>5, <1>11, <1>13, <1>14, <1>15, <1>18, <1>19, <1>21, <1>22, LoadsRenewed
<1>24. PageSound'
  BY <1>2, <1>5, <1>7, <1>23 DEF PageSound
<1>25. ShownComplete'
  BY <1>2, <1>7, <1>11 DEF PageInv, ShownComplete
<1>26. QED
  BY <1>2, <1>3, <1>24, <1>25 DEF PageInv

-----------------------------------------------------------------------------
LEMMA PageInductive == ViewsInv /\ PageInv /\ [Next]_vars => PageInv'
<1> SUFFICES ASSUME ViewsInv, PageInv, [Next]_vars PROVE PageInv'
  OBVIOUS
<1>1. CASE LoadStep
  BY <1>1, LoadStepSound
<1>2. ASSUME NEW h \in Handlers, HandlerStep(h) PROVE PageInv'
  <2>1. ASSUME NEW button \in CallButtons, NEW id, NEW c \in Calls \cup {None},
               Press(h, button, id, c)
        PROVE  PageInv'
    BY <2>1, PressSound
  <2>2. QED
    BY <1>2, <2>1, ServeSound, RefuseSound, EndSound DEF HandlerStep
<1>3. ASSUME NEW button \in DemoButtons, PressDemo(button) PROVE PageInv'
  BY <1>3, PressDemoSound
<1>4. CASE EffectStep
  BY <1>4, EffectSound
<1>5. CASE ServiceMoves
  BY <1>5, ServiceSound
<1>6. ASSUME NEW c \in Calls, OtherClients(c) PROVE PageInv'
  BY <1>6, OtherClientsSound
<1>7. ASSUME NEW t \in Tables, ChangeElsewhere(t) PROVE PageInv'
  BY <1>7, ElsewhereSound
<1>8. ASSUME NEW at, Occupy(at) PROVE PageInv'
  BY <1>8, NothingSound DEF Occupy
<1>9. CASE UNCHANGED vars
  BY <1>9, NothingSound DEF vars, tableVars
<1>10. QED
  BY <1>1, <1>2, <1>3, <1>4, <1>5, <1>6, <1>7, <1>8, <1>9 DEF Next

(* An answer that is present is what IsPresent asks of the view.            *)
LEMMA ShownIsPresent ==
  ASSUME view \in AllViews, NEW p \in Parts(view),
         PresentAt(NowTables, shown.key, p, shown.parts[p].data)
  PROVE  IsPresent(p)
<1> DEFINE data == shown.parts[p].data
           key == shown.key
<1> HIDE DEF data, key
<1> USE DEF Fetch, Fetched, PresentAt, NowTables
<1>0. PresentAt(NowTables, key, p, data)
  BY DEF data, key
<1>1. p # "summary" => data = Fetch(p, key.at, key.filter).api
  <2>1. CASE p = "catalog"
    BY <1>0, <2>1 DEF listAssistantCatalog
  <2>2. CASE p = "instances"
    BY <1>0, <2>2 DEF listInstances, listAssistantInstances
  <2>3. CASE p = "preferences"
    BY <1>0, <2>3 DEF listPreferences, listNotificationPreferences
  <2>4. CASE p = "messages"
    BY <1>0, <2>4 DEF listMessages
  <2>5. CASE p = "jobs"
    BY <1>0, <2>5 DEF listJobsAndQueue
  <2>6. CASE p = "snapshots"
    BY <1>0, <2>6 DEF getTodaySnapshots
  <2>7. CASE p = "connectors"
    BY <1>0, <2>7 DEF listConnectorAccounts
  <2>8. CASE p = "conversations"
    BY <1>0, <2>8 DEF listConversations
  <2>9. CASE p = "detail"
    BY <1>0, <2>9 DEF getConversationDetail
  <2>10. CASE p = "approvals"
    BY <1>0, <2>10 DEF listApprovalRecords, listApprovals, ListAt
  <2>11. CASE p = "summary"
    BY <2>11
  <2>12. QED
    BY <2>1, <2>2, <2>3, <2>4, <2>5, <2>6, <2>7, <2>8, <2>9, <2>10, <2>11 DEF Parts, AllViews
<1>2. p = "summary" => data.pending = getSummary(key.at.org, data.occupied)
  <2> SUFFICES ASSUME p = "summary" PROVE data.pending = getSummary(key.at.org, data.occupied)
    OBVIOUS
  <2>1. data.pending = SummaryAt(NowTables, key.at.org, data.occupied)
    BY <1>0 DEF PresentAt
  <2>2. QED
    BY <2>1 DEF SummaryAt, getSummary
<1>3. QED
  BY <1>1, <1>2 DEF IsPresent, data, key

(* At rest nothing is owed: a view shows what the API holds for the page,   *)
(* except after one of the four things ViewAgrees names.                    *)
THEOREM ViewsAgreeAtRest == Spec => []ViewAgrees
<1>1. PageInv => ViewAgrees
  <2> SUFFICES ASSUME PageInv, AtRest,
                      ~(shown.behind \/ shown.old \/ shown.outdated \/ ~FromAPI)
               PROVE  /\ shown.key = Key(view, context, filter)
                      /\ \A p \in Parts(view) : IsPresent(p)
    BY DEF ViewAgrees
  <2>1. LoadsSound(view, <<>>, shown, PageKey, Moving, NowTables)
    BY DEF PageInv, PageSound, AtRest
  <2>2. Moving = {} /\ ~Later(<<>>, 0)
    BY DEF Moving, AtRest, Later
  <2>3. shown.key = PageKey /\ PartsPresent(view, shown, NowTables)
    BY <2>1, <2>2 DEF LoadsSound, Owed
  <2>4. ASSUME NEW p \in Parts(view) PROVE IsPresent(p)
    BY <2>3, <2>4, ShownIsPresent DEF PageInv, FromAPI, PartsPresent
  <2>5. QED
    BY <2>3, <2>4 DEF PageKey
<1>2. QED
  BY <1>1, ViewsInit, ViewsInductive, PageInit, PageInductive, PTL DEF Spec

(* The summary counts the list beside it, at rest or not, unless the load   *)
(* was torn.                                                                *)
THEOREM SummariesAgree == Spec => []SummaryAgrees
<1>1. PageInv => SummaryAgrees
  <2> SUFFICES ASSUME PageInv, view = "governance", FromAPI, ~shown.torn
               PROVE  SameCount(shown.parts["summary"].data, shown.parts["approvals"].data)
    BY DEF SummaryAgrees, SameCount
  <2>1. Parts(view) = {"summary", "approvals"}
    BY DEF Parts
  <2>2. Counted(view, shown, NowTables)
    BY DEF PageInv, PageSound, LoadsSound
  <2>3. QED
    BY <2>1, <2>2 DEF Counted, FromAPI
<1>2. QED
  BY <1>1, ViewsInit, ViewsInductive, PageInit, PageInductive, PTL DEF Spec
=============================================================================
