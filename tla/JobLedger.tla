------------------------------ MODULE JobLedger ------------------------------
(***************************************************************************)
(* What the table of jobs promises to who reads it, in terms of the table  *)
(* alone, whatever API requests, scheduler, queue, workers and faults are  *)
(* behind it: a row is written once and then only its status changes, a    *)
(* job without a connector stays queued, and a retried or requeued job is  *)
(* a copy of a saved one with one more retry.  Of a job asked for as new   *)
(* the table promises nothing but that it has no retries yet: trigger,     *)
(* schedule and connector are the asker's words.                           *)
(* JobPipeline, the protocol of the API, BullMQ and the workers, implements *)
(* it.                                                                     *)
(***************************************************************************)
EXTENDS Naturals

CONSTANTS
  Jobs, NoJob,             (* identifiers of rows                           *)
  Schedules, NoSchedule    (* schedules a row can name                      *)

VARIABLES
  status,          (* "none" before the row exists                          *)
  row,             (* the other columns, of a row that exists               *)
  source,          (* the row each row was cloned from                      *)
  everFailed       (* rows that were failed at some time                    *)

ledgerVars == <<status, row, source, everFailed>>

Requeues == {"manual_requeue", "bulk_requeue"}
CloneTriggers == {"manual_retry"} \cup Requeues

Init == status = [j \in Jobs |-> "none"] /\ everFailed = {}

Save(j, columns, from) ==
  /\ status[j] = "none"
  /\ status' = [status EXCEPT ![j] = "queued"]
  /\ row' = [row EXCEPT ![j] = columns]
  /\ source' = [source EXCEPT ![j] = from]
  /\ UNCHANGED everFailed

(* A job that a due schedule or somebody asked for.                         *)
New(j, trigger, s, connector) ==
  Save(j, [trigger |-> trigger, schedule |-> s, connector |-> connector,
           retries |-> 0], NoJob)

(* A copy of a saved job with a connector; a requeue is of a job that had   *)
(* failed.                                                                  *)
Copy(j, trigger, from) ==
  /\ status[from] # "none" /\ row[from].connector
  /\ trigger \in Requeues => from \in everFailed
  /\ Save(j, [row[from] EXCEPT !.trigger = trigger, !.retries = @ + 1], from)

(* A saved job with a connector starts, restarts or ends.                   *)
Record(j, outcome) ==
  /\ status[j] # "none" /\ row[j].connector
  /\ status' = [status EXCEPT ![j] = outcome]
  /\ everFailed' = IF outcome = "failed" THEN everFailed \cup {j} ELSE everFailed
  /\ UNCHANGED <<row, source>>

Next ==
  \E j \in Jobs :
    \/ \E trigger \in {"manual", "scheduled"} \cup CloneTriggers,
          s \in Schedules \cup {NoSchedule}, connector \in BOOLEAN :
         New(j, trigger, s, connector)
    \/ \E trigger \in CloneTriggers, from \in Jobs : Copy(j, trigger, from)
    \/ \E outcome \in {"running", "completed", "failed"} : Record(j, outcome)

Spec == Init /\ [][Next]_ledgerVars
=============================================================================
