----------------------------- MODULE PermitPool -----------------------------
(***************************************************************************)
(* What the processing gate of the job queue promises to its users: a pool *)
(* of permits, one per job identifier, of which at most Capacity are out   *)
(* at a time and at most RateCapacity are handed out in one minute.  The   *)
(* module ProcessingPermits, the detailed model of the Redis protocol in   *)
(* job-queue.service.ts, implements it.                                    *)
(***************************************************************************)
EXTENDS Integers, FiniteSets

CONSTANTS
  Jobs,          (* identifiers a permit can be issued for              *)
  Capacity,      (* permits that may be out together                    *)
  RateCapacity   (* permits that may be handed out in one minute        *)

VARIABLES
  held,          (* the jobs whose permit is out                        *)
  used           (* permits handed out in the current minute            *)

poolVars == <<held, used>>

Init == held = {} /\ used = 0

Acquire(j) ==
  /\ Cardinality(held \cup {j}) <= Capacity
  /\ used < RateCapacity
  /\ held' = held \cup {j}
  /\ used' = used + 1

Return(j) ==
  /\ held' = held \ {j}
  /\ UNCHANGED used

NewMinute == used' = 0 /\ UNCHANGED held

Next ==
  \/ \E j \in Jobs : Acquire(j) \/ Return(j)
  \/ NewMinute

Spec == Init /\ [][Next]_poolVars
=============================================================================
