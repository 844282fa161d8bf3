----------------------- MODULE ProcessingPermitsProofs -----------------------
(***************************************************************************)
(* Proofs about ProcessingPermits for every set of workers and jobs, every *)
(* limit and every number of crashes and lost locks.                       *)
(***************************************************************************)
EXTENDS ProcessingPermits, FiniteSetTheorems, TLAPS

-----------------------------------------------------------------------------
(* The inductive invariant behind type correctness and the ownership of     *)
(* permits: a worker that is not idle has a job; a job that can still be    *)
(* delivered is below its redelivery and attempt limits; a locked job is    *)
(* active; and a busy worker whose job was never lost has its lock.         *)
JobInHand ==
  \A w \in Workers : IF pc[w] = "idle" THEN jobOf[w] = NoJob ELSE jobOf[w] \in Jobs

QueueSound ==
  \A j \in Jobs :
    /\ delivery[j] \in {"waiting", "active"} =>
         stalledCount[j] <= MaxStalledCount /\ attemptsMade[j] < MaxAttempts
    /\ owner[j] # NoWorker => delivery[j] = "active"

LockHeld ==
  \A w \in Workers :
    pc[w] # "idle" /\ stalledCount[jobOf[w]] = 0 =>
      /\ owner[jobOf[w]] = w
      /\ pc[w] = "process" => jobOf[w] \in activeJobs

IInv == TypeOK /\ JobInHand /\ QueueSound /\ LockHeld

-----------------------------------------------------------------------------
LEMMA InitIInv == Init => IInv
  BY PermitsAssumption
  DEF Init, IInv, TypeOK, JobInHand, QueueSound, LockHeld, Settings, NothingSeen

(* The worker steps that only read Redis. *)
LEMMA ReadKeepsIInv ==
  ASSUME IInv, NEW w \in Workers,
         ReadSettings(w) \/ ReadActiveCount(w) \/ ReadRateCount(w)
           \/ AlreadyActive(w) \/ Refused(w) \/ Admitted(w)
  PROVE  IInv'
  <1> USE PermitsAssumption
      DEF IInv, GoTo, gateVars, queueVars, faultVars
  <1>1. TypeOK'
    <2> USE DEF TypeOK, Settings
    <2>1. CASE ReadSettings(w)
      BY <2>1 DEF ReadSettings
    <2>2. CASE ReadActiveCount(w)
      <3> DEFINE r == HasRoom(seen[w].limits)
      <3>1. r \in BOOLEAN
        BY DEF HasRoom
      <3>2. seen' = [seen EXCEPT ![w].room = r]
        BY <2>2 DEF ReadActiveCount
      <3> HIDE DEF r
      <3>3. seen' \in [Workers -> [limits : Settings, room : BOOLEAN, quota : BOOLEAN]]
        BY <3>1, <3>2
      <3>4. QED BY <2>2, <3>3 DEF ReadActiveCount
    <2>3. CASE ReadRateCount(w)
      <3> DEFINE q == HasQuota(seen[w].limits)
      <3>1. q \in BOOLEAN
        BY DEF HasQuota
      <3>2. seen' = [seen EXCEPT ![w].quota = q]
        BY <2>3 DEF ReadRateCount
      <3> HIDE DEF q
      <3>3. seen' \in [Workers -> [limits : Settings, room : BOOLEAN, quota : BOOLEAN]]
        BY <3>1, <3>2
      <3>4. QED BY <2>3, <3>3 DEF ReadRateCount
    <2>4. CASE AlreadyActive(w) \/ Refused(w) \/ Admitted(w)
      <3>1. NothingSeen \in [limits : Settings, room : BOOLEAN, quota : BOOLEAN]
        BY DEF NothingSeen
      <3>2. seen' \in [Workers -> [limits : Settings, room : BOOLEAN, quota : BOOLEAN]]
        BY <2>4, <3>1 DEF AlreadyActive, Refused, Admitted
      <3>3. pc' \in [Workers -> {"idle", "settings", "scard", "rate", "member",
                                 "grant", "process", "ack"}]
        BY <2>4 DEF AlreadyActive, Refused, Admitted
      <3>4. UNCHANGED <<gateVars, queueVars, jobOf, draft, faultVars>>
        BY <2>4 DEF AlreadyActive, Refused, Admitted
      <3>5. QED BY <3>2, <3>3, <3>4
    <2>5. QED BY <2>1, <2>2, <2>3, <2>4
  <1>2. JobInHand'
    BY DEF TypeOK, JobInHand, ReadSettings, ReadActiveCount, ReadRateCount,
           AlreadyActive, Refused, Admitted
  <1>3. QueueSound'
    BY DEF QueueSound, ReadSettings, ReadActiveCount, ReadRateCount,
           AlreadyActive, Refused, Admitted
  <1>4. LockHeld'
    BY DEF TypeOK, LockHeld, ReadSettings, ReadActiveCount, ReadRateCount,
           AlreadyActive, Refused, Admitted
  <1>5. QED BY <1>1, <1>2, <1>3, <1>4

LEMMA TakeKeepsIInv ==
  ASSUME IInv, NEW w \in Workers, NEW j \in Jobs, Take(w, j)
  PROVE  IInv'
  <1> USE PermitsAssumption DEF IInv, Take, GoTo, gateVars, queueVars, faultVars
  <1>1. TypeOK'
    BY DEF TypeOK
  <1>2. JobInHand'
    BY DEF TypeOK, JobInHand
  <1>3. QueueSound'
    BY DEF TypeOK, QueueSound
  <1>4. LockHeld'
    BY DEF TypeOK, LockHeld, QueueSound, JobInHand
  <1>5. QED BY <1>1, <1>2, <1>3, <1>4

LEMMA GrantKeepsIInv ==
  ASSUME IInv, NEW w \in Workers, Grant(w)
  PROVE  IInv'
  <1> USE PermitsAssumption DEF IInv, Grant, GoTo, gateVars, queueVars, faultVars
  <1>1. TypeOK'
    BY DEF TypeOK, JobInHand, Settings, NothingSeen
  <1>2. JobInHand' /\ QueueSound'
    BY DEF TypeOK, JobInHand, QueueSound
  <1>3. LockHeld'
    BY DEF TypeOK, LockHeld
  <1>4. QED BY <1>1, <1>2, <1>3

LEMMA ReleaseKeepsIInv ==
  ASSUME IInv, NEW w \in Workers, Release(w)
  PROVE  IInv'
  <1> USE PermitsAssumption
      DEF IInv, Release, ReleasedSet, GoTo, gateVars, queueVars, faultVars
  <1>1. TypeOK'
    BY DEF TypeOK
  <1>2. JobInHand' /\ QueueSound'
    BY DEF TypeOK, JobInHand, QueueSound
  <1>3. LockHeld'
    BY DEF TypeOK, LockHeld, JobInHand
  <1>4. QED BY <1>1, <1>2, <1>3

LEMMA AckKeepsIInv ==
  ASSUME IInv, NEW w \in Workers, NEW ok \in BOOLEAN, Ack(w, ok)
  PROVE  IInv'
  <1> USE PermitsAssumption DEF IInv, Ack, GoTo, gateVars, queueVars, faultVars
  <1>0. jobOf[w] \in Jobs
    BY DEF JobInHand
  <1>1. TypeOK'
    BY <1>0 DEF TypeOK, QueueSound
  <1>2. JobInHand'
    BY DEF TypeOK, JobInHand
  <1>3. QueueSound'
    BY <1>0 DEF TypeOK, QueueSound
  <1>4. LockHeld'
    BY <1>0 DEF TypeOK, LockHeld, JobInHand
  <1>5. QED BY <1>1, <1>2, <1>3, <1>4

LEMMA CrashKeepsIInv ==
  ASSUME IInv, NEW w \in Workers, Crash(w)
  PROVE  IInv'
  <1> USE PermitsAssumption DEF IInv, Crash, gateVars, queueVars, faultVars
  <1>0. jobOf[w] \in Jobs
    BY DEF JobInHand
  <1>1. TypeOK'
    BY <1>0 DEF TypeOK, Settings, NothingSeen
  <1>2. JobInHand'
    BY DEF TypeOK, JobInHand
  <1>3. QueueSound'
    BY <1>0 DEF TypeOK, QueueSound
  <1>4. LockHeld'
    BY <1>0 DEF TypeOK, LockHeld, JobInHand
  <1>5. QED BY <1>1, <1>2, <1>3, <1>4

LEMMA RedeliverKeepsIInv ==
  ASSUME IInv, NEW j \in Jobs, StalledByCrash(j) \/ LoseLock(j)
  PROVE  IInv'
  <1> USE PermitsAssumption
      DEF IInv, StalledByCrash, LoseLock, Redeliver, gateVars, queueVars
  <1>1. TypeOK'
    BY DEF TypeOK, QueueSound
  <1>2. JobInHand'
    BY DEF JobInHand
  <1>3. QueueSound'
    BY DEF TypeOK, QueueSound
  <1>4. LockHeld'
    BY DEF TypeOK, LockHeld, JobInHand
  <1>5. QED BY <1>1, <1>2, <1>3, <1>4

LEMMA SettingsKeepIInv ==
  ASSUME IInv, NEW a \in Admins,
         StoreUpdate(a) \/ \E input \in UpdateInputs : BeginUpdate(a, input)
  PROVE  IInv'
  <1> USE PermitsAssumption DEF IInv, gateVars, queueVars, faultVars
  <1>1. TypeOK'
    BY DEF TypeOK, StoreUpdate, BeginUpdate, UpdateInputs, Merge, Settings
  <1>2. JobInHand' /\ QueueSound' /\ LockHeld'
    BY DEF JobInHand, QueueSound, LockHeld, StoreUpdate, BeginUpdate
  <1>3. QED BY <1>1, <1>2

LEMMA TickKeepsIInv ==
  ASSUME IInv, MinuteTick \/ UNCHANGED vars
  PROVE  IInv'
  BY DEF IInv, TypeOK, JobInHand, QueueSound, LockHeld, MinuteTick, vars,
         gateVars, queueVars, faultVars

LEMMA IInvInductive == IInv /\ [Next]_vars => IInv'
  <1> SUFFICES ASSUME IInv, [Next]_vars PROVE IInv'
    OBVIOUS
  <1>1. ASSUME NEW w \in Workers, WorkerStep(w) PROVE IInv'
    <2>1. CASE \E j \in Jobs : Take(w, j)
      BY <2>1, TakeKeepsIInv
    <2>2. CASE ReadSettings(w) \/ ReadActiveCount(w) \/ ReadRateCount(w)
                 \/ AlreadyActive(w) \/ Refused(w) \/ Admitted(w)
      BY <2>2, ReadKeepsIInv
    <2>3. CASE Grant(w) \/ Release(w)
      BY <2>3, GrantKeepsIInv, ReleaseKeepsIInv
    <2>4. CASE \E ok \in BOOLEAN : Ack(w, ok)
      BY <2>4, AckKeepsIInv
    <2>5. QED BY <1>1, <2>1, <2>2, <2>3, <2>4 DEF WorkerStep
  <1>2. ASSUME NEW w \in Workers, Crash(w) PROVE IInv'
    BY <1>2, CrashKeepsIInv
  <1>3. ASSUME NEW j \in Jobs, StalledByCrash(j) \/ LoseLock(j) PROVE IInv'
    BY <1>3, RedeliverKeepsIInv
  <1>4. ASSUME NEW a \in Admins,
               StoreUpdate(a) \/ \E input \in UpdateInputs : BeginUpdate(a, input)
        PROVE IInv'
    BY <1>4, SettingsKeepIInv
  <1>5. CASE MinuteTick \/ UNCHANGED vars
    BY <1>5, TickKeepsIInv
  <1>6. QED BY <1>1, <1>2, <1>3, <1>4, <1>5 DEF Next

LEMMA IInvAlways == Spec => []IInv
  BY InitIInv, IInvInductive, PTL DEF Spec

(* Every variable of the gate always has its type: in particular the stored *)
(* settings stay positive under concurrent updates, and BullMQ's counters   *)
(* stay within their limits.                                                *)
THEOREM TypeCorrect == Spec => []TypeOK
  BY IInvAlways, PTL DEF IInv

(* A run whose lock was never lost keeps its permit until it releases it,   *)
(* and no other worker runs the same job.                                   *)
THEOREM PermitsAreBacked == Spec => []PermitBacked
  <1>1. IInv => PermitBacked
    BY PermitsAssumption
    DEF IInv, TypeOK, JobInHand, QueueSound, LockHeld, PermitBacked
  <1>2. QED BY <1>1, IInvAlways, PTL

-----------------------------------------------------------------------------
(* The overshoot of the gate.  A worker about to run its MULTI still holds  *)
(* a passing reading; the readings that are out are counted with the        *)
(* permits that are out.                                                    *)
GrantSeen ==
  \A w \in Workers : pc[w] = "grant" => seen[w].room /\ seen[w].quota

BoundInv == IsFiniteSet(activeJobs) /\ GrantSeen /\ ActiveBound /\ RateBound

LEMMA WorkerSubsets ==
  ASSUME NEW S \in SUBSET Workers
  PROVE  /\ IsFiniteSet(S) /\ Cardinality(S) \in Nat
         /\ Cardinality(S) <= Cardinality(Workers)
         /\ Cardinality(Workers) \in Nat
  BY FS_Subset, FS_CardinalityType, PermitsAssumption

LEMMA InitBoundInv == Init => BoundInv
  <1> SUFFICES ASSUME Init PROVE BoundInv
    OBVIOUS
  <1>1. Undecided = {} /\ Unpaid = {}
    BY DEF Init, Undecided, Unpaid
  <1>2. Cardinality(Workers) \in Nat /\ Cardinality(Workers) # 0
    BY FS_CardinalityType, FS_EmptySet, PermitsAssumption
  <1>3. QED
    BY <1>1, <1>2, FS_EmptySet, PermitsAssumption
    DEF Init, BoundInv, GrantSeen, ActiveBound, RateBound, Capacity, RateCapacity

(* A step that grants nothing and reads nothing favourable keeps the bounds. *)
LEMMA ActiveShrinks ==
  ASSUME BoundInv, activeJobs' \subseteq activeJobs, Undecided' \subseteq Undecided
  PROVE  IsFiniteSet(activeJobs)' /\ ActiveBound'
  <1>1. /\ IsFiniteSet(activeJobs') /\ Cardinality(activeJobs') \in Nat
        /\ Cardinality(activeJobs') <= Cardinality(activeJobs)
        /\ Cardinality(activeJobs) \in Nat
    BY FS_Subset, FS_CardinalityType DEF BoundInv
  <1>2. /\ IsFiniteSet(Undecided) /\ Cardinality(Undecided) \in Nat
    BY WorkerSubsets DEF Undecided
  <1>3. Cardinality(Undecided') \in Nat /\ Cardinality(Undecided') <= Cardinality(Undecided)
    BY <1>2, FS_Subset, FS_CardinalityType
  <1>4. Cardinality(Workers) \in Nat
    BY WorkerSubsets
  <1>5. QED
    BY <1>1, <1>2, <1>3, <1>4, PermitsAssumption DEF BoundInv, ActiveBound, Capacity

LEMMA RateShrinks ==
  ASSUME BoundInv, TypeOK, TypeOK', rateCount' <= rateCount, Unpaid' \subseteq Unpaid
  PROVE  RateBound'
  <1>1. IsFiniteSet(Unpaid) /\ Cardinality(Unpaid) \in Nat
    BY WorkerSubsets DEF Unpaid
  <1>2. Cardinality(Unpaid') \in Nat /\ Cardinality(Unpaid') <= Cardinality(Unpaid)
    BY <1>1, FS_Subset, FS_CardinalityType
  <1>3. Cardinality(Workers) \in Nat
    BY WorkerSubsets
  <1>4. QED
    BY <1>1, <1>2, <1>3, PermitsAssumption
    DEF BoundInv, RateBound, RateCapacity, TypeOK

LEMMA ReadActiveKeepsBounds ==
  ASSUME IInv, TypeOK', BoundInv, NEW w \in Workers, ReadActiveCount(w)
  PROVE  BoundInv'
  <1> USE DEF ReadActiveCount, GoTo, gateVars, queueVars, faultVars, IInv
  <1>1. GrantSeen' /\ Unpaid' \subseteq Unpaid
    BY DEF BoundInv, GrantSeen, Unpaid, TypeOK
  <1>2. RateBound'
    BY <1>1, RateShrinks DEF TypeOK
  <1>3. CASE HasRoom(seen[w].limits)
    <2>1. seen[w].limits.concurrency <= MaxConcurrency /\ seen[w].limits.concurrency \in Nat
      BY DEF TypeOK, Settings
    <2>2. Cardinality(activeJobs) < MaxConcurrency /\ Cardinality(activeJobs) \in Nat
      BY <1>3, <2>1, FS_CardinalityType, PermitsAssumption DEF HasRoom, BoundInv
    <2>3. /\ Cardinality(Undecided') \in Nat
          /\ Cardinality(Undecided') <= Cardinality(Workers)
          /\ Cardinality(Workers) \in Nat
      <3>1. Undecided' \in SUBSET Workers
        BY DEF Undecided
      <3>2. QED BY <3>1, WorkerSubsets
    <2>4. activeJobs' = activeJobs
      OBVIOUS
    <2>5. ActiveBound'
      BY <2>2, <2>3, <2>4, PermitsAssumption DEF ActiveBound, Capacity
    <2>6. QED BY <1>1, <1>2, <2>4, <2>5 DEF BoundInv
  <1>4. CASE ~HasRoom(seen[w].limits)
    <2>1. seen'[w].room = FALSE
      BY <1>4 DEF TypeOK
    <2>2. Undecided' \subseteq Undecided
      BY <2>1 DEF Undecided, TypeOK
    <2>3. QED BY <1>1, <1>2, <2>2, ActiveShrinks DEF BoundInv
  <1>5. QED BY <1>3, <1>4

LEMMA ReadRateKeepsBounds ==
  ASSUME IInv, TypeOK', BoundInv, NEW w \in Workers, ReadRateCount(w)
  PROVE  BoundInv'
  <1> USE DEF ReadRateCount, GoTo, gateVars, queueVars, faultVars, IInv
  <1>1. GrantSeen' /\ Undecided' \subseteq Undecided
    BY DEF BoundInv, GrantSeen, Undecided, TypeOK
  <1>2. IsFiniteSet(activeJobs)' /\ ActiveBound'
    BY <1>1, ActiveShrinks
  <1>3. CASE HasQuota(seen[w].limits)
    <2>1. seen[w].limits.rate <= MaxRate /\ seen[w].limits.rate \in Nat
      BY DEF TypeOK, Settings
    <2>2. rateCount' < MaxRate /\ rateCount' \in Nat
      BY <1>3, <2>1, PermitsAssumption DEF HasQuota, TypeOK
    <2>3. /\ Cardinality(Unpaid') \in Nat
          /\ Cardinality(Unpaid') <= Cardinality(Workers)
          /\ Cardinality(Workers) \in Nat
      <3>1. Unpaid' \in SUBSET Workers
        BY DEF Unpaid
      <3>2. QED BY <3>1, WorkerSubsets
    <2>4. RateBound'
      BY <2>2, <2>3, PermitsAssumption DEF RateBound, RateCapacity
    <2>5. QED BY <1>1, <1>2, <2>4 DEF BoundInv
  <1>4. CASE ~HasQuota(seen[w].limits)
    <2>1. seen'[w].quota = FALSE
      BY <1>4 DEF TypeOK
    <2>2. Unpaid' \subseteq Unpaid
      BY <2>1 DEF Unpaid, TypeOK
    <2>3. RateBound'
      BY <2>2, RateShrinks DEF TypeOK
    <2>4. QED BY <1>1, <1>2, <2>3 DEF BoundInv
  <1>5. QED BY <1>3, <1>4

(* A MULTI turns one reading of each kind into one permit at most.          *)
LEMMA GrantCounts ==
  ASSUME IInv, BoundInv, NEW w \in Workers, Grant(w)
  PROVE  /\ GrantSeen' /\ IsFiniteSet(activeJobs')
         /\ Cardinality(activeJobs') <= Cardinality(activeJobs) + 1
         /\ Cardinality(activeJobs') \in Nat /\ Cardinality(activeJobs) \in Nat
         /\ Cardinality(Undecided') = Cardinality(Undecided) - 1
         /\ Cardinality(Unpaid') = Cardinality(Unpaid) - 1
         /\ Cardinality(Undecided) \in Nat /\ Cardinality(Unpaid) \in Nat
  <1> USE DEF Grant, GoTo, gateVars, queueVars, faultVars, IInv
  <1>1. w \in Undecided /\ w \in Unpaid
    BY DEF BoundInv, GrantSeen, Undecided, Unpaid
  <1>2. Undecided' = Undecided \ {w} /\ Unpaid' = Unpaid \ {w} /\ GrantSeen'
    BY DEF Undecided, Unpaid, TypeOK, NothingSeen, BoundInv, GrantSeen
  <1>3. /\ IsFiniteSet(Undecided) /\ Cardinality(Undecided) \in Nat
        /\ IsFiniteSet(Unpaid) /\ Cardinality(Unpaid) \in Nat
    BY WorkerSubsets DEF Undecided, Unpaid
  <1>4. /\ Cardinality(Undecided') = Cardinality(Undecided) - 1
        /\ Cardinality(Unpaid') = Cardinality(Unpaid) - 1
    BY <1>1, <1>2, <1>3, FS_RemoveElement
  <1>5. IsFiniteSet(activeJobs) /\ Cardinality(activeJobs) \in Nat
    BY FS_CardinalityType DEF BoundInv
  <1>6. activeJobs' = activeJobs \cup {jobOf[w]}
    OBVIOUS
  <1> HIDE DEF Grant
  <1>7. /\ IsFiniteSet(activeJobs')
        /\ Cardinality(activeJobs') = IF jobOf[w] \in activeJobs
                                      THEN Cardinality(activeJobs)
                                      ELSE Cardinality(activeJobs) + 1
    BY <1>5, <1>6, FS_AddElement
  <1>8. QED BY <1>2, <1>3, <1>4, <1>5, <1>7

LEMMA GrantKeepsBounds ==
  ASSUME IInv, TypeOK', BoundInv, NEW w \in Workers, Grant(w)
  PROVE  BoundInv'
  <1>1. Cardinality(Workers) \in Nat
    BY WorkerSubsets
  <1>2. ActiveBound'
    BY <1>1, GrantCounts, PermitsAssumption DEF BoundInv, ActiveBound, Capacity
  <1>3. RateBound'
    <2>1. rateCount' = rateCount + 1 /\ rateCount \in Nat
      BY DEF Grant, IInv, TypeOK
    <2>2. QED
      BY <1>1, <2>1, GrantCounts, PermitsAssumption DEF BoundInv, RateBound, RateCapacity
  <1>4. QED BY <1>2, <1>3, GrantCounts DEF BoundInv

(* Every other step neither adds a permit nor passes a check, except that a *)
(* new minute forgets the permits of the old one.                           *)
Quiet ==
  /\ GrantSeen'
  /\ activeJobs' \subseteq activeJobs /\ rateCount' <= rateCount
  /\ Undecided' \subseteq Undecided /\ Unpaid' \subseteq Unpaid

LEMMA QuietKeepsBounds ==
  ASSUME TypeOK, TypeOK', BoundInv, Quiet
  PROVE  BoundInv'
  BY ActiveShrinks, RateShrinks DEF BoundInv, Quiet

Reading(w) == ReadActiveCount(w) \/ ReadRateCount(w)

LEMMA WorkerIsQuiet ==
  ASSUME IInv, BoundInv, NEW w \in Workers, WorkerStep(w), ~Reading(w), ~Grant(w)
  PROVE  Quiet
  <1> USE DEF IInv, GoTo, gateVars, queueVars, faultVars, Quiet
  <1>2. CASE \E j \in Jobs : Take(w, j)
    BY <1>2 DEF Take, TypeOK, BoundInv, GrantSeen, Undecided, Unpaid
  <1>3. CASE ReadSettings(w)
    BY <1>3 DEF ReadSettings, TypeOK, BoundInv, GrantSeen, Undecided, Unpaid
  <1>4. CASE AlreadyActive(w) \/ Refused(w)
    <2>0. /\ pc' \in [Workers -> {"idle", "settings", "scard", "rate", "member",
                                  "grant", "process", "ack"}]
          /\ pc'[w] \notin {"rate", "member", "grant"}
          /\ \A v \in Workers \ {w} : pc'[v] = pc[v] /\ seen'[v] = seen[v]
      BY <1>4 DEF AlreadyActive, Refused, TypeOK
    <2>1. GrantSeen' /\ Undecided' \subseteq Undecided /\ Unpaid' \subseteq Unpaid
      BY <2>0 DEF BoundInv, GrantSeen, Undecided, Unpaid
    <2>2. activeJobs' \subseteq activeJobs /\ rateCount' <= rateCount
      BY <1>4 DEF AlreadyActive, Refused, TypeOK
    <2>3. QED BY <2>1, <2>2
  <1>5. CASE Admitted(w)
    BY <1>5 DEF Admitted, TypeOK, BoundInv, GrantSeen, Undecided, Unpaid
  <1>6. CASE Release(w)
    BY <1>6 DEF Release, ReleasedSet, TypeOK, BoundInv, GrantSeen, Undecided, Unpaid
  <1>7. CASE \E ok \in BOOLEAN : Ack(w, ok)
    BY <1>7 DEF Ack, TypeOK, BoundInv, GrantSeen, Undecided, Unpaid
  <1>8. QED
    BY <1>2, <1>3, <1>4, <1>5, <1>6, <1>7 DEF WorkerStep, Reading

LEMMA FaultsAreQuiet ==
  ASSUME IInv, BoundInv,
         \/ \E w \in Workers : Crash(w)
         \/ \E j \in Jobs : StalledByCrash(j) \/ LoseLock(j)
  PROVE  Quiet
  <1> USE DEF IInv, gateVars, queueVars, faultVars, Crash, StalledByCrash, LoseLock,
              Redeliver
  <1>1. GrantSeen' /\ Undecided' \subseteq Undecided /\ Unpaid' \subseteq Unpaid
    <2>1. ASSUME NEW w \in Workers, Crash(w)
          PROVE  /\ pc'[w] = "idle"
                 /\ \A v \in Workers \ {w} : pc'[v] = pc[v] /\ seen'[v] = seen[v]
      BY <2>1 DEF TypeOK
    <2>2. CASE \E w \in Workers : Crash(w)
      <3> HIDE DEF Crash
      <3>1. QED BY <2>1, <2>2 DEF BoundInv, GrantSeen, Undecided, Unpaid
    <2>3. CASE UNCHANGED <<pc, seen>>
      BY <2>3 DEF BoundInv, GrantSeen, Undecided, Unpaid
    <2>4. QED BY <2>2, <2>3
  <1>2. activeJobs' \subseteq activeJobs /\ rateCount' <= rateCount
    BY DEF TypeOK
  <1>3. QED BY <1>1, <1>2 DEF Quiet

LEMMA OthersAreQuiet ==
  ASSUME IInv, BoundInv,
         \/ MinuteTick
         \/ \E a \in Admins : \/ StoreUpdate(a)
                              \/ \E input \in UpdateInputs : BeginUpdate(a, input)
         \/ UNCHANGED vars
  PROVE  Quiet
  <1>1. UNCHANGED <<activeJobs, pc, seen>> /\ rateCount' \in {0, rateCount}
    BY DEF MinuteTick, StoreUpdate, BeginUpdate, vars, gateVars
  <1>2. GrantSeen' /\ Undecided' = Undecided /\ Unpaid' = Unpaid
    BY <1>1 DEF BoundInv, GrantSeen, Undecided, Unpaid
  <1>3. QED BY <1>1, <1>2 DEF IInv, TypeOK, Quiet

LEMMA QuietSteps ==
  ASSUME IInv, BoundInv, [Next]_vars
  PROVE  Quiet \/ \E w \in Workers : Reading(w) \/ Grant(w)
  <1>1. CASE \E w \in Workers : WorkerStep(w)
    BY <1>1, WorkerIsQuiet
  <1>2. CASE \/ \E w \in Workers : Crash(w)
             \/ \E j \in Jobs : StalledByCrash(j) \/ LoseLock(j)
    BY <1>2, FaultsAreQuiet
  <1>3. CASE \/ MinuteTick
             \/ \E a \in Admins : \/ StoreUpdate(a)
                                  \/ \E input \in UpdateInputs : BeginUpdate(a, input)
             \/ UNCHANGED vars
    BY <1>3, OthersAreQuiet
  <1>4. QED BY <1>1, <1>2, <1>3 DEF Next

LEMMA BoundInductive == IInv /\ BoundInv /\ [Next]_vars => BoundInv'
  <1> SUFFICES ASSUME IInv, BoundInv, [Next]_vars PROVE BoundInv'
    OBVIOUS
  <1>1. TypeOK' /\ TypeOK
    BY IInvInductive DEF IInv
  <1>2. ASSUME NEW w \in Workers, Reading(w) \/ Grant(w) PROVE BoundInv'
    BY <1>1, <1>2, ReadActiveKeepsBounds, ReadRateKeepsBounds, GrantKeepsBounds
    DEF Reading
  <1>3. CASE Quiet
    BY <1>1, <1>3, QuietKeepsBounds
  <1>4. QED BY <1>2, <1>3, QuietSteps

LEMMA BoundAlways == Spec => []BoundInv
  BY InitBoundInv, BoundInductive, IInvAlways, PTL DEF Spec

(* The permits out never exceed the largest configured concurrency by more  *)
(* than the number of workers less one.                                     *)
THEOREM ActiveIsBounded == Spec => []ActiveBound
  BY BoundAlways, PTL DEF BoundInv

(* Nor do the jobs started in a minute exceed the largest rate by more.     *)
THEOREM RateIsBounded == Spec => []RateBound
  BY BoundAlways, PTL DEF BoundInv

-----------------------------------------------------------------------------
(* The overshoot against the settings in force.  While the stored settings  *)
(* stay as they are, a worker that is about to compare has read them.       *)
LimitsSeen ==
  \A w \in Workers : pc[w] \in {"scard", "rate"} => seen[w].limits = settings

LEMMA LimitsSeenInductive ==
  ASSUME IInv, LimitsSeen, [Next]_vars, settings' = settings
  PROVE  LimitsSeen'
  <1> USE DEF IInv, TypeOK, LimitsSeen, GoTo, gateVars, queueVars, faultVars
  <1>1. ASSUME NEW w \in Workers, WorkerStep(w) PROVE LimitsSeen'
    <2>1. CASE ReadSettings(w)
      BY <2>1 DEF ReadSettings
    <2>2. CASE ReadActiveCount(w)
      BY <2>2 DEF ReadActiveCount
    <2>3. CASE \E ok \in BOOLEAN : Ack(w, ok)
      BY <2>3 DEF Ack
    <2>4. CASE \E j \in Jobs : Take(w, j)
      BY <2>4 DEF Take
    <2>5. CASE ReadRateCount(w)
      BY <2>5 DEF ReadRateCount
    <2>6. CASE AlreadyActive(w) \/ Refused(w) \/ Admitted(w)
      BY <2>6 DEF AlreadyActive, Refused, Admitted
    <2>7. CASE Grant(w) \/ Release(w)
      BY <2>7 DEF Grant, Release
    <2>8. QED
      BY <1>1, <2>1, <2>2, <2>3, <2>4, <2>5, <2>6, <2>7 DEF WorkerStep
  <1>2. ASSUME NEW w \in Workers, Crash(w) PROVE LimitsSeen'
    BY <1>2 DEF Crash
  <1>3. ASSUME UNCHANGED <<pc, seen>> PROVE LimitsSeen'
    BY <1>3
  <1>4. QED
    BY <1>1, <1>2, <1>3
    DEF Next, StalledByCrash, LoseLock, Redeliver, MinuteTick, StoreUpdate, BeginUpdate,
        vars

(* The bounds as sums of the four counts.                                   *)
LEMMA CountsAreNaturals ==
  ASSUME TypeOK, BoundInv
  PROVE  /\ IsFiniteSet(activeJobs) /\ Cardinality(activeJobs) \in Nat
         /\ IsFiniteSet(Undecided) /\ Cardinality(Undecided) \in Nat
         /\ IsFiniteSet(Unpaid) /\ Cardinality(Unpaid) \in Nat
         /\ Cardinality(Workers) \in Nat /\ rateCount \in Nat
         /\ settings.concurrency \in Nat \ {0} /\ settings.rate \in Nat \ {0}
         /\ Cardinality(Undecided) <= Cardinality(Workers)
         /\ Cardinality(Unpaid) <= Cardinality(Workers)
  <1>1. Undecided \in SUBSET Workers /\ Unpaid \in SUBSET Workers
    BY DEF Undecided, Unpaid
  <1>2. settings.concurrency \in Nat \ {0} /\ settings.rate \in Nat \ {0} /\ rateCount \in Nat
    BY PermitsAssumption DEF TypeOK, Settings
  <1>3. IsFiniteSet(activeJobs) /\ Cardinality(activeJobs) \in Nat
    BY FS_CardinalityType DEF BoundInv
  <1>4. QED
    BY <1>1, <1>2, <1>3, WorkerSubsets

LEMMA QuietKeepsConfigured ==
  ASSUME TypeOK, TypeOK', BoundInv, BoundInv', ConfiguredBound, Quiet, settings' = settings
  PROVE  ConfiguredBound'
  <1>1. /\ Cardinality(activeJobs') <= Cardinality(activeJobs)
        /\ Cardinality(Undecided') <= Cardinality(Undecided)
        /\ Cardinality(Unpaid') <= Cardinality(Unpaid)
    BY CountsAreNaturals, FS_Subset DEF Quiet
  <1>2. /\ Cardinality(activeJobs') \in Nat /\ Cardinality(Undecided') \in Nat
        /\ Cardinality(Unpaid') \in Nat /\ rateCount' \in Nat
    <2>1. /\ IsFiniteSet(activeJobs') /\ IsFiniteSet(Undecided') /\ IsFiniteSet(Unpaid')
      BY CountsAreNaturals, FS_Subset DEF Quiet
    <2>2. QED BY <2>1, FS_CardinalityType DEF TypeOK
  <1>3. QED BY <1>1, <1>2, CountsAreNaturals DEF ConfiguredBound, Quiet

LEMMA ReadingKeepsConfigured ==
  ASSUME IInv, IInv', BoundInv, BoundInv', LimitsSeen, ConfiguredBound,
         settings' = settings, NEW w \in Workers, Reading(w)
  PROVE  ConfiguredBound'
  <1> USE DEF Reading, GoTo, gateVars, queueVars, faultVars
  <1>0. TypeOK /\ TypeOK' /\ seen[w].limits = settings
    BY DEF IInv, LimitsSeen, ReadActiveCount, ReadRateCount
  <1>1. /\ Cardinality(activeJobs) \in Nat /\ rateCount \in Nat
        /\ Cardinality(Undecided) \in Nat /\ Cardinality(Unpaid) \in Nat
        /\ Cardinality(Workers) \in Nat
        /\ settings.concurrency \in Nat \ {0} /\ settings.rate \in Nat \ {0}
    BY <1>0, CountsAreNaturals
  <1>2. /\ Cardinality(Undecided') \in Nat /\ Cardinality(Undecided') <= Cardinality(Workers)
        /\ Cardinality(Unpaid') \in Nat /\ Cardinality(Unpaid') <= Cardinality(Workers)
    <2>1. Undecided' \in SUBSET Workers /\ Unpaid' \in SUBSET Workers
      BY DEF Undecided, Unpaid
    <2>2. QED BY <2>1, WorkerSubsets
  <1>3. activeJobs' = activeJobs /\ rateCount' = rateCount
    BY DEF ReadActiveCount, ReadRateCount
  <1>4. CASE ReadActiveCount(w)
    <2>1. Unpaid' \subseteq Unpaid
      BY <1>0, <1>4 DEF ReadActiveCount, TypeOK, Unpaid
    <2>2. Cardinality(Unpaid') <= Cardinality(Unpaid)
      BY <2>1, <1>0, CountsAreNaturals, FS_Subset
    <2>3. CASE HasRoom(settings)
      BY <2>2, <2>3, <1>1, <1>2, <1>3 DEF HasRoom, ConfiguredBound
    <2>4. CASE ~HasRoom(settings)
      <3>1. Undecided' \subseteq Undecided
        BY <2>4, <1>0, <1>4 DEF ReadActiveCount, TypeOK, Undecided
      <3>2. Cardinality(Undecided') <= Cardinality(Undecided)
        BY <3>1, <1>0, CountsAreNaturals, FS_Subset
      <3>3. QED BY <3>2, <2>2, <1>1, <1>2, <1>3 DEF ConfiguredBound
    <2>5. QED BY <2>3, <2>4
  <1>5. CASE ReadRateCount(w)
    <2>1. Undecided' \subseteq Undecided
      BY <1>0, <1>5 DEF ReadRateCount, TypeOK, Undecided
    <2>2. Cardinality(Undecided') <= Cardinality(Undecided)
      BY <2>1, <1>0, CountsAreNaturals, FS_Subset
    <2>3. CASE HasQuota(settings)
      BY <2>2, <2>3, <1>1, <1>2, <1>3 DEF HasQuota, ConfiguredBound
    <2>4. CASE ~HasQuota(settings)
      <3>1. Unpaid' \subseteq Unpaid
        BY <2>4, <1>0, <1>5 DEF ReadRateCount, TypeOK, Unpaid
      <3>2. Cardinality(Unpaid') <= Cardinality(Unpaid)
        BY <3>1, <1>0, CountsAreNaturals, FS_Subset
      <3>3. QED BY <3>2, <2>2, <1>1, <1>2, <1>3 DEF ConfiguredBound
    <2>5. QED BY <2>3, <2>4
  <1>6. QED BY <1>4, <1>5

LEMMA GrantKeepsConfigured ==
  ASSUME IInv, IInv', BoundInv, BoundInv', ConfiguredBound, NEW w \in Workers, Grant(w)
  PROVE  ConfiguredBound'
  <1>1. TypeOK /\ TypeOK'
    BY DEF IInv
  <1>2. /\ Cardinality(Undecided') = Cardinality(Undecided) - 1
        /\ Cardinality(Unpaid') = Cardinality(Unpaid) - 1
        /\ Cardinality(activeJobs') <= Cardinality(activeJobs) + 1
        /\ Cardinality(activeJobs') \in Nat
    BY GrantCounts
  <1>3. rateCount' = rateCount + 1 /\ settings' = settings
    BY DEF Grant
  <1>4. QED BY <1>1, <1>2, <1>3, CountsAreNaturals DEF ConfiguredBound

LEMMA ConfiguredInductive ==
  ASSUME IInv, IInv', BoundInv, BoundInv', LimitsSeen, ConfiguredBound, [Next]_vars,
         settings' = settings
  PROVE  ConfiguredBound'
  <1>1. ASSUME NEW w \in Workers, Reading(w) \/ Grant(w) PROVE ConfiguredBound'
    BY <1>1, ReadingKeepsConfigured, GrantKeepsConfigured
  <1>2. CASE Quiet
    BY <1>2, QuietKeepsConfigured DEF IInv
  <1>3. QED BY <1>1, <1>2, QuietSteps

(* While the stored settings stay as they are, the permits out exceed the   *)
(* configured concurrency by the workers racing through the check at most,  *)
(* and the jobs of a minute the configured rate by the same.                *)
THEOREM OvershootIsOfRacers == Spec /\ [][FALSE]_settings => []ConfiguredBound
  <1>1. Init => LimitsSeen /\ ConfiguredBound
    <2> SUFFICES ASSUME Init PROVE LimitsSeen /\ ConfiguredBound
      OBVIOUS
    <2>1. Undecided = {} /\ Unpaid = {} /\ LimitsSeen
      BY DEF Init, Undecided, Unpaid, LimitsSeen
    <2>2. Cardinality(Workers) \in Nat /\ Cardinality(Workers) # 0
      BY FS_CardinalityType, FS_EmptySet, PermitsAssumption
    <2>3. settings.concurrency \in Nat \ {0} /\ settings.rate \in Nat \ {0}
      BY PermitsAssumption DEF Init, Settings
    <2>4. QED BY <2>1, <2>2, <2>3, FS_EmptySet DEF Init, ConfiguredBound
  <1>2. /\ IInv /\ IInv' /\ BoundInv /\ BoundInv' /\ LimitsSeen /\ ConfiguredBound
        /\ [Next]_vars /\ [FALSE]_settings
        => LimitsSeen' /\ ConfiguredBound'
    BY LimitsSeenInductive, ConfiguredInductive
  <1>3. QED BY <1>1, <1>2, IInvAlways, BoundAlways, PTL DEF Spec

(* What the setting's name says does hold of a single worker process whose  *)
(* settings stay as they are: there is nobody to race with.                 *)
THEOREM LoneWorkerRespectsConcurrency ==
  Cardinality(Workers) = 1 => (Spec /\ [][FALSE]_settings => []ConcurrencyRespected)
  <1>1. CASE Cardinality(Workers) = 1
    <2>1. ASSUME IInv, BoundInv, ConfiguredBound PROVE ConcurrencyRespected
      <3>1. /\ Cardinality(activeJobs) \in Nat /\ Cardinality(Undecided) \in Nat
            /\ settings.concurrency \in Nat
        BY <2>1, CountsAreNaturals DEF IInv
      <3>2. QED BY <1>1, <2>1, <3>1 DEF ConfiguredBound, ConcurrencyRespected
    <2>2. IInv /\ BoundInv /\ ConfiguredBound => ConcurrencyRespected
      BY <2>1
    <2>3. QED BY <2>2, IInvAlways, BoundAlways, OvershootIsOfRacers, PTL
  <1>2. QED BY <1>1

-----------------------------------------------------------------------------
(* Permits are never left behind by runs that ended normally.               *)
LEMMA AccountedInductive ==
  ASSUME IInv, PermitsAccounted, [Next]_vars
  PROVE  PermitsAccounted'
  <1> USE PermitsAssumption
      DEF IInv, TypeOK, PermitsAccounted, GoTo, gateVars, queueVars, faultVars
  <1>1. ASSUME NEW w \in Workers, \E j \in Jobs : Take(w, j) PROVE PermitsAccounted'
    BY <1>1 DEF Take
  <1>2. ASSUME NEW w \in Workers,
               ReadSettings(w) \/ ReadActiveCount(w) \/ ReadRateCount(w)
                 \/ AlreadyActive(w) \/ Refused(w) \/ Admitted(w)
        PROVE PermitsAccounted'
    BY <1>2 DEF ReadSettings, ReadActiveCount, ReadRateCount, AlreadyActive,
                Refused, Admitted
  <1>3. ASSUME NEW w \in Workers, Grant(w) PROVE PermitsAccounted'
    BY <1>3 DEF Grant
  <1>4. ASSUME NEW w \in Workers, Release(w) PROVE PermitsAccounted'
    BY <1>4 DEF Release, ReleasedSet
  <1>5. ASSUME NEW w \in Workers, NEW ok \in BOOLEAN, Ack(w, ok)
        PROVE PermitsAccounted'
    BY <1>5 DEF Ack
  <1>6. ASSUME NEW w \in Workers, Crash(w) PROVE PermitsAccounted'
    BY <1>6 DEF Crash, LockHeld, JobInHand, QueueSound
  <1>7. ASSUME NEW j \in Jobs, StalledByCrash(j) \/ LoseLock(j)
        PROVE PermitsAccounted'
    BY <1>7 DEF StalledByCrash, LoseLock, Redeliver
  <1>8. ASSUME NEW a \in Admins,
               StoreUpdate(a) \/ \E input \in UpdateInputs : BeginUpdate(a, input)
        PROVE PermitsAccounted'
    BY <1>8 DEF StoreUpdate, BeginUpdate
  <1>9. CASE MinuteTick \/ UNCHANGED vars
    BY <1>9 DEF MinuteTick, vars
  <1>10. QED
    BY <1>1, <1>2, <1>3, <1>4, <1>5, <1>6, <1>7, <1>8, <1>9 DEF Next, WorkerStep

(* An entry of active_jobs always belongs to a run that is in progress, or  *)
(* to a job whose worker died or lost its lock.                             *)
THEOREM PermitsAreAccounted == Spec => []PermitsAccounted
  <1>1. Init => PermitsAccounted
    BY DEF Init, PermitsAccounted
  <1>2. QED BY <1>1, AccountedInductive, IInvAlways, PTL DEF Spec

-----------------------------------------------------------------------------
(* Each worker that died left one permit behind, at most; no other step     *)
(* leaves any.                                                              *)
LEMMA CrashOrphansOne ==
  ASSUME IInv, NEW w \in Workers, Crash(w)
  PROVE  Orphaned' \subseteq Orphaned \cup {jobOf[w]} /\ crashes' = crashes + 1
  BY DEF IInv, TypeOK, Crash, Orphaned, gateVars

LEMMA WorkersOrphanNone ==
  ASSUME IInv, NEW w \in Workers, WorkerStep(w)
  PROVE  Orphaned' \subseteq Orphaned /\ crashes' = crashes
  <1> USE DEF IInv, TypeOK, Orphaned, GoTo, gateVars, queueVars, faultVars
  <1>1. CASE \E j \in Jobs : Take(w, j)
    BY <1>1 DEF Take
  <1>2. CASE ReadSettings(w) \/ ReadActiveCount(w) \/ ReadRateCount(w)
               \/ AlreadyActive(w) \/ Refused(w) \/ Admitted(w)
    BY <1>2 DEF ReadSettings, ReadActiveCount, ReadRateCount, AlreadyActive, Refused,
                Admitted
  <1>3. CASE Grant(w)
    BY <1>3 DEF Grant
  <1>4. CASE Release(w)
    BY <1>4 DEF Release, ReleasedSet
  <1>5. CASE \E ok \in BOOLEAN : Ack(w, ok)
    BY <1>5 DEF Ack
  <1>6. QED BY <1>1, <1>2, <1>3, <1>4, <1>5 DEF WorkerStep

LEMMA OthersOrphanNone ==
  ASSUME \/ \E j \in Jobs : StalledByCrash(j) \/ LoseLock(j)
         \/ MinuteTick
         \/ \E a \in Admins : \/ StoreUpdate(a)
                              \/ \E input \in UpdateInputs : BeginUpdate(a, input)
         \/ UNCHANGED vars
  PROVE  Orphaned' = Orphaned /\ crashes' = crashes
  <1>1. UNCHANGED <<activeJobs, pc, jobOf, crashes>>
    BY DEF StalledByCrash, LoseLock, Redeliver, MinuteTick, StoreUpdate, BeginUpdate, vars,
           gateVars, faultVars
  <1>2. QED BY <1>1 DEF Orphaned

LEMMA OrphansInductive ==
  ASSUME IInv, BoundInv, OrphansAreCrashes, [Next]_vars
  PROVE  OrphansAreCrashes'
  <1>1. IsFiniteSet(Orphaned) /\ Cardinality(Orphaned) \in Nat /\ crashes \in Nat
    BY FS_Subset, FS_CardinalityType, PermitsAssumption
    DEF BoundInv, Orphaned, IInv, TypeOK
  <1>2. ASSUME Orphaned' \subseteq Orphaned, crashes' = crashes PROVE OrphansAreCrashes'
    <2>1. Cardinality(Orphaned') \in Nat /\ Cardinality(Orphaned') <= Cardinality(Orphaned)
      BY <1>1, <1>2, FS_Subset, FS_CardinalityType
    <2>2. QED BY <1>1, <1>2, <2>1 DEF OrphansAreCrashes
  <1>3. ASSUME NEW w \in Workers, Crash(w) PROVE OrphansAreCrashes'
    <2> DEFINE more == Orphaned \cup {jobOf[w]}
    <2>1. /\ IsFiniteSet(more) /\ Cardinality(more) \in Nat
          /\ Cardinality(more) <= Cardinality(Orphaned) + 1
      <3>1. /\ IsFiniteSet(more)
            /\ Cardinality(more) = IF jobOf[w] \in Orphaned
                                   THEN Cardinality(Orphaned) ELSE Cardinality(Orphaned) + 1
        BY <1>1, FS_AddElement
      <3>2. QED BY <1>1, <3>1
    <2>2. Orphaned' \subseteq more /\ crashes' = crashes + 1
      BY <1>3, CrashOrphansOne
    <2> HIDE DEF more
    <2>3. Cardinality(Orphaned') \in Nat /\ Cardinality(Orphaned') <= Cardinality(more)
      BY <2>1, <2>2, FS_Subset, FS_CardinalityType
    <2>4. QED BY <1>1, <2>1, <2>2, <2>3 DEF OrphansAreCrashes
  <1>4. QED
    BY <1>2, <1>3, WorkersOrphanNone, OthersOrphanNone DEF Next

LEMMA OrphansAlways == Spec => []OrphansAreCrashes
  <1>1. Init => OrphansAreCrashes
    <2> SUFFICES ASSUME Init PROVE OrphansAreCrashes
      OBVIOUS
    <2>1. Orphaned = {} /\ crashes = 0
      BY DEF Init, Orphaned
    <2>2. QED BY <2>1, FS_EmptySet DEF OrphansAreCrashes
  <1>2. IInv /\ BoundInv /\ OrphansAreCrashes /\ [Next]_vars => OrphansAreCrashes'
    BY OrphansInductive
  <1>3. QED BY <1>1, <1>2, IInvAlways, BoundAlways, PTL DEF Spec

(* active_jobs never holds more forgotten permits than workers have died:   *)
(* races, lost locks, redeliveries and failed attempts forget none.         *)
THEOREM OrphansCountCrashes == Spec => []OrphansAreCrashes
  BY OrphansAlways

(* The gate is blocked for good only after as many deaths of workers as the *)
(* concurrency it allows.                                                   *)
THEOREM BlockingTakesCrashes == Spec => []BlockedByCrashes
  <1>1. ASSUME IInv, BoundInv, OrphansAreCrashes PROVE BlockedByCrashes
    <2>1. Leaked \subseteq Orphaned
      BY DEF Leaked, Orphaned
    <2>2. IsFiniteSet(Orphaned)
      BY <1>1, FS_Subset DEF BoundInv, Orphaned
    <2>3. /\ Cardinality(Leaked) \in Nat /\ Cardinality(Orphaned) \in Nat
          /\ Cardinality(Leaked) <= Cardinality(Orphaned)
      BY <2>1, <2>2, FS_Subset, FS_CardinalityType
    <2>4. settings.concurrency \in Nat /\ crashes \in Nat
      BY <1>1, PermitsAssumption DEF IInv, TypeOK, Settings
    <2>5. QED
      BY <1>1, <2>3, <2>4 DEF OrphansAreCrashes, BlockedByCrashes, GateBlocked
  <1>2. IInv /\ BoundInv /\ OrphansAreCrashes => BlockedByCrashes
    BY <1>1
  <1>3. QED BY <1>2, IInvAlways, BoundAlways, OrphansAlways, PTL

-----------------------------------------------------------------------------
(* Refinement: a MULTI is an Acquire of the pool, the SREM a Return, a new  *)
(* minute a NewMinute, and every other step leaves the pool alone.          *)
LEMMA StepRefines ==
  ASSUME IInv, BoundInv, BoundInv', [Next]_vars
  PROVE  [Pool!Next]_Pool!poolVars
  <1> USE DEF Pool!Next, Pool!poolVars, GoTo, gateVars, queueVars, faultVars
  <1>1. ASSUME NEW w \in Workers, Grant(w) PROVE Pool!Next
    <2>1. jobOf[w] \in Jobs
      BY <1>1 DEF Grant, IInv, JobInHand
    <2>2. Cardinality(activeJobs \cup {jobOf[w]}) <= Capacity
      <3>1. /\ Cardinality(activeJobs') \in Nat
            /\ Cardinality(Undecided') \in Nat
            /\ Cardinality(Workers) \in Nat
        <4>1. Undecided' \in SUBSET Workers
          BY DEF Undecided
        <4>2. QED BY <4>1, WorkerSubsets, FS_CardinalityType DEF BoundInv
      <3>2. Cardinality(activeJobs') <= Capacity
        BY <3>1, PermitsAssumption DEF BoundInv, ActiveBound, Capacity
      <3>3. QED BY <1>1, <3>2 DEF Grant
    <2>3. rateCount < RateCapacity
      <3>1. Cardinality(Unpaid') \in Nat /\ Cardinality(Workers) \in Nat
        <4>1. Unpaid' \in SUBSET Workers
          BY DEF Unpaid
        <4>2. QED BY <4>1, WorkerSubsets
      <3>2. rateCount' = rateCount + 1 /\ rateCount \in Nat
        BY <1>1 DEF Grant, IInv, TypeOK
      <3>3. QED
        BY <3>1, <3>2, PermitsAssumption DEF BoundInv, RateBound, RateCapacity
    <2>4. Pool!Acquire(jobOf[w])
      BY <1>1, <2>2, <2>3 DEF Grant, Pool!Acquire, Pool!Cardinality, Cardinality
    <2>5. QED BY <2>1, <2>4
  <1>2. ASSUME NEW w \in Workers, Release(w) PROVE Pool!Next
    <2>1. jobOf[w] \in Jobs
      BY <1>2 DEF Release, IInv, JobInHand
    <2>2. Pool!Return(jobOf[w])
      BY <1>2 DEF Release, ReleasedSet, Pool!Return
    <2>3. QED BY <2>1, <2>2
  <1>3. CASE MinuteTick
    BY <1>3 DEF MinuteTick, Pool!NewMinute
  <1>4. ASSUME NEW w \in Workers,
               \/ \E j \in Jobs : Take(w, j)
               \/ ReadSettings(w) \/ ReadActiveCount(w) \/ ReadRateCount(w)
               \/ AlreadyActive(w) \/ Refused(w) \/ Admitted(w)
               \/ \E ok \in BOOLEAN : Ack(w, ok)
               \/ Crash(w)
        PROVE UNCHANGED <<activeJobs, rateCount>>
    BY <1>4 DEF Take, ReadSettings, ReadActiveCount, ReadRateCount, AlreadyActive,
                Refused, Admitted, Ack, Crash
  <1>5. ASSUME \/ \E j \in Jobs : StalledByCrash(j) \/ LoseLock(j)
               \/ \E a \in Admins : \/ StoreUpdate(a)
                                     \/ \E input \in UpdateInputs : BeginUpdate(a, input)
               \/ UNCHANGED vars
        PROVE UNCHANGED <<activeJobs, rateCount>>
    BY <1>5 DEF StalledByCrash, LoseLock, Redeliver, StoreUpdate, BeginUpdate, vars
  <1>6. QED
    BY <1>1, <1>2, <1>3, <1>4, <1>5 DEF Next, WorkerStep

(* The Redis protocol implements the abstract pool of permits.              *)
THEOREM GateImplementsPool == Spec => ImplementsPool
  <1>1. Init => Pool!Init
    BY DEF Init, Pool!Init
  <1>2. IInv /\ BoundInv /\ BoundInv' /\ [Next]_vars => [Pool!Next]_Pool!poolVars
    BY StepRefines
  <1>3. QED
    BY <1>1, <1>2, IInvAlways, BoundAlways, PTL DEF Spec, ImplementsPool, Pool!Spec
=============================================================================
