------------------------- MODULE WorkflowLedgerTyping -------------------------
(***************************************************************************)
(* Type correctness of the ledger, for every number of instances, stages,  *)
(* owners, attempts and claims, and facts about rows the other proofs use. *)
(***************************************************************************)
EXTENDS WorkflowLedgerInvariant, FiniteSetTheorems, TLAPS

-----------------------------------------------------------------------------
(* Rows and times                                                          *)

\* Cleared tokens and expiries are values of their columns.
LEMMA ZeroIsInRange == 0 \in 0..MaxClaims /\ 0 \in 0..(MaxTime + LeaseSeconds)
BY BoundsAreNat, LeaseIsPositive

\* Clearing the lease columns leaves a row, whatever status it is given.
LEMMA ReleasedRow ==
    ASSUME NEW row \in Row, NEW status \in RunStatus
    PROVE  /\ Released(row, status) \in Row
           /\ Released(row, status).status = status
           /\ Released(row, status).token = 0
           /\ Released(row, status).owner = NoOwner
           /\ Released(row, status).expires = 0
           /\ Released(row, status).approval = row.approval
BY ZeroIsInRange DEF Released, Row

\* A queued row holds no lease.
LEMMA QueuedRowIsRow ==
    ASSUME NEW retryAt \in Nat, rows \in Nat
    PROVE  /\ QueuedRow(retryAt) \in Row
           /\ QueuedRow(retryAt).status = "queued"
           /\ QueuedRow(retryAt).token = 0
           /\ QueuedRow(retryAt).owner = NoOwner
           /\ QueuedRow(retryAt).expires = 0
<1>1. rows + 1 \in Nat
  OBVIOUS
<1>2. AbsentRow \in Row
  BY ZeroIsInRange DEF AbsentRow, Row, RunStatus, FailureClass
<1> QED
  BY <1>1, <1>2 DEF QueuedRow, AbsentRow, Row, RunStatus

\* A claimed row.
LEMMA LeasedRow ==
    ASSUME NEW row \in Row, NEW o \in Owners, NEW token \in 0..MaxClaims,
           NEW expires \in 0..(MaxTime + LeaseSeconds)
    PROVE  /\ [row EXCEPT !.status = "claimed", !.owner = o, !.token = token,
                          !.expires = expires] \in Row
           /\ [row EXCEPT !.expires = expires] \in Row
           /\ [row EXCEPT !.status = "started"] \in Row
BY DEF Row, RunStatus

\* A row settled or repaired: the verdict columns change.
LEMMA JudgedRow ==
    ASSUME NEW row \in Row, NEW status \in RunStatus, NEW failure \in FailureClass,
           NEW approval \in BOOLEAN, NEW retryAt \in Nat
    PROVE  /\ [row EXCEPT !.failure = failure, !.approval = approval] \in Row
           /\ [row EXCEPT !.failure = failure, !.retryAt = retryAt] \in Row
           /\ [row EXCEPT !.status = status, !.failure = failure] \in Row
BY DEF Row

\* The times a caller may pass are past or present, and the lease they buy
\* ends within the model's range.
LEMMA CallTimesArePast ==
    ASSUME TypeOK, NEW at \in CallTimes
    PROVE  /\ at \in Nat /\ at <= now
           /\ at + LeaseSeconds \in 0..(MaxTime + LeaseSeconds)
           /\ at + LeaseSeconds > 0
BY BoundsAreNat, LeaseIsPositive DEF TypeOK, CallTimes

\* The runs of one sweep are counted by a natural number.
LEMMA SweptRunsAreFinite ==
    ASSUME NEW i \in Instances, NEW at
    PROVE  Cardinality(SweptRuns(i, at)) \in Nat
<1>1. IsFiniteSet(Attempts)
  BY FS_Interval, BoundsAreNat DEF Attempts
<1>2. IsFiniteSet(Instances \X (Stages \X Attempts))
  BY <1>1, FiniteIds, FS_Product
<1>3. IsFiniteSet(Runs)
  <2> DEFINE Nested == Instances \X (Stages \X Attempts)
             flat   == [x \in Nested |-> <<x[1], x[2][1], x[2][2]>>]
  <2>1. flat \in [Nested -> Runs]
    BY DEF Runs
  <2>2. \A r \in Runs : \E x \in Nested : flat[x] = r
    <3> TAKE r \in Runs
    <3>1. <<r[1], <<r[2], r[3]>>>> \in Nested
      BY DEF Runs
    <3>2. flat[<<r[1], <<r[2], r[3]>>>>] = r
      BY <3>1 DEF Runs
    <3> QED BY <3>1, <3>2
  <2>3. flat \in Surjection(Nested, Runs)
    BY <2>1, <2>2 DEF Surjection
  <2> HIDE DEF flat
  <2> QED BY <2>3, <1>2, FS_Surjection
<1>4. SweptRuns(i, at) \subseteq Runs
  BY DEF SweptRuns
<1> QED BY <1>3, <1>4, FS_Subset, FS_CardinalityType

\* No row is queued or inserted without a status of its domain.
LEMMA FailedStatusIsStatus ==
    ASSUME NEW failure PROVE FailedStatus(failure) \in {"failed", "invalid_output"}
BY DEF FailedStatus

-----------------------------------------------------------------------------
(* Type correctness                                                        *)

\* The initial ledger is empty, and emptiness is well typed.
LEMMA InitTypeOK == Init => TypeOK
<1>1. AbsentRow \in Row
  BY ZeroIsInRange DEF AbsentRow, Row, RunStatus, FailureClass
<1> QED
  BY <1>1, BoundsAreNat, LeaseIsPositive DEF Init, TypeOK, InstanceRow, InstanceStatus

\* Cancel and park write well-typed rows.
LEMMA SupersededIsTyped ==
    ASSUME TypeOK, NEW i \in Instances
    PROVE  Superseded(i) \in [Runs -> Row]
<1>1. "superseded" \in RunStatus
  BY DEF RunStatus
<1> QED
  BY <1>1, ReleasedRow DEF TypeOK, Superseded

\* Writing status and stage of an instance keeps the table well typed.
LEMMA StandIsTyped ==
    ASSUME TypeOK, NEW i \in Instances, NEW status \in InstanceStatus,
           NEW s \in Stages \cup {NoStage}, Stand(i, status, s)
    PROVE  instance' \in [Instances -> InstanceRow]
<1>1. [instance[i] EXCEPT !.status = status, !.stage = s] \in InstanceRow
  BY DEF TypeOK, InstanceRow
<1> QED
  BY <1>1 DEF TypeOK, Stand

\* Inserting, updating, cancelling and parking instances keep the types.
LEMMA InstanceStepTypeOK == TypeOK /\ InstanceStep => TypeOK'
<1> SUFFICES ASSUME TypeOK, InstanceStep PROVE TypeOK'
  OBVIOUS
<1> USE DEF TypeOK, history
<1>0. TerminalInstance \cup {"running", "retrying", "waiting_on_human", "blocked",
                             "cancelled"} \subseteq InstanceStatus
  BY DEF TerminalInstance, InstanceStatus
<1> PICK i \in Instances :
    \/ \E s \in Stages : InsertWorkflowInstance(i, s)
    \/ \E st \in TerminalInstance : UpdateWorkflowInstance(i, st, NoStage)
    \/ \E st \in {"running", "retrying", "waiting_on_human", "blocked"},
         s \in Stages : UpdateWorkflowInstance(i, st, s)
    \/ \E force \in BOOLEAN : CancelWorkflowInstance(i, force)
    \/ ParkStaleWorkflowInstance(i)
  BY DEF InstanceStep
<1>1. CASE \E s \in Stages : InsertWorkflowInstance(i, s)
  BY <1>0, <1>1, StandIsTyped DEF InsertWorkflowInstance
<1>2. CASE \E st \in TerminalInstance : UpdateWorkflowInstance(i, st, NoStage)
  BY <1>0, <1>2, StandIsTyped DEF UpdateWorkflowInstance, TerminalInstance
<1>3. CASE \E st \in {"running", "retrying", "waiting_on_human", "blocked"},
            s \in Stages : UpdateWorkflowInstance(i, st, s)
  BY <1>0, <1>3, StandIsTyped DEF UpdateWorkflowInstance
<1>4. CASE \E force \in BOOLEAN : CancelWorkflowInstance(i, force)
  BY <1>0, <1>4, StandIsTyped, SupersededIsTyped DEF CancelWorkflowInstance
<1>5. CASE ParkStaleWorkflowInstance(i)
  BY <1>0, <1>5, StandIsTyped, SupersededIsTyped DEF ParkStaleWorkflowInstance
<1> QED
  BY <1>1, <1>2, <1>3, <1>4, <1>5

\* Queueing and claiming keep the types.
LEMMA QueueStepTypeOK == TypeOK /\ QueueStep => TypeOK'
<1> SUFFICES ASSUME TypeOK, QueueStep PROVE TypeOK'
  OBVIOUS
<1> USE DEF TypeOK, ledger, history
<1> PICK r \in Runs :
    \/ IsNextAttempt(r) /\ InsertStageRun(r)
    \/ \E o \in Owners, at \in CallTimes : ClaimNextQueuedRun(r, o, at)
  BY DEF QueueStep
<1>1. CASE InsertStageRun(r)
  <2>1. rows \in Nat /\ rows + 1 \in 0..MaxRows
    BY <1>1, BoundsAreNat DEF InsertStageRun
  <2> QED
    BY <1>1, <2>1, QueuedRowIsRow DEF InsertStageRun
<1>2. ASSUME NEW o \in Owners, NEW at \in CallTimes, ClaimNextQueuedRun(r, o, at)
      PROVE  TypeOK'
  <2>1. at + LeaseSeconds \in 0..(MaxTime + LeaseSeconds)
    BY CallTimesArePast
  <2>2. /\ tokens + 1 \in 0..MaxClaims
        /\ tokens + 1 \in 1..MaxClaims
    <3>1. tokens < MaxClaims /\ tokens \in 0..MaxClaims
      BY <1>2 DEF ClaimNextQueuedRun
    <3> QED BY <3>1, BoundsAreNat
  <2> DEFINE row == [run[r] EXCEPT !.status = "claimed", !.owner = o,
                                   !.token = tokens + 1,
                                   !.expires = at + LeaseSeconds]
             grant == [run |-> r, owner |-> o, token |-> tokens + 1,
                       expires |-> at + LeaseSeconds]
  <2>3. row \in Row
    BY <2>1, <2>2, LeasedRow
  <2>4. grant \in Grant
    BY <2>1, <2>2 DEF Grant
  <2>5. /\ run' = [run EXCEPT ![r] = row]
        /\ grants' = grants \cup {grant}
    BY <1>2 DEF ClaimNextQueuedRun
  <2> HIDE DEF row, grant
  <2> QED
    BY <1>2, <2>2, <2>3, <2>4, <2>5 DEF ClaimNextQueuedRun
<1> QED
  BY <1>1, <1>2

\* Facts a claim that authorises a call comes with.
LEMMA AuthorisedGrant ==
    ASSUME TypeOK, NEW g \in grants, NEW permitted, NEW at,
           Authorises(g, permitted, at)
    PROVE  /\ g.run \in Runs /\ g.owner \in Owners
           /\ g.token \in 0..MaxClaims /\ g.token > 0
           /\ g.expires \in 0..(MaxTime + LeaseSeconds)
           /\ run[g.run] \in Row
           /\ run[g.run].token = g.token
           /\ run[g.run].status \in permitted
BY BoundsAreNat DEF TypeOK, Authorises, Grant

\* Settling an attempt with a well-typed row keeps the types.
LEMMA SettleIsTyped ==
    ASSUME TypeOK, NEW g \in grants, NEW row \in Row, Settle(g, row)
    PROVE  TypeOK'
<1>1. g.run \in Runs /\ g.token \in 0..MaxClaims
  BY BoundsAreNat DEF TypeOK, Grant
<1> QED
  BY <1>1 DEF Settle, TypeOK

\* A scheduled retry writes two well-typed rows.
LEMMA ScheduleRetryIsTyped ==
    ASSUME TypeOK, NEW g \in grants, NEW at \in CallTimes, NEW f \in HandlerFailures,
           NEW d \in RetryDelays, ScheduleRetry(g, f, d, at)
    PROVE  TypeOK'
<1>1. g.run \in Runs /\ g.token \in 0..MaxClaims
  BY BoundsAreNat DEF TypeOK, Grant
<1>2. PICK n \in Attempts :
        run' = [run EXCEPT
                 ![g.run] = [Released(@, FailedStatus(f))
                               EXCEPT !.failure = f, !.retryAt = at + d],
                 ![<<InstanceOf(g.run), StageOf(g.run), n>>] = QueuedRow(at + d)]
  BY DEF ScheduleRetry
<1>3. at + d \in Nat
  BY CallTimesArePast, DelaysAreNat
<1>4. [Released(run[g.run], FailedStatus(f)) EXCEPT !.failure = f, !.retryAt = at + d]
        \in Row
  <2>1. Released(run[g.run], FailedStatus(f)) \in Row
    BY <1>1, ReleasedRow, FailedStatusIsStatus DEF RunStatus, TypeOK
  <2>2. f \in FailureClass
    BY DEF HandlerFailures, FailureClass
  <2> QED
    BY <1>3, <2>1, <2>2, JudgedRow DEF Row
<1>5. rows \in Nat /\ rows + 1 \in 0..MaxRows /\ rows' = rows + 1
  <2>1. rows < MaxRows /\ rows \in 0..MaxRows
    BY DEF ScheduleRetry, TypeOK
  <2> QED BY <2>1, BoundsAreNat DEF ScheduleRetry
<1>6. QueuedRow(at + d) \in Row
  BY <1>3, <1>5, QueuedRowIsRow
<1>7. run' \in [Runs -> Row]
  BY <1>1, <1>2, <1>4, <1>6 DEF TypeOK
<1>8. closer' \in [Runs -> 0..MaxClaims]
  BY <1>1 DEF ScheduleRetry, TypeOK
<1> QED
  BY <1>5, <1>7, <1>8 DEF ScheduleRetry, TypeOK

\* Every call made with a claim keeps the types.
LEMMA LeaseStepTypeOK == TypeOK /\ LeaseStep => TypeOK'
<1> SUFFICES ASSUME TypeOK, NEW g \in grants,
                    \/ RecordAdapterInvocation(g)
                    \/ RecordHandlerReceipt(g)
                    \/ \E at \in CallTimes :
                         \/ RenewLease(g, at)
                         \/ MarkStageRunStarted(g, at)
                         \/ CompleteStageRun(g, at)
                         \/ WaitStageRunForHumanDecision(g, at)
                         \/ \E f \in HandlerFailures :
                              \/ FailStageRun(g, f, at)
                              \/ \E approval \in BOOLEAN :
                                   BlockStageRun(g, f, approval, at)
                              \/ BlockStageRun(g, "unknown_side_effect_state", TRUE, at)
                              \/ \E d \in RetryDelays : ScheduleRetry(g, f, d, at)
             PROVE  TypeOK'
  BY DEF LeaseStep
<1>0. /\ g.run \in Runs /\ g.token \in 0..MaxClaims /\ g \in Grant
      /\ run[g.run] \in Row
  BY BoundsAreNat DEF TypeOK, Grant
<1>1. CASE RecordAdapterInvocation(g)
  BY <1>0, <1>1 DEF RecordAdapterInvocation, TypeOK, history
<1>2. CASE RecordHandlerReceipt(g)
  BY <1>0, <1>2 DEF RecordHandlerReceipt, TypeOK, history
<1>3. ASSUME NEW at \in CallTimes, RenewLease(g, at) PROVE TypeOK'
  <2>1. at + LeaseSeconds \in 0..(MaxTime + LeaseSeconds)
    BY CallTimesArePast
  <2>2. [g EXCEPT !.expires = at + LeaseSeconds] \in Grant
    BY <1>0, <2>1 DEF Grant
  <2>3. [run[g.run] EXCEPT !.expires = at + LeaseSeconds] \in Row
    BY <1>0, <2>1 DEF Row
  <2> QED
    BY <1>0, <1>3, <2>2, <2>3 DEF RenewLease, TypeOK, history
<1>4. ASSUME NEW at \in CallTimes, MarkStageRunStarted(g, at) PROVE TypeOK'
  <2>1. [run[g.run] EXCEPT !.status = "started"] \in Row
    BY <1>0 DEF Row, RunStatus
  <2> QED
    BY <1>0, <1>4, <2>1 DEF MarkStageRunStarted, TypeOK
<1>5. ASSUME NEW at \in CallTimes, CompleteStageRun(g, at) PROVE TypeOK'
  <2>1. Released(run[g.run], "succeeded") \in Row
    BY <1>0, ReleasedRow DEF RunStatus
  <2> QED
    BY <1>5, <2>1, SettleIsTyped DEF CompleteStageRun
<1>6. ASSUME NEW at \in CallTimes, WaitStageRunForHumanDecision(g, at) PROVE TypeOK'
  <2>1. Released(run[g.run], "waiting_on_human") \in Row
    BY <1>0, ReleasedRow DEF RunStatus
  <2>2. [Released(run[g.run], "waiting_on_human")
           EXCEPT !.failure = "other", !.approval = TRUE] \in Row
    BY <2>1 DEF Row, FailureClass
  <2> QED
    BY <1>6, <2>2, SettleIsTyped DEF WaitStageRunForHumanDecision
<1>7. ASSUME NEW at \in CallTimes, NEW f \in HandlerFailures, FailStageRun(g, f, at)
      PROVE  TypeOK'
  <2>1. Released(run[g.run], FailedStatus(f)) \in Row
    BY <1>0, ReleasedRow, FailedStatusIsStatus DEF RunStatus
  <2>2. [Released(run[g.run], FailedStatus(f)) EXCEPT !.failure = f, !.retryAt = 0]
          \in Row
    BY <2>1 DEF Row, FailureClass, HandlerFailures
  <2> QED
    BY <1>7, <2>2, SettleIsTyped DEF FailStageRun
<1>8. ASSUME NEW at \in CallTimes, NEW f \in FailureClass, NEW approval \in BOOLEAN,
             BlockStageRun(g, f, approval, at)
      PROVE  TypeOK'
  <2>1. Released(run[g.run], "blocked") \in Row
    BY <1>0, ReleasedRow DEF RunStatus
  <2>2. [Released(run[g.run], "blocked") EXCEPT !.failure = f, !.approval = approval]
          \in Row
    BY <2>1 DEF Row
  <2> QED
    BY <1>8, <2>2, SettleIsTyped DEF BlockStageRun
<1>9. HandlerFailures \cup {"unknown_side_effect_state"} \subseteq FailureClass
  BY DEF HandlerFailures, FailureClass
<1> QED
  BY <1>1, <1>2, <1>3, <1>4, <1>5, <1>6, <1>7, <1>8, <1>9, ScheduleRetryIsTyped

\* The sweep and the limbo repair keep the types.
LEMMA RecoveryStepTypeOK == TypeOK /\ RecoveryStep => TypeOK'
<1> SUFFICES ASSUME TypeOK, RecoveryStep PROVE TypeOK'
  OBVIOUS
<1>1. ASSUME NEW at \in CallTimes, SweepStaleLeases(at) PROVE TypeOK'
  <2>1. ASSUME NEW r \in Runs PROVE Recovered(r) \in Row
    <3>1. run[r] \in Row /\ {"queued", "blocked"} \subseteq RunStatus
      BY DEF TypeOK, RunStatus
    <3>2. /\ Released(run[r], "queued") \in Row
          /\ Released(run[r], "blocked") \in Row
      BY <3>1, ReleasedRow
    <3>3. {"stale_lease", "unknown_side_effect_state"} \subseteq FailureClass
      BY DEF FailureClass
    <3> QED
      BY <3>2, <3>3, JudgedRow DEF Recovered, Row
  <2>2. run' \in [Runs -> Row]
    BY <1>1, <2>1 DEF SweepStaleLeases, TypeOK
  <2>3. ASSUME NEW i \in Instances
        PROVE  [instance[i] EXCEPT
                 !.epoch = @ + Cardinality(SweptRuns(i, at)),
                 !.status = IF SweepBlocks(i, at) THEN "blocked" ELSE @] \in InstanceRow
    <3>1. instance[i] \in InstanceRow
      BY DEF TypeOK
    <3>2. instance[i].epoch + Cardinality(SweptRuns(i, at)) \in Nat
      BY <3>1, SweptRunsAreFinite DEF InstanceRow
    <3>3. (IF SweepBlocks(i, at) THEN "blocked" ELSE instance[i].status) \in InstanceStatus
      BY <3>1 DEF InstanceRow, InstanceStatus
    <3> QED
      BY <3>1, <3>2, <3>3 DEF InstanceRow
  <2>4. instance' \in [Instances -> InstanceRow]
    BY <1>1, <2>3 DEF SweepStaleLeases
  <2> QED
    BY <1>1, <2>2, <2>4 DEF SweepStaleLeases, TypeOK, history
<1>2. CASE TerminalizeBlockedCurrentStages
  <2>1. ASSUME NEW i \in Instances
        PROVE  [instance[i] EXCEPT !.status = "blocked"] \in InstanceRow
    BY DEF TypeOK, InstanceRow, InstanceStatus
  <2> QED
    BY <1>2, <2>1 DEF TerminalizeBlockedCurrentStages, TypeOK, history
<1> QED
  BY <1>1, <1>2 DEF RecoveryStep

\* Gate receipts and decisions keep the types.
LEMMA GateStepTypeOK == TypeOK /\ GateStep => TypeOK'
<1> SUFFICES ASSUME TypeOK, NEW r \in Runs,
                    \/ RecordPublishReceipt(r)
                    \/ RecordHumanDecision(r)
                    \/ CompleteWaitingHumanStageRun(r, "succeeded", "none")
                    \/ CompleteWaitingHumanStageRun(r, "blocked", "other")
             PROVE  TypeOK'
  BY DEF GateStep
<1>1. CASE RecordPublishReceipt(r)
  BY <1>1 DEF RecordPublishReceipt, TypeOK, history
<1>2. CASE RecordHumanDecision(r)
  BY <1>2 DEF RecordHumanDecision, TypeOK, history
<1>3. ASSUME NEW status \in {"succeeded", "blocked"}, NEW failure \in {"none", "other"},
             CompleteWaitingHumanStageRun(r, status, failure)
      PROVE  TypeOK'
  <2>1. [run[r] EXCEPT !.status = status, !.failure = failure] \in Row
    BY DEF TypeOK, Row, RunStatus, FailureClass
  <2> QED
    BY <1>3, <2>1 DEF CompleteWaitingHumanStageRun, TypeOK, history
<1> QED
  BY <1>1, <1>2, <1>3

\* Resuming an instance keeps the table well typed.
LEMMA ResumeIsTyped ==
    ASSUME TypeOK, NEW i \in Instances, NEW s \in Stages, Resume(i, s)
    PROVE  instance' \in [Instances -> InstanceRow]
<1>1. instance[i] \in InstanceRow /\ "running" \in InstanceStatus
  BY DEF TypeOK, InstanceStatus
<1>2. instance[i].epoch + 1 \in Nat
  BY <1>1 DEF InstanceRow
<1>3. [status |-> "running", stage |-> s, epoch |-> instance[i].epoch + 1]
        \in InstanceRow
  BY <1>1, <1>2 DEF InstanceRow
<1> QED
  BY <1>3 DEF TypeOK, Resume

\* One more row fits below MaxRows, and is a queued row.
LEMMA AppendedRow ==
    ASSUME TypeOK, rows < MaxRows
    PROVE  /\ rows + 1 \in 0..MaxRows
           /\ QueuedRow(0) \in Row
<1>1. rows \in Nat
  BY DEF TypeOK
<1> QED
  BY <1>1, BoundsAreNat, QueuedRowIsRow

\* Appending an attempt behind another keeps the types.
LEMMA AppendAttemptIsTyped ==
    ASSUME TypeOK, NEW r \in Runs, NEW row \in Row, AppendAttempt(r, row),
           instance' \in [Instances -> InstanceRow]
    PROVE  TypeOK'
<1>1. run' \in [Runs -> Row]
  BY AppendedRow DEF AppendAttempt, TypeOK
<1> QED
  BY <1>1, AppendedRow DEF AppendAttempt, TypeOK, history

\* The parts of an attempt name are an instance, a stage and a number.
LEMMA RunParts ==
    ASSUME NEW r \in Runs
    PROVE  InstanceOf(r) \in Instances /\ StageOf(r) \in Stages /\ AttemptOf(r) \in Attempts
BY DEF Runs, InstanceOf, StageOf, AttemptOf

\* The operator repairs keep the types.
LEMMA OperatorStepTypeOK == TypeOK /\ OperatorStep => TypeOK'
<1> SUFFICES ASSUME TypeOK, NEW r \in Runs,
                    \/ RetryBlockedHumanGate(r)
                    \/ ReissueWaitingHumanGate(r)
                    \/ RestorePublishedHumanGateWaiting(r)
                    \/ \E reauthorised, diagnostic \in BOOLEAN :
                         RetryBlockedStageWithoutEffect(r, reauthorised, diagnostic)
                    \/ \E c \in Runs : QueueLocalPreparationRepair(r, c)
             PROVE  TypeOK'
  BY DEF OperatorStep
<1>0. run[r] \in Row /\ InstanceOf(r) \in Instances /\ StageOf(r) \in Stages
  BY RunParts DEF TypeOK
<1>1. CASE RetryBlockedHumanGate(r)
  BY <1>0, <1>1, ResumeIsTyped, AppendAttemptIsTyped DEF RetryBlockedHumanGate
<1>2. CASE ReissueWaitingHumanGate(r)
  <2>1. [run[r] EXCEPT !.status = "blocked", !.failure = "other"] \in Row
    BY <1>0 DEF Row, RunStatus, FailureClass
  <2> QED
    BY <1>0, <1>2, <2>1, ResumeIsTyped, AppendAttemptIsTyped
       DEF ReissueWaitingHumanGate
<1>3. CASE RestorePublishedHumanGateWaiting(r)
  <2>1. [run[r] EXCEPT !.status = "waiting_on_human", !.failure = "none"] \in Row
    BY <1>0 DEF Row, RunStatus, FailureClass
  <2>2. instance' \in [Instances -> InstanceRow]
    BY <1>0, <1>3, StandIsTyped DEF RestorePublishedHumanGateWaiting, InstanceStatus
  <2> QED
    BY <1>3, <2>1, <2>2 DEF RestorePublishedHumanGateWaiting, TypeOK, history
<1>4. ASSUME NEW reauthorised \in BOOLEAN, NEW diagnostic \in BOOLEAN,
             RetryBlockedStageWithoutEffect(r, reauthorised, diagnostic)
      PROVE  TypeOK'
  BY <1>0, <1>4, ResumeIsTyped, AppendAttemptIsTyped
     DEF RetryBlockedStageWithoutEffect
<1>5. ASSUME NEW c \in Runs, QueueLocalPreparationRepair(r, c) PROVE TypeOK'
  <2>1. StageOf(c) \in Stages
    BY RunParts
  <2>2. instance' \in [Instances -> InstanceRow]
    BY <1>0, <1>5, <2>1, ResumeIsTyped DEF QueueLocalPreparationRepair
  <2>3. rows < MaxRows /\ rows' = rows + 1
    BY <1>5 DEF QueueLocalPreparationRepair
  <2>4. run' \in [Runs -> Row]
    BY <1>5, <2>3, AppendedRow DEF QueueLocalPreparationRepair, TypeOK
  <2> QED
    BY <1>5, <2>2, <2>3, <2>4, AppendedRow
       DEF QueueLocalPreparationRepair, TypeOK, history
<1> QED
  BY <1>1, <1>2, <1>3, <1>4, <1>5

\* Time keeps the types.
LEMMA TickTypeOK == TypeOK /\ Tick => TypeOK'
<1> SUFFICES ASSUME TypeOK, Tick PROVE TypeOK'
  OBVIOUS
<1>1. now' \in 0..MaxTime
  <2>1. now \in 0..MaxTime /\ now < MaxTime /\ now' = now + 1
    BY DEF TypeOK, Tick
  <2> QED BY <2>1, BoundsAreNat
<1> QED
  BY <1>1 DEF TypeOK, Tick, ledger, history

\* Every call of the ledger keeps the types.
LEMMA StepTypeOK == TypeOK /\ [Next]_vars => TypeOK'
<1>1. TypeOK /\ UNCHANGED vars => TypeOK'
  BY DEF TypeOK, vars, ledger, history
<1> QED
  BY <1>1, InstanceStepTypeOK, QueueStepTypeOK, LeaseStepTypeOK,
     RecoveryStepTypeOK, GateStepTypeOK, OperatorStepTypeOK, TickTypeOK DEF Next

\* Every column of every row stays in its domain.
THEOREM LedgerTypeCorrect == Spec => []TypeOK
BY InitTypeOK, StepTypeOK, PTL DEF Spec
=============================================================================
