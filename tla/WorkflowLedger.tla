---------------------------- MODULE WorkflowLedger ----------------------------
(***************************************************************************)
(* The SQLite workflow ledger (storage.py, class WorkflowLedger): workflow *)
(* instances, the append-only attempts of their stages, the leases workers *)
(* hold on attempts, and the operator repair primitives.                   *)
(*                                                                         *)
(* Every method of the ledger is one BEGIN IMMEDIATE transaction, so every *)
(* action below is one whole method call.  A call that the ledger refuses  *)
(* (LedgerConflict, KeyError, "changed": False) changes nothing and is a   *)
(* disabled action.  Callers are arbitrary here: any worker may use any    *)
(* claim it was ever handed, however stale, and `now` may be a timestamp   *)
(* the caller read up to MaxLag ticks ago.  WorkflowKernel restricts the   *)
(* callers to what kernel.py and runner.py do.                             *)
(*                                                                         *)
(* The statuses waiting, waiting_on_child, validating, timed_out,          *)
(* approval_required and approval_denied are listed by the ledger but      *)
(* written by no code in packages/, so no row of the model carries them.   *)
(***************************************************************************)
EXTENDS Integers, FiniteSets

CONSTANTS
    Instances,      \* workflow instance ids
    Stages,         \* stage ids of the workflow definition
    Owners,         \* worker owner ids
    AdapterFamily,  \* [Stages -> the prefix of the stage's adapter id]
    NoStage,        \* current_stage_id IS NULL
    NoOwner,        \* lease_owner IS NULL
    LeaseSeconds,   \* resolved lease duration, in ticks
    RetryDelays,    \* backoffs a retry may ask for, in ticks
    MaxAttempt,     \* bound: attempts per stage
    MaxTime,        \* bound: last tick of the clock
    MaxClaims,      \* bound: lease tokens minted
    MaxRows,        \* bound: attempts inserted in all
    MaxLag          \* bound: how far a caller's `now` trails the clock

ASSUME FiniteIds == /\ IsFiniteSet(Instances)
                    /\ IsFiniteSet(Stages)
ASSUME NullsAreNotIds == NoStage \notin Stages /\ NoOwner \notin Owners
ASSUME LeaseIsPositive == LeaseSeconds \in Nat \ {0}
ASSUME DelaysAreNat == RetryDelays \subseteq Nat
ASSUME BoundsAreNat == /\ MaxAttempt \in Nat /\ MaxTime \in Nat
                       /\ MaxClaims \in Nat /\ MaxLag \in Nat
                       /\ MaxRows \in Nat
ASSUME FamiliesAreKnown ==
    AdapterFamily \in [Stages -> {"lane", "surface", "runtime", "host"}]

Attempts == 1..MaxAttempt
Runs     == Instances \X Stages \X Attempts

InstanceOf(r) == r[1]
StageOf(r)    == r[2]
AttemptOf(r)  == r[3]

RunStatus == {"absent", "queued", "claimed", "started", "waiting_on_human",
              "succeeded", "failed", "invalid_output", "blocked", "superseded"}
InstanceStatus == {"absent", "running", "retrying", "waiting_on_human",
                   "blocked", "done", "cancelled", "policy_denied"}
FailureClass == {"none", "invalid_output", "stale_lease",
                 "unknown_side_effect_state", "other"}

\* The members of _ACTIVE_LEASE_STATUSES some code writes.
ActiveLease == {"claimed", "started"}
\* Statuses cancel and park retire.
Unfinished == ActiveLease \cup {"queued", "waiting_on_human"}
TerminalInstance == {"done", "cancelled", "policy_denied"}

VARIABLES
    instance,   \* workflow_instances rows: status, current stage, recovery epoch
    run,        \* stage_runs rows
    evidence,   \* runs with an adapter_invocations row or a start event
    decided,    \* runs with a human_decisions row
    published,  \* runs with a succeeded human_gate_surface receipt
    artifacts,  \* runs with an artifact_refs row
    grants,     \* claims ever handed out: what the workers remember
    tokens,     \* number of lease tokens minted (uuid4().hex)
    rows,       \* number of stage_runs rows inserted (rowid)
    now,        \* the clock
    starts,     \* history: how many times work on the attempt was authorised
    starter,    \* history: the token that marked the attempt started
    closer      \* history: the token that moved the attempt out of its lease

ledger  == <<instance, run, evidence, decided, published, artifacts>>
history == <<starts, starter, closer>>
vars    == <<ledger, grants, tokens, rows, now, history>>

\* Timestamps a call may carry: explicit ones can trail the clock.
CallTimes == {t \in 0..now : now - t <= MaxLag}

AbsentRow == [status |-> "absent", owner |-> NoOwner, token |-> 0,
              expires |-> 0, approval |-> FALSE, retryAt |-> 0,
              failure |-> "none", seq |-> 0]

QueuedRow(retryAt) == [AbsentRow EXCEPT !.status = "queued",
                                        !.retryAt = retryAt,
                                        !.seq = rows + 1]

\* A row whose lease columns are set to NULL and whose status becomes `status`.
Released(row, status) == [row EXCEPT !.status = status, !.owner = NoOwner,
                                     !.token = 0, !.expires = 0]

Present(r) == run[r].status # "absent"

\* next_stage_attempt: MAX(attempt) + 1 of the stage.
IsNextAttempt(r) ==
    /\ \A n \in Attempts : n >= AttemptOf(r) => ~Present(<<r[1], r[2], n>>)
    /\ AttemptOf(r) > 1 => Present(<<r[1], r[2], r[3] - 1>>)

\* ORDER BY attempt DESC LIMIT 1
IsLatestAttempt(r) ==
    /\ Present(r)
    /\ \A n \in Attempts : n > AttemptOf(r) => ~Present(<<r[1], r[2], n>>)

\* Mutant of Authorises: the owner is compared, the token is not.
AuthorisesOwner(g, permitted, at) ==
    /\ g \in grants
    /\ run[g.run].owner = g.owner
    /\ run[g.run].status \in permitted
    /\ run[g.run].expires > at

\* _require_leased_run: token, owner, status and expiry at the mutation time.
Authorises(g, permitted, at) ==
    /\ g \in grants
    /\ run[g.run].token = g.token
    /\ run[g.run].owner = g.owner
    /\ run[g.run].status \in permitted
    /\ run[g.run].expires > at

FailedStatus(failure) == IF failure = "invalid_output" THEN failure ELSE "failed"

-----------------------------------------------------------------------------
(* Instances                                                               *)

\* Instance i is written with a status and a current stage.
Stand(i, status, s) ==
    instance' = [instance EXCEPT ![i] = [@ EXCEPT !.status = status, !.stage = s]]

InsertWorkflowInstance(i, s) ==
    /\ instance[i].status = "absent"
    /\ Stand(i, "running", s)
    /\ UNCHANGED <<run, evidence, decided, published, artifacts, grants,
                   tokens, rows, now, history>>

\* update_workflow_instance writes whatever it is given: no previous status,
\* epoch or stage is compared.
UpdateWorkflowInstance(i, status, s) ==
    /\ instance[i].status # "absent"
    /\ Stand(i, status, s)
    /\ UNCHANGED <<run, evidence, decided, published, artifacts, grants,
                   tokens, rows, now, history>>

\* Mutant of Superseded: the lease columns are left on the retired attempt.
SupersededKeepingLease(i) ==
    [r \in Runs |-> IF InstanceOf(r) = i /\ run[r].status \in Unfinished
                    THEN [run[r] EXCEPT !.status = "superseded"]
                    ELSE run[r]]

\* Common to cancel and park: unfinished attempts of i become superseded.
Superseded(i) ==
    [r \in Runs |-> IF InstanceOf(r) = i /\ run[r].status \in Unfinished
                    THEN Released(run[r], "superseded")
                    ELSE run[r]]

CancelWorkflowInstance(i, force) ==
    /\ instance[i].status # "absent"
    /\ instance[i].status \in TerminalInstance => force
    /\ run' = Superseded(i)
    /\ Stand(i, "cancelled", NoStage)
    /\ UNCHANGED <<evidence, decided, published, artifacts, grants, tokens,
                   rows, now, history>>

ParkStaleWorkflowInstance(i) ==
    /\ instance[i].status \notin TerminalInstance \cup {"absent", "blocked"}
    /\ run' = Superseded(i)
    /\ Stand(i, "blocked", NoStage)
    /\ UNCHANGED <<evidence, decided, published, artifacts, grants, tokens,
                   rows, now, history>>

-----------------------------------------------------------------------------
(* Queueing, claiming and starting attempts                                *)

\* insert_stage_run: only the primary key and UNIQUE(instance, stage, attempt)
\* refuse a row.
InsertStageRun(r) ==
    /\ instance[InstanceOf(r)].status # "absent"
    /\ ~Present(r)
    /\ rows < MaxRows
    /\ run' = [run EXCEPT ![r] = QueuedRow(0)]
    /\ rows' = rows + 1
    /\ UNCHANGED <<instance, evidence, decided, published, artifacts, grants,
                   tokens, now, history>>

\* Mutant of ClaimNextQueuedRun: the token is derived from the row.
ClaimWithRowToken(r, o, at) ==
    /\ run[r].status = "queued"
    /\ run[r].retryAt <= at
    /\ tokens < MaxClaims
    /\ tokens' = tokens + 1
    /\ run' = [run EXCEPT ![r] = [@ EXCEPT !.status = "claimed", !.owner = o,
                                          !.token = run[r].seq,
                                          !.expires = at + LeaseSeconds]]
    /\ grants' = grants \cup {[run |-> r, owner |-> o, token |-> run[r].seq,
                               expires |-> at + LeaseSeconds]}
    /\ UNCHANGED <<instance, evidence, decided, published, artifacts, rows,
                   now, history>>

\* claim_next_queued_run.  The platform predicate and the instance filter of
\* the callers may pass over older rows, so any due queued row may be taken.
ClaimNextQueuedRun(r, o, at) ==
    /\ run[r].status = "queued"
    /\ run[r].retryAt <= at
    /\ tokens < MaxClaims
    /\ tokens' = tokens + 1
    /\ run' = [run EXCEPT ![r] = [@ EXCEPT !.status = "claimed", !.owner = o,
                                          !.token = tokens + 1,
                                          !.expires = at + LeaseSeconds]]
    /\ grants' = grants \cup {[run |-> r, owner |-> o, token |-> tokens + 1,
                               expires |-> at + LeaseSeconds]}
    /\ UNCHANGED <<instance, evidence, decided, published, artifacts, rows,
                   now, history>>

\* Mutant of RenewLease: the renewal extends the old expiry.
RenewFromExpiry(g, at) ==
    /\ Authorises(g, ActiveLease, at)
    /\ run' = [run EXCEPT ![g.run].expires = g.expires + LeaseSeconds]
    /\ grants' = (grants \ {g}) \cup {[g EXCEPT !.expires = g.expires + LeaseSeconds]}
    /\ UNCHANGED <<instance, evidence, decided, published, artifacts, tokens,
                   rows, now, history>>

RenewLease(g, at) ==
    /\ Authorises(g, ActiveLease, at)
    /\ run' = [run EXCEPT ![g.run].expires = at + LeaseSeconds]
    /\ grants' = (grants \ {g}) \cup {[g EXCEPT !.expires = at + LeaseSeconds]}
    /\ UNCHANGED <<instance, evidence, decided, published, artifacts, tokens,
                   rows, now, history>>

\* mark_stage_run_started: past this the attempt may have had an effect.
MarkStageRunStarted(g, at) ==
    /\ Authorises(g, {"claimed"}, at)
    /\ run' = [run EXCEPT ![g.run].status = "started"]
    /\ evidence' = evidence \cup {g.run}
    /\ starts' = [starts EXCEPT ![g.run] = @ + 1]
    /\ starter' = [starter EXCEPT ![g.run] = g.token]
    /\ UNCHANGED <<instance, decided, published, artifacts, grants, tokens,
                   rows, now, closer>>

\* record_adapter_invocation(_started) looks at no lease: a worker that was
\* swept after it started still writes here.
RecordAdapterInvocation(g) ==
    /\ g \in grants
    /\ run[g.run].token = g.token \/ starter[g.run] = g.token
    /\ evidence' = evidence \cup {g.run}
    /\ UNCHANGED <<instance, run, decided, published, artifacts, grants,
                   tokens, rows, now, history>>

\* record_receipt looks at no lease either.  The receipt of a handler registers
\* its artifacts ...
RecordHandlerReceipt(g) ==
    /\ g \in grants
    /\ starter[g.run] = g.token
    /\ artifacts' = artifacts \cup {g.run}
    /\ UNCHANGED <<instance, run, evidence, decided, published, grants,
                   tokens, rows, now, history>>

\* ... and the receipt of a succeeded surface operation makes a gate restorable
\* and registers the note, if the surface reports one as an artifact.
RecordPublishReceipt(r) ==
    /\ run[r].approval
    /\ published' = published \cup {r}
    /\ artifacts' \in {artifacts, artifacts \cup {r}}
    /\ UNCHANGED <<instance, run, evidence, decided, grants, tokens, rows, now,
                   history>>

-----------------------------------------------------------------------------
(* Terminal mutations: the holder of a live lease settles its attempt      *)

Settle(g, row) ==
    /\ run' = [run EXCEPT ![g.run] = row]
    /\ closer' = [closer EXCEPT ![g.run] = g.token]
    /\ UNCHANGED <<instance, evidence, decided, published, artifacts, grants,
                   tokens, rows, now, starts, starter>>

CompleteStageRun(g, at) ==
    /\ Authorises(g, ActiveLease, at)
    /\ Settle(g, Released(run[g.run], "succeeded"))

FailStageRun(g, failure, at) ==
    /\ Authorises(g, ActiveLease, at)
    /\ Settle(g, [Released(run[g.run], FailedStatus(failure))
                    EXCEPT !.failure = failure, !.retryAt = 0])

BlockStageRun(g, failure, approval, at) ==
    /\ Authorises(g, ActiveLease, at)
    /\ Settle(g, [Released(run[g.run], "blocked")
                    EXCEPT !.failure = failure, !.approval = approval])

WaitStageRunForHumanDecision(g, at) ==
    /\ Authorises(g, ActiveLease, at)
    /\ Settle(g, [Released(run[g.run], "waiting_on_human")
                    EXCEPT !.failure = "other", !.approval = TRUE])

\* schedule_retry settles the attempt and appends the next one.
ScheduleRetry(g, failure, delay, at) ==
    LET i == InstanceOf(g.run)
        s == StageOf(g.run)
    IN  /\ Authorises(g, ActiveLease, at)
        /\ \E n \in Attempts :
             /\ IsNextAttempt(<<i, s, n>>)
             /\ run' = [run EXCEPT
                         ![g.run] = [Released(@, FailedStatus(failure))
                                       EXCEPT !.failure = failure,
                                              !.retryAt = at + delay],
                         ![<<i, s, n>>] = QueuedRow(at + delay)]
        /\ rows < MaxRows /\ rows' = rows + 1
        /\ closer' = [closer EXCEPT ![g.run] = g.token]
        /\ UNCHANGED <<instance, evidence, decided, published, artifacts,
                       grants, tokens, now, starts, starter>>

-----------------------------------------------------------------------------
(* Stale-lease recovery                                                    *)

\* Mutant of Expired: a lease is swept one tick early.
ExpiredEarly(r, at) == run[r].token # 0 /\ run[r].expires - 1 <= at

Expired(r, at) == run[r].token # 0 /\ run[r].expires <= at

\* Mutant of Replayable: the status alone decides.
ReplayableByStatus(r) == run[r].status = "claimed"

\* Mutant of Replayable: a started attempt is offered again.
ReplayableAfterStart(r) == run[r].status \in ActiveLease

\* Only a claim that shows no sign of a start may be replayed.
Replayable(r) == run[r].status = "claimed" /\ r \notin evidence

\* Mutant of Recovered: the blocked attempt does not ask for approval.
RecoveredWithoutApproval(r) ==
    IF Replayable(r)
    THEN [Released(run[r], "queued")
            EXCEPT !.failure = "stale_lease", !.approval = FALSE]
    ELSE [Released(run[r], "blocked")
            EXCEPT !.failure = "unknown_side_effect_state", !.approval = FALSE]

Recovered(r) ==
    IF Replayable(r)
    THEN [Released(run[r], "queued")
            EXCEPT !.failure = "stale_lease", !.approval = FALSE]
    ELSE [Released(run[r], "blocked")
            EXCEPT !.failure = "unknown_side_effect_state", !.approval = TRUE]

SweptRuns(i, at) == {r \in Runs : InstanceOf(r) = i /\ Expired(r, at)}

SweepBlocks(i, at) ==
    /\ instance[i].status \notin TerminalInstance \cup {"blocked"}
    /\ \E r \in SweptRuns(i, at) :
         ~Replayable(r) /\ StageOf(r) = instance[i].stage

SweepStaleLeases(at) ==
    /\ \E r \in Runs : Expired(r, at)
    /\ run' = [r \in Runs |-> IF Expired(r, at) THEN Recovered(r) ELSE run[r]]
    /\ instance' = [i \in Instances |->
                     [instance[i] EXCEPT
                       !.epoch = @ + Cardinality(SweptRuns(i, at)),
                       !.status = IF SweepBlocks(i, at) THEN "blocked" ELSE @]]
    /\ UNCHANGED <<evidence, decided, published, artifacts, grants, tokens,
                   rows, now, history>>

\* terminalize_blocked_current_stages joins every attempt of the current
\* stage, not only the latest one.
StuckAtCurrentStage(i) ==
    /\ instance[i].status \notin TerminalInstance \cup {"absent", "blocked"}
    /\ \E r \in Runs : /\ InstanceOf(r) = i
                       /\ StageOf(r) = instance[i].stage
                       /\ run[r].status \in {"blocked", "failed", "invalid_output"}

TerminalizeBlockedCurrentStages ==
    /\ \E i \in Instances : StuckAtCurrentStage(i)
    /\ instance' = [i \in Instances |->
                     IF StuckAtCurrentStage(i)
                     THEN [instance[i] EXCEPT !.status = "blocked"]
                     ELSE instance[i]]
    /\ UNCHANGED <<run, evidence, decided, published, artifacts, grants,
                   tokens, rows, now, history>>

-----------------------------------------------------------------------------
(* Human gates                                                             *)

\* record_human_decision checks only the uniqueness of the approval id; its
\* callers found r waiting some time before.
RecordHumanDecision(r) ==
    /\ run[r].approval
    /\ decided' = decided \cup {r}
    /\ UNCHANGED <<instance, run, evidence, published, artifacts, grants,
                   tokens, rows, now, history>>

\* Mutant of CompleteWaitingHumanStageRun: the caller's own check is trusted.
CompleteGateUnchecked(r, status, failure) ==
    /\ run[r].approval
    /\ run' = [run EXCEPT ![r] = [@ EXCEPT !.status = status, !.failure = failure]]
    /\ UNCHANGED <<instance, evidence, decided, published, artifacts, grants,
                   tokens, rows, now, history>>

CompleteWaitingHumanStageRun(r, status, failure) ==
    /\ run[r].status = "waiting_on_human"
    /\ run' = [run EXCEPT ![r] = [@ EXCEPT !.status = status, !.failure = failure]]
    /\ UNCHANGED <<instance, evidence, decided, published, artifacts, grants,
                   tokens, rows, now, history>>

-----------------------------------------------------------------------------
(* Operator repair                                                         *)

\* The instance runs again at stage s, in the next recovery epoch.
Resume(i, s) ==
    instance' = [instance EXCEPT ![i] = [status |-> "running", stage |-> s,
                                        epoch |-> @.epoch + 1]]

\* Latest attempt r of the stage the instance stands on.
AtCurrentStage(r) ==
    /\ StageOf(r) = instance[InstanceOf(r)].stage
    /\ IsLatestAttempt(r)

NextOf(r) == <<r[1], r[2], r[3] + 1>>

\* A fresh attempt is appended behind r, whose own row becomes `row`.
AppendAttempt(r, row) ==
    /\ NextOf(r) \in Runs
    /\ rows < MaxRows
    /\ run' = [run EXCEPT ![r] = row, ![NextOf(r)] = QueuedRow(0)]
    /\ rows' = rows + 1
    /\ UNCHANGED <<evidence, decided, published, artifacts, grants, tokens,
                   now, history>>

RetryBlockedHumanGate(r) ==
    /\ instance[InstanceOf(r)].status = "blocked"
    /\ AtCurrentStage(r)
    /\ run[r].status = "blocked" /\ run[r].approval
    /\ r \notin decided
    /\ AppendAttempt(r, run[r])
    /\ Resume(InstanceOf(r), StageOf(r))

\* Mutant of ReissueWaitingHumanGate: the old gate attempt keeps waiting.
ReissueBesideWaitingGate(r) ==
    /\ instance[InstanceOf(r)].status = "waiting_on_human"
    /\ AtCurrentStage(r)
    /\ run[r].status = "waiting_on_human" /\ run[r].approval
    /\ r \notin decided
    /\ AppendAttempt(r, run[r])
    /\ Resume(InstanceOf(r), StageOf(r))

ReissueWaitingHumanGate(r) ==
    /\ instance[InstanceOf(r)].status = "waiting_on_human"
    /\ AtCurrentStage(r)
    /\ run[r].status = "waiting_on_human" /\ run[r].approval
    /\ r \notin decided
    /\ AppendAttempt(r, [run[r] EXCEPT !.status = "blocked", !.failure = "other"])
    /\ Resume(InstanceOf(r), StageOf(r))

RestorePublishedHumanGateWaiting(r) ==
    /\ instance[InstanceOf(r)].status = "blocked"
    /\ AtCurrentStage(r)
    /\ run[r].status = "blocked" /\ run[r].approval
    /\ r \notin decided
    /\ r \in published
    /\ run' = [run EXCEPT ![r] = [@ EXCEPT !.status = "waiting_on_human",
                                          !.failure = "none"]]
    /\ Stand(InstanceOf(r), "waiting_on_human", StageOf(r))
    /\ UNCHANGED <<evidence, decided, published, artifacts, grants, tokens,
                   rows, now, history>>

\* reauthorised: operator_reauthorized; diagnostic: the exact diagnostic
\* artifact evidence checks out (runtime adapter, failed source receipt, hashes).
RetryBlockedStageWithoutEffect(r, reauthorised, diagnostic) ==
    /\ instance[InstanceOf(r)].status = "blocked"
    /\ AtCurrentStage(r)
    /\ run[r].status \in {"blocked", "failed", "invalid_output"}
    /\ run[r].approval => reauthorised
    /\ r \in artifacts => /\ reauthorised /\ diagnostic
                          /\ AdapterFamily[StageOf(r)] = "runtime"
    /\ AppendAttempt(r, run[r])
    /\ Resume(InstanceOf(r), StageOf(r))

\* queue_local_preparation_repair: back to checkpoint c before the blocked
\* review r, crossing only lane and surface work.
QueueLocalPreparationRepair(r, c) ==
    LET i       == InstanceOf(r)
        crossed == {x \in Runs : /\ InstanceOf(x) = i /\ Present(x)
                                 /\ run[x].seq >= run[c].seq}
    IN  /\ InstanceOf(c) = i
        /\ instance[i].status = "blocked"
        /\ AtCurrentStage(r)
        /\ run[r].status = "blocked" /\ run[r].failure = "invalid_output"
        /\ AdapterFamily[StageOf(r)] = "surface"
        /\ run[c].status = "succeeded" /\ AdapterFamily[StageOf(c)] = "lane"
        /\ run[c].seq < run[r].seq
        /\ \A x \in crossed : /\ AdapterFamily[StageOf(x)] \in {"lane", "surface"}
                              /\ run[x].token = 0
                              /\ x \notin decided
        /\ \A x \in Runs : InstanceOf(x) = i => run[x].status \notin Unfinished
        /\ \E n \in Attempts :
             LET next == <<i, StageOf(c), n>>
             IN  /\ IsNextAttempt(next)
                 /\ run' = [run EXCEPT ![next] = QueuedRow(0)]
        /\ rows < MaxRows /\ rows' = rows + 1
        /\ Resume(i, StageOf(c))
        /\ UNCHANGED <<evidence, decided, published, artifacts, grants, tokens,
                       now, history>>

-----------------------------------------------------------------------------
Tick ==
    /\ now < MaxTime
    /\ now' = now + 1
    /\ UNCHANGED <<ledger, grants, tokens, rows, history>>

Init ==
    /\ instance = [i \in Instances |->
                    [status |-> "absent", stage |-> NoStage, epoch |-> 0]]
    /\ run = [r \in Runs |-> AbsentRow]
    /\ evidence = {} /\ decided = {} /\ published = {} /\ artifacts = {}
    /\ grants = {}
    /\ tokens = 0 /\ rows = 0 /\ now = 0
    /\ starts = [r \in Runs |-> 0]
    /\ starter = [r \in Runs |-> 0]
    /\ closer = [r \in Runs |-> 0]

HandlerFailures == {"invalid_output", "other"}

InstanceStep == \E i \in Instances :
    \/ \E s \in Stages : InsertWorkflowInstance(i, s)
    \/ \E st \in TerminalInstance : UpdateWorkflowInstance(i, st, NoStage)
    \/ \E st \in {"running", "retrying", "waiting_on_human", "blocked"},
         s \in Stages : UpdateWorkflowInstance(i, st, s)
    \/ \E force \in BOOLEAN : CancelWorkflowInstance(i, force)
    \/ ParkStaleWorkflowInstance(i)

QueueStep == \E r \in Runs :
    \/ IsNextAttempt(r) /\ InsertStageRun(r)
    \/ \E o \in Owners, at \in CallTimes : ClaimNextQueuedRun(r, o, at)

LeaseStep == \E g \in grants :
    \/ RecordAdapterInvocation(g)
    \/ RecordHandlerReceipt(g)
    \/ \E at \in CallTimes :
         \/ RenewLease(g, at)
         \/ MarkStageRunStarted(g, at)
         \/ CompleteStageRun(g, at)
         \/ WaitStageRunForHumanDecision(g, at)
         \/ \E f \in HandlerFailures :
              \/ FailStageRun(g, f, at)
              \/ \E approval \in BOOLEAN : BlockStageRun(g, f, approval, at)
              \/ BlockStageRun(g, "unknown_side_effect_state", TRUE, at)
              \/ \E d \in RetryDelays : ScheduleRetry(g, f, d, at)

RecoveryStep ==
    \/ \E at \in CallTimes : SweepStaleLeases(at)
    \/ TerminalizeBlockedCurrentStages

GateStep == \E r \in Runs :
    \/ RecordPublishReceipt(r)
    \/ RecordHumanDecision(r)
    \/ CompleteWaitingHumanStageRun(r, "succeeded", "none")
    \/ CompleteWaitingHumanStageRun(r, "blocked", "other")

OperatorStep == \E r \in Runs :
    \/ RetryBlockedHumanGate(r)
    \/ ReissueWaitingHumanGate(r)
    \/ RestorePublishedHumanGateWaiting(r)
    \/ \E reauthorised, diagnostic \in BOOLEAN :
         RetryBlockedStageWithoutEffect(r, reauthorised, diagnostic)
    \/ \E c \in Runs : QueueLocalPreparationRepair(r, c)

Next == \/ InstanceStep \/ QueueStep \/ LeaseStep
        \/ RecoveryStep \/ GateStep \/ OperatorStep \/ Tick

Spec == Init /\ [][Next]_vars

-----------------------------------------------------------------------------
(* Properties                                                              *)

Row == [status : RunStatus, owner : Owners \cup {NoOwner},
        token : 0..MaxClaims, expires : 0..(MaxTime + LeaseSeconds),
        approval : BOOLEAN, retryAt : Nat, failure : FailureClass, seq : Nat]

Grant == [run : Runs, owner : Owners, token : 1..MaxClaims,
          expires : 0..(MaxTime + LeaseSeconds)]

InstanceRow == [status : InstanceStatus, stage : Stages \cup {NoStage}, epoch : Nat]

\* Every column holds a value of its domain; leases end within one lease
\* duration of the clock.
TypeOK ==
    /\ instance \in [Instances -> InstanceRow]
    /\ run \in [Runs -> Row]
    /\ evidence \subseteq Runs /\ decided \subseteq Runs
    /\ published \subseteq Runs /\ artifacts \subseteq Runs
    /\ grants \subseteq Grant
    /\ tokens \in 0..MaxClaims /\ rows \in 0..MaxRows /\ now \in 0..MaxTime
    /\ starts \in [Runs -> Nat]
    /\ starter \in [Runs -> 0..MaxClaims]
    /\ closer \in [Runs -> 0..MaxClaims]

\* An attempt carries a lease exactly while its status is one a lease
\* protects: every path out of claimed/started, the operator's included,
\* clears owner, token and expiry, and no path enters without them.
LeaseIffActive == \A r \in Runs :
    /\ (run[r].token # 0) <=> (run[r].status \in ActiveLease)
    /\ (run[r].owner # NoOwner) <=> (run[r].token # 0)
    /\ (run[r].expires # 0) => (run[r].token # 0)

\* "stale-lease recovery must assume adapter or handler work may have started
\* and must not blindly requeue the attempt": an attempt offered to workers
\* bears no trace of a start, whichever worker died or wrote late.
QueuedIsUntouched == \A r \in Runs :
    run[r].status = "queued" => r \notin evidence /\ starts[r] = 0

\* Whoever settles a started attempt is the worker whose claim started it:
\* a claim lost to the sweep never settles somebody else's execution, even
\* one of the same owner.
StarterSettles == \A r \in Runs :
    starts[r] # 0 /\ closer[r] # 0 => closer[r] = starter[r]

\* Two workers never both hold an unexpired lease on one attempt: when a
\* later claim of the attempt exists, the earlier one had run out by the
\* clock, renewals and trailing caller clocks included.
LeasesDoNotOverlap == \A g, h \in grants :
    g.run = h.run /\ g.token < h.token => g.expires <= now

\* An execution that was cut off (lease gone, not settled by its worker and
\* not retired by cancel or park) waits for a person: it is blocked with
\* approval required, or already reached a gate.
CutOffNeedsApproval == \A r \in Runs :
    starts[r] # 0 /\ closer[r] = 0 =>
        \/ run[r].status \in {"started", "superseded"}
        \/ run[r].approval

\* The phase of an attempt whose row has this status.
PhaseOf(status) ==
    CASE status = "absent" -> "none"
      [] status \in {"queued", "claimed"} -> "pending"
      [] status = "started" -> "executing"
      [] status = "waiting_on_human" -> "parked"
      [] status = "succeeded" -> "succeeded"
      [] OTHER -> "aborted"

Execution == INSTANCE StageExecution
    WITH phase <- [r \in Runs |-> PhaseOf(run[r].status)], executions <- starts

\* The ledger implements at-most-once execution with final successes.
AtMostOnceExecution == Execution!Spec

\* A settled attempt keeps its verdict whatever is called on it; only a
\* published and undecided gate attempt returns from blocked to waiting.
SettledRunsAreFinal == [][\A r \in Runs :
    run[r].status \in {"succeeded", "failed", "invalid_output", "blocked",
                       "superseded"} /\ run'[r].status # run[r].status
    => /\ run[r].status = "blocked" /\ run'[r].status = "waiting_on_human"
       /\ r \in published \ decided]_vars

=============================================================================
