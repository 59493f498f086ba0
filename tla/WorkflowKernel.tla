---------------------------- MODULE WorkflowKernel ----------------------------
(***************************************************************************)
(* WorkflowKernel and WorkflowRunner (kernel.py, runner.py) driving one    *)
(* ledger from several operating-system processes.                         *)
(*                                                                         *)
(* A worker process repeats run_once: sweep, claim, mark started, run the  *)
(* handler (which invokes the adapter), record the receipt, settle the     *)
(* attempt, then advance the instance.  A clerk process ingests human      *)
(* decisions.  Operators cancel, park and repair.  Every ledger call is    *)
(* its own transaction, so processes interleave between any two calls, and *)
(* a process may die between any two calls.                                *)
(*                                                                         *)
(* The choice of a route stands for the stage outcome, the transition      *)
(* table and the transition guards; the decision of a handler stands for   *)
(* policy, prompt, adapter and output validation.                          *)
(***************************************************************************)
EXTENDS WorkflowLedger

CONSTANTS
    Workers,        \* processes calling run_once (a subset of Owners)
    Clerks,         \* processes calling ingest_human_decision
    Gates,          \* the human_gate stages
    FirstStage,
    Routes,         \* [Stages -> targets its transitions lead to]
    RetryAttempts,  \* max_attempts of the retry policy
    Repairs,        \* operator operations in use
    MaxCrashes      \* bound: process deaths

Procs == Workers \cup Clerks

AllRepairs == {"cancel", "park", "retry", "reissue", "restore", "terminalize"}

ASSUME ProcessesAreOwners == Workers \subseteq Owners
ASSUME WorkflowIsWellFormed ==
    /\ FirstStage \in Stages /\ Gates \subseteq Stages
    /\ Routes \in [Stages -> SUBSET (Stages \cup TerminalInstance)]
ASSUME KernelBounds == /\ RetryAttempts \in Nat /\ MaxCrashes \in Nat
                       /\ MaxAttempt > 0
ASSUME RepairsAreKnown == Repairs \subseteq AllRepairs

VARIABLES
    pc,       \* where each process is between two ledger calls
    job,      \* what it holds in memory
    effects,  \* history: adapter invocations per attempt
    crashes

local == <<pc, job, effects, crashes>>
kvars == <<vars, local>>

NoGrant == [run |-> <<>>, owner |-> NoOwner, token |-> 0, expires |-> 0]
NoWrite == [status |-> "none", stage |-> NoStage]
NoJob   == [grant |-> NoGrant, run |-> <<>>, verdict |-> "none",
            next |-> <<>>, write |-> NoWrite]

Write(status, s) == [status |-> status, stage |-> s]

\* Process p moves on to `to`, remembering j.
Goto(p, to, j) ==
    /\ pc' = [pc EXCEPT ![p] = to]
    /\ job' = [job EXCEPT ![p] = j]
    /\ UNCHANGED crashes

\* p gives up (an exception propagates) or ends its call.
Stop(p) == Goto(p, "idle", NoJob)

-----------------------------------------------------------------------------
(* start: the instance row, then the first attempt, in two transactions    *)

StartWorkflow(p, i) ==
    /\ pc[p] = "idle"
    /\ InsertWorkflowInstance(i, FirstStage)
    /\ Goto(p, "inserting", [NoJob EXCEPT !.next = <<i, FirstStage, 1>>])
    /\ UNCHANGED effects

-----------------------------------------------------------------------------
(* run_once: up to the handler                                             *)

SweepFirst(w) ==
    /\ pc[w] = "idle"
    /\ \/ SweepStaleLeases(now)
       \/ (\A r \in Runs : ~Expired(r, now)) /\ UNCHANGED vars
    /\ Goto(w, "swept", NoJob)
    /\ UNCHANGED effects

Claim(w) ==
    /\ pc[w] = "swept"
    /\ \E r \in Runs :
         /\ ClaimNextQueuedRun(r, w, now)
         /\ \E g \in grants' \ grants :
              Goto(w, "claimed", [NoJob EXCEPT !.grant = g, !.run = r])
    /\ UNCHANGED effects

NothingToClaim(w) ==
    /\ pc[w] = "swept"
    /\ \A r \in Runs : run[r].status = "queued" => run[r].retryAt > now
    /\ Stop(w)
    /\ UNCHANGED <<vars, effects>>

MarkStarted(w) ==
    LET j == job[w]
    IN  /\ pc[w] = "claimed"
        /\ IF Authorises(j.grant, {"claimed"}, now)
           THEN MarkStageRunStarted(j.grant, now) /\ Goto(w, "handling", j)
           ELSE Stop(w) /\ UNCHANGED vars
        /\ UNCHANGED effects

\* The handler stops before any adapter: a gate waits; a changed definition, a
\* missing adapter or prompt, or a policy verdict blocks; an exception fails.
HandlerStopsEarly(w) ==
    LET atGate == StageOf(job[w].run) \in Gates
    IN  /\ pc[w] = "handling"
        /\ \E v \in IF atGate THEN {"waiting", "blocked", "failed"}
                     ELSE {"approval", "blocked", "failed"} :
             Goto(w, "settling", [job[w] EXCEPT !.verdict = v])
        /\ UNCHANGED <<vars, effects>>

RecordInvocation(w) ==
    /\ pc[w] = "handling"
    /\ StageOf(job[w].run) \notin Gates
    /\ RecordAdapterInvocation(job[w].grant)
    /\ Goto(w, "invoking", job[w])
    /\ UNCHANGED effects

\* The adapter acts and answers; its answer is judged (retry policy, output
\* contract) in memory.  Nothing re-reads the lease around the call.
Verdicts(r) == {"succeeded", "failed", "invalid_output", "blocked"}
               \cup IF AttemptOf(r) < RetryAttempts THEN {"retry", "approval"} ELSE {}

InvokeAdapter(w) ==
    /\ pc[w] = "invoking"
    /\ \E v \in Verdicts(job[w].run) :
         Goto(w, "reporting", [job[w] EXCEPT !.verdict = v])
    /\ effects' = [effects EXCEPT ![job[w].run] = @ + 1]
    /\ UNCHANGED vars

\* record_receipt comes before the lease is looked at again.
ReportReceipt(w) ==
    /\ pc[w] = "reporting"
    /\ RecordHandlerReceipt(job[w].grant) \/ UNCHANGED vars
    /\ Goto(w, "settling", job[w])
    /\ UNCHANGED effects

-----------------------------------------------------------------------------
(* run_once: settling the attempt, then writing the instance               *)

SettleBy(g, v) ==
    CASE v = "succeeded"      -> CompleteStageRun(g, now)
      [] v = "waiting"        -> WaitStageRunForHumanDecision(g, now)
      [] v = "retry"          -> \E d \in RetryDelays : ScheduleRetry(g, "other", d, now)
      [] v = "blocked"        -> BlockStageRun(g, "other", FALSE, now)
      [] v = "approval"       -> BlockStageRun(g, "unknown_side_effect_state", TRUE, now)
      [] v = "failed"         -> FailStageRun(g, "other", now)
      [] v = "invalid_output" -> FailStageRun(g, "invalid_output", now)

\* Mutant of StatusAfter: a stage that fails leaves the instance running.
StatusAfterLeavesRunning(v, s) ==
    CASE v = "waiting" -> "waiting_on_human"
      [] v = "retry"   -> "retrying"
      [] v = "failed"  -> "running"
      [] OTHER         -> "blocked"

\* The status run_once then writes; a blocked gate is written as waiting.
StatusAfter(v, s) ==
    CASE v = "waiting" -> "waiting_on_human"
      [] v = "retry"   -> "retrying"
      [] v \in {"blocked", "approval"} /\ s \in Gates -> "waiting_on_human"
      [] OTHER         -> "blocked"

SettleAttempt(w) ==
    LET j == job[w]
        s == StageOf(j.run)
    IN  /\ pc[w] = "settling"
        /\ IF Authorises(j.grant, ActiveLease, now)
           THEN /\ SettleBy(j.grant, j.verdict)
                /\ IF j.verdict = "succeeded"
                   THEN Goto(w, "advancing", j)
                   ELSE Goto(w, "updating",
                             [j EXCEPT !.write = Write(StatusAfter(j.verdict, s), s)])
           ELSE Stop(w) /\ UNCHANGED vars
        /\ UNCHANGED effects

\* Mutant of Advance: the attempt number counts the instance's rows.
AdvanceCountingRows(p) ==
    LET r == job[p].run
        i == InstanceOf(r)
        To(status, s) == Goto(p, "updating",
                              [job[p] EXCEPT !.write = Write(status, s)])
    IN  /\ pc[p] = "advancing"
        /\ \/ To("blocked", StageOf(r))
           \/ \E t \in Routes[StageOf(r)] \cap TerminalInstance : To(t, NoStage)
           \/ \E s \in Routes[StageOf(r)] \cap Stages, n \in Attempts :
                /\ n = 1 + Cardinality({x \in Runs : InstanceOf(x) = i /\ Present(x)})
                /\ Goto(p, "inserting",
                        [job[p] EXCEPT !.next = <<i, s, n>>,
                                       !.write = Write("running", s)])
        /\ UNCHANGED <<vars, effects>>

\* _advance_after_outcome.  A missing transition, an unknown target or a
\* denied guard blocks at the stage; a terminal ends the instance; otherwise
\* the next attempt number is read for the insert that follows.
Advance(p) ==
    LET r == job[p].run
        i == InstanceOf(r)
        To(status, s) == Goto(p, "updating",
                              [job[p] EXCEPT !.write = Write(status, s)])
    IN  /\ pc[p] = "advancing"
        /\ \/ To("blocked", StageOf(r))
           \/ \E t \in Routes[StageOf(r)] \cap TerminalInstance : To(t, NoStage)
           \/ \E s \in Routes[StageOf(r)] \cap Stages, n \in Attempts :
                /\ IsNextAttempt(<<i, s, n>>)
                /\ Goto(p, "inserting",
                        [job[p] EXCEPT !.next = <<i, s, n>>,
                                       !.write = Write("running", s)])
        /\ UNCHANGED <<vars, effects>>

\* _queue_stage; a taken attempt number is an IntegrityError.
QueueStage(p) ==
    LET j == job[p]
    IN  /\ pc[p] = "inserting"
        /\ IF Present(j.next)
           THEN Stop(p) /\ UNCHANGED vars
           ELSE /\ InsertStageRun(j.next)
                /\ IF j.write = NoWrite THEN Stop(p)
                                        ELSE Goto(p, "updating", j)
        /\ UNCHANGED effects

\* Mutant of WriteInstance: the stage that was handled is written back.
WriteHandledStage(p) ==
    LET j == job[p]
    IN  /\ pc[p] = "updating"
        /\ UpdateWorkflowInstance(InstanceOf(j.run), j.write.status, StageOf(j.run))
        /\ Stop(p)
        /\ UNCHANGED effects

WriteInstance(p) ==
    LET j == job[p]
    IN  /\ pc[p] = "updating"
        /\ UpdateWorkflowInstance(InstanceOf(j.run), j.write.status, j.write.stage)
        /\ Stop(p)
        /\ UNCHANGED effects

-----------------------------------------------------------------------------
(* ingest_human_decision                                                   *)

\* accepted: a valid decision with a route; unrouted: valid, no transition for
\* it; invalid: refused by validation, which blocks the gate.
FindWaitingGate(c) ==
    /\ pc[c] = "idle"
    /\ \E r \in Runs, v \in {"accepted", "unrouted", "invalid"} :
         /\ run[r].status = "waiting_on_human"
         /\ Goto(c, IF v = "invalid" THEN "deciding" ELSE "recording",
                 [NoJob EXCEPT !.run = r, !.verdict = v])
    /\ UNCHANGED <<vars, effects>>

RecordDecision(c) ==
    /\ pc[c] = "recording"
    /\ RecordHumanDecision(job[c].run)
    /\ Goto(c, "deciding", job[c])
    /\ UNCHANGED effects

CompleteGate(c) ==
    LET j == job[c]
        r == j.run
    IN  /\ pc[c] = "deciding"
        /\ IF run[r].status # "waiting_on_human"
           THEN Stop(c) /\ UNCHANGED vars
           ELSE IF j.verdict = "accepted"
           THEN /\ CompleteWaitingHumanStageRun(r, "succeeded", "none")
                /\ Goto(c, "advancing", j)
           ELSE /\ CompleteWaitingHumanStageRun(r, "blocked", "other")
                /\ Goto(c, "updating",
                        [j EXCEPT !.write = Write("blocked", StageOf(r))])
        /\ UNCHANGED effects

-----------------------------------------------------------------------------
(* Operators, the review surface, crashes, time                            *)

Operate ==
    /\ \/ /\ "cancel" \in Repairs
          /\ \E i \in Instances : CancelWorkflowInstance(i, FALSE)
       \/ /\ "park" \in Repairs
          /\ \E i \in Instances : ParkStaleWorkflowInstance(i)
       \/ /\ "retry" \in Repairs
          /\ \E r \in Runs :
               \/ RetryBlockedHumanGate(r)
               \/ \E reauthorised \in BOOLEAN :
                    RetryBlockedStageWithoutEffect(r, reauthorised, FALSE)
       \/ /\ "reissue" \in Repairs
          /\ \E r \in Runs : ReissueWaitingHumanGate(r)
       \/ /\ "restore" \in Repairs
          /\ \E r \in Runs : RestorePublishedHumanGateWaiting(r)
       \/ "terminalize" \in Repairs /\ TerminalizeBlockedCurrentStages
    /\ UNCHANGED local

\* The gate's review packet is published while it waits.
PublishGate ==
    /\ "restore" \in Repairs
    /\ \E r \in Runs : /\ run[r].status = "waiting_on_human" /\ r \notin published
                       /\ RecordPublishReceipt(r)
    /\ UNCHANGED local

Crash(p) ==
    /\ pc[p] # "idle"
    /\ crashes < MaxCrashes
    /\ pc' = [pc EXCEPT ![p] = "idle"]
    /\ job' = [job EXCEPT ![p] = NoJob]
    /\ crashes' = crashes + 1
    /\ UNCHANGED <<vars, effects>>

PassTime == Tick /\ UNCHANGED local

KInit == /\ Init
         /\ pc = [p \in Procs |-> "idle"]
         /\ job = [p \in Procs |-> NoJob]
         /\ effects = [r \in Runs |-> 0]
         /\ crashes = 0

Work(w) == \/ SweepFirst(w) \/ Claim(w) \/ NothingToClaim(w) \/ MarkStarted(w)
           \/ HandlerStopsEarly(w) \/ RecordInvocation(w) \/ InvokeAdapter(w)
           \/ ReportReceipt(w) \/ SettleAttempt(w)

Ingest(c) == FindWaitingGate(c) \/ RecordDecision(c) \/ CompleteGate(c)

Finish(p) == Advance(p) \/ QueueStage(p) \/ WriteInstance(p)

KNext == \/ \E p \in Procs, i \in Instances : StartWorkflow(p, i)
         \/ \E w \in Workers : Work(w)
         \/ \E c \in Clerks : Ingest(c)
         \/ \E p \in Procs : Finish(p) \/ Crash(p)
         \/ Operate \/ PublishGate \/ PassTime

KSpec == KInit /\ [][KNext]_kvars

\* A scheduler keeps calling run_once, and a process in the middle of a call
\* goes on with it.  Nobody owes a decision, a repair or a start.
Fairness == /\ \A w \in Workers : WF_kvars(Work(w))
            /\ \A c \in Clerks : WF_kvars(RecordDecision(c) \/ CompleteGate(c))
            /\ \A p \in Procs : WF_kvars(Finish(p))

FairKSpec == KSpec /\ Fairness

-----------------------------------------------------------------------------
(* Properties                                                              *)

\* Attempts of i still open, and processes that settled one and have yet to
\* write where the instance goes next.
OpenAttempts(i) == {r \in Runs : InstanceOf(r) = i /\ run[r].status \in Unfinished}
Movers(i) == {p \in Procs : pc[p] \in {"advancing", "inserting"}
                            /\ i \in {InstanceOf(r) : r \in {job[p].run, job[p].next} \ {<<>>}}}

\* One thread of control per instance: whatever workers, clerks, sweeps,
\* crashes and operator repairs do, an instance never has two open attempts,
\* nor an open attempt while some process is about to queue another.
SingleThread == \A i \in Instances :
    Cardinality(OpenAttempts(i)) + Cardinality(Movers(i)) <= 1

\* The adapter of an attempt is invoked at most once, although stale leases,
\* slow workers and crashes interleave: "must not blindly requeue the attempt".
EffectOncePerAttempt == \A r \in Runs : effects[r] <= 1

\* An effect that no receipt of a settled attempt accounts for is never
\* followed by a further attempt of the stage unless the cut-off attempt was
\* set aside as blocked with approval required, or was retired by hand.
NoSilentReexecution == \A r \in Runs :
    /\ AttemptOf(r) < MaxAttempt /\ effects[r] # 0 /\ closer[r] = 0
    /\ Present(NextOf(r))
    => run[r].status = "superseded" \/ run[r].approval

\* The kernel only ever does to the ledger what WorkflowLedger says a caller
\* may do: attempt numbers are taken in order, invocations and receipts come
\* from claims that started, decisions name gates that waited.
UsesLedgerAsSpecified == Spec

\* Between calls, the instance stands where its open attempt is: the stage
\* pointer the repairs and the sweep rely on is right.
StandsWhereWorkIs ==
    (\A p \in Procs : pc[p] = "idle") =>
        \A r \in Runs : run[r].status \in Unfinished =>
            /\ instance[InstanceOf(r)].stage = StageOf(r)
            /\ instance[InstanceOf(r)].status \in
                 IF run[r].status = "waiting_on_human" THEN {"waiting_on_human"}
                 ELSE {"running", "retrying"}

\* "a clear stop state: done, waiting, retrying, blocked, denied, or
\* cancelled": a started instance does not stay running for ever.
ReachesStopState == \A i \in Instances :
    instance[i].status \in {"running", "retrying"}
        ~> instance[i].status \in TerminalInstance \cup {"blocked", "waiting_on_human"}

\* "another runner can resume after interruption": a completed attempt at which
\* its instance still stands as running is eventually continued from.
CompletionIsContinued == \A r \in Runs :
    LET i == InstanceOf(r)
        stands == /\ instance[i].status \in {"running", "retrying"}
                  /\ instance[i].stage = StageOf(r)
                  /\ IsLatestAttempt(r) /\ run[r].status = "succeeded"
    IN  stands ~> ~stands

\* "Terminalize an instance as cancelled": a cancelled instance stays so.
CancelIsFinal == [][\A i \in Instances :
    instance[i].status = "cancelled" => instance'[i].status = "cancelled"]_kvars

\* "Every later write must include the same lease token": a receipt of an
\* attempt is recorded only by the process that holds its lease.
ReceiptNeedsLease == [][\A w \in Workers :
    pc[w] = "reporting" /\ pc'[w] = "settling"
        => run[job[w].run].token = job[w].grant.token]_kvars

\* "the runner must stop ... rather than overwriting newer state": the
\* process that settled an attempt writes the instance only while the instance
\* still stands at that attempt's stage.
NoStaleInstanceWrite == [][\A p \in Procs :
    pc[p] = "updating" /\ pc'[p] = "idle" /\ crashes' = crashes
        => instance[InstanceOf(job[p].run)].stage = StageOf(job[p].run)]_kvars

\* "the current stage is already blocked but the workflow instance still claims
\* to be running": reconciliation blocks no instance whose current stage has an
\* attempt still to be worked on.
OnlyLimboIsTerminalized == [][TerminalizeBlockedCurrentStages =>
    \A i \in Instances : StuckAtCurrentStage(i) =>
        \A r \in OpenAttempts(i) : StageOf(r) # instance[i].stage]_kvars

\* "waiting_on_human: Human decision or approval is required": an instance left
\* waiting has a gate attempt that a decision can reach.
WaitingHasGate ==
    (\A p \in Procs : pc[p] = "idle") =>
        \A i \in Instances : instance[i].status = "waiting_on_human" =>
            \E r \in Runs : InstanceOf(r) = i /\ run[r].status = "waiting_on_human"
=============================================================================
