---------------------------- MODULE HumanGateProofs ----------------------------
(***************************************************************************)
(* What the review surface guarantees for every number of scheduled jobs,  *)
(* gates, attempts and notes, whatever people tick, processes die and      *)
(* operators reissue: a decision on record was read from a note of its     *)
(* attempt, a gate passes on such a decision only, and notes are kept.     *)
(***************************************************************************)
EXTENDS HumanGateInvariant, WorkflowKernelProofs

-----------------------------------------------------------------------------
(* What every step keeps                                                   *)

\* Process p takes no part in a step.
StaysPut(p) == pc'[p] = pc[p] /\ job'[p] = job[p]

\* A note that exists keeps what it shows.
NotesKept == \A n \in NoteIds : Exists(n) => notes'[n].print = notes[n].print

\* An attempt that has waited is never taken up again.
OpenedKept == \A r \in Runs : Opened(r) => Opened(r)'

\* A gate succeeds in this step only if its decision is on record.
SuccessesDecided == \A r \in Runs :
    StageOf(r) \in Gates /\ run'[r].status = "succeeded"
        => run[r].status = "succeeded" \/ r \in decided

\* No attempt succeeds in this step.
NoSuccess == \A r \in Runs : run'[r].status = "succeeded" => run[r].status = "succeeded"

\* An attempt, a note and their null are told apart.
LEMMA RunsAreNotNull == /\ \A r \in Runs : r # <<>>
                        /\ \A n \in NoteIds : n # NoNote /\ n[1] \in Runs
BY RunsAreTriples DEF NoteIds, NoNote

\* A choice that was read from a note can still be.
LEMMA ReadingsKept ==
    ASSUME NotesKept, NEW h, ReadFromNote(h)
    PROVE  ReadFromNote(h)'
BY DEF ReadFromNote, NotesKept, Exists

\* A job that takes no part holds what fits.
LEMMA OthersFit ==
    ASSUME KernelInv, GateInv, NotesKept, OpenedKept, decided \subseteq decided',
           NEW p \in Procs, StaysPut(p), hand'[p] = hand[p]
    PROVE  HandFits(p)' /\ StopsAtGate(p)'
<1>0. HandFits(p) /\ StopsAtGate(p) /\ hand[p] \in Held /\ Remembers(p)
  BY DEF GateInv, GateTyped, KernelInv, MemoryOK
<1>1. pc[p] \in HasNote => hand[p].note # NoNote /\ Exists(hand[p].note)'
  <2>1. hand[p].note # NoNote => hand[p].note \in NoteIds
    BY <1>0 DEF Held
  <2> QED BY <1>0, <2>1 DEF HandFits, NotesKept, Exists
<1>2. pc[p] \in {"judging", "recording"} => ReadFromNote(hand[p])'
  BY <1>0, ReadingsKept DEF HandFits
<1>3. pc[p] = "recording" => Opened(job[p].run)'
  BY <1>0 DEF HandFits, Remembers, OpenedKept, Opened, StaysPut
<1>4. HandFits(p)'
  <2>1. pc'[p] = pc[p] /\ job'[p] = job[p] /\ hand'[p] = hand[p]
    BY DEF StaysPut
  <2>2. pc'[p] = "placing" => hand'[p].print.run = job'[p].run
    BY <1>0, <2>1 DEF HandFits
  <2>3. /\ pc'[p] \in {"receipting", "posting"} => hand'[p].note[1] = job'[p].run
        /\ pc'[p] \in SurfacePlaces => job'[p].run \in Runs
    BY <1>0, <2>1 DEF HandFits
  <2>4. pc'[p] = "recording" => hand'[p].print.run = job'[p].run
    BY <1>0, <2>1 DEF HandFits
  <2>5. pc'[p] = "deciding" /\ job'[p].verdict = "accepted" => job'[p].run \in decided'
    BY <1>0, <2>1 DEF HandFits
  <2>6. pc'[p] = "recording" => Opened(job[p].run)'
    BY <1>3, <2>1
  <2>7. pc'[p] \in HasNote => hand'[p].note # NoNote /\ Exists(hand[p].note)'
    BY <1>1, <2>1
  <2>8. pc'[p] \in {"judging", "recording"} => ReadFromNote(hand[p])'
    BY <1>2, <2>1
  <2> QED BY <2>2, <2>3, <2>4, <2>5, <2>6, <2>7, <2>8 DEF HandFits
<1>5. StopsAtGate(p)'
  BY <1>0 DEF StaysPut, StopsAtGate
<1> QED BY <1>4, <1>5

\* Answers fit as long as no decision is recorded and no gate succeeds without.
LEMMA AnswersKept ==
    ASSUME GateInv, NotesKept, OpenedKept, SuccessesDecided, UNCHANGED <<decided, basis>>
    PROVE  \A r \in Runs : AnswerFits(r)'
<1> SUFFICES ASSUME NEW r \in Runs PROVE AnswerFits(r)'
  OBVIOUS
<1>1. AnswerFits(r)
  BY DEF GateInv
<1>2. r \in decided => ReadFromNote(basis[r].hand)'
  BY <1>1, ReadingsKept DEF AnswerFits
<1>3. r \in decided => Opened(r)'
  BY <1>1 DEF AnswerFits, OpenedKept
<1> QED BY <1>1, <1>2, <1>3 DEF AnswerFits, SuccessesDecided

\* No call of the ledger takes up an attempt that has waited.
LEMMA OpenedStays == TypeOK /\ LedgerInv /\ [Next]_vars => OpenedKept
<1> SUFFICES ASSUME TypeOK, LedgerInv, [Next]_vars, NEW r \in Runs, Opened(r)
             PROVE  Opened(r)'
  BY DEF OpenedKept
<1>1. CASE run'[r].status = run[r].status
  BY <1>1 DEF Opened
<1>2. CASE RowMoves(r) /\ run'[r].status # run[r].status
  <2>1. <<run[r].status, run'[r].status>> \in StatusMoves
    BY <1>2 DEF RowMoves, Stays
  <2>2. run'[r].status \notin {"absent", "claimed", "started"}
    BY <2>1, MoveFacts
  <2>3. run'[r].status = "queued" => run[r].status \in {"absent", "claimed"}
    BY <2>1, MoveFacts
  <2> QED BY <2>2, <2>3 DEF Opened
<1> QED BY <1>1, <1>2, StatusSteps DEF Opened

-----------------------------------------------------------------------------
(* What the kernel does away from the surface                              *)

KernelPlaces == Claiming \cup {"idle", "swept", "advancing", "inserting", "updating"}

\* Notes, events and held papers stay right when nobody touches them.
LEMMA SurfaceKept ==
    ASSUME GateInv, UNCHANGED surface
    PROVE  GateTyped' /\ NotesShowTheirAttempts' /\ NotesKept
<1>1. GateTyped'
  BY DEF GateInv, GateTyped, surface
<1>2. NotesShowTheirAttempts'
  BY DEF GateInv, NotesShowTheirAttempts, Exists, surface
<1>3. NotesKept
  BY DEF NotesKept, surface
<1> QED BY <1>1, <1>2, <1>3

\* A process that goes on away from the surface, and passes no verdict of
\* success on a gate, keeps the invariant.
LEMMA GoesOnElsewhere ==
    ASSUME KernelInv, GateInv, OpenedKept, SuccessesDecided, UNCHANGED <<surface, decided>>,
           NEW p \in Procs, NEW to \in KernelPlaces, NEW j, GoesOn(p, to, j),
           to \in {"invoking", "reporting"} => StageOf(j.run) \notin Gates,
           to = "settling" /\ StageOf(j.run) \in Gates =>
             j.verdict \in {"waiting", "blocked", "failed"}
    PROVE  GateInv'
<1>1. /\ pc'[p] = to /\ job'[p] = j
      /\ \A q \in Procs \ {p} : StaysPut(q)
  BY DEF GoesOn, KernelInv, MemoryOK, StaysPut
<1>2. HandFits(p)'
  BY <1>1 DEF HandFits, KernelPlaces, Claiming, SurfacePlaces, HasNote
<1>3. StopsAtGate(p)'
  BY <1>1 DEF StopsAtGate
<1>4. NotesKept
  BY SurfaceKept
<1>5. ASSUME NEW q \in Procs \ {p} PROVE HandFits(q)' /\ StopsAtGate(q)'
  BY <1>1, <1>4, OthersFit DEF surface
<1>6. \A r \in Runs : AnswerFits(r)'
  BY <1>4, AnswersKept DEF surface
<1> QED BY <1>2, <1>3, <1>5, <1>6, SurfaceKept DEF GateInv

\* So does a step without any process.
LEMMA NobodyElsewhere ==
    ASSUME KernelInv, GateInv, OpenedKept, SuccessesDecided,
           UNCHANGED <<surface, decided, pc, job>>
    PROVE  GateInv'
<1>1. NotesKept
  BY SurfaceKept
<1>2. ASSUME NEW q \in Procs PROVE HandFits(q)' /\ StopsAtGate(q)'
  BY <1>1, OthersFit DEF surface, StaysPut
<1>3. \A r \in Runs : AnswerFits(r)'
  BY <1>1, AnswersKept DEF surface
<1> QED BY <1>2, <1>3, SurfaceKept DEF GateInv

\* Where nothing succeeds, no gate succeeds without its decision.
LEMMA NoSuccessIsDecided == NoSuccess => SuccessesDecided
BY DEF NoSuccess, SuccessesDecided

\* A row that is given another status than success.
LEMMA OneRowFails ==
    ASSUME TypeOK, NEW r \in Runs, NEW row, row.status # "succeeded",
           run' = [run EXCEPT ![r] = row]
    PROVE  NoSuccess
BY DEF TypeOK, NoSuccess

\* What is known of a step of the kernel beside the surface.
Beside == /\ Known /\ GateInv /\ OpenedKept /\ UNCHANGED surface

\* run_once up to the handler.
LEMMA FetchBeside ==
    ASSUME Beside, NEW w \in Workers,
           SweepFirst(w) \/ Claim(w) \/ NothingToClaim(w) \/ MarkStarted(w)
    PROVE  GateInv'
<1> USE DEF Beside, Known
<1>0. w \in Procs
  BY DEF Procs
<1>1. CASE SweepFirst(w)
  <2>1. GoesOn(w, "swept", NoJob) /\ UNCHANGED decided
    BY <1>1, GotoGoesOn DEF SweepFirst, SweepStaleLeases, vars, ledger
  <2>2. ASSUME SweepStaleLeases(now) PROVE NoSuccess
    <3>1. ASSUME NEW r \in Runs, Expired(r, now) PROVE run'[r].status # "succeeded"
      <4>1. run'[r] = Recovered(r) /\ run[r] \in Row
        BY <2>2, <3>1 DEF SweepStaleLeases, TypeOK
      <4>2. Recovered(r).status \in {"queued", "blocked"}
        BY <4>1, ReleasedRow DEF Recovered, RunStatus, Row
      <4> QED BY <4>1, <4>2
    <3> QED BY <2>2, <3>1 DEF NoSuccess, SweepStaleLeases
  <2>3. NoSuccess
    BY <1>1, <2>2 DEF SweepFirst, NoSuccess, vars, ledger
  <2> QED BY <1>0, <2>1, <2>3, NoSuccessIsDecided, GoesOnElsewhere DEF KernelPlaces
<1>2. CASE Claim(w)
  <2>0. PICK r \in Runs : ClaimNextQueuedRun(r, w, now) /\ \E j : GoesOn(w, "claimed", j)
    BY <1>2, GotoGoesOn DEF Claim
  <2>1. PICK j : ClaimNextQueuedRun(r, w, now) /\ GoesOn(w, "claimed", j)
    BY <2>0
  <2>2. UNCHANGED decided
    BY <2>1 DEF ClaimNextQueuedRun
  <2>3. NoSuccess
    BY <2>1 DEF NoSuccess, ClaimNextQueuedRun, TypeOK, Row
  <2> QED
    BY <1>0, <2>1, <2>2, <2>3, NoSuccessIsDecided, GoesOnElsewhere DEF KernelPlaces, Claiming
<1>3. CASE NothingToClaim(w)
  <2>1. GoesOn(w, "idle", NoJob) /\ UNCHANGED <<run, decided>>
    BY <1>3, GotoGoesOn DEF NothingToClaim, Stop, vars, ledger
  <2>2. NoSuccess
    BY <2>1 DEF NoSuccess
  <2> QED BY <1>0, <2>1, <2>2, NoSuccessIsDecided, GoesOnElsewhere DEF KernelPlaces
<1>4. CASE MarkStarted(w)
  <2>1. \/ GoesOn(w, "handling", job[w]) /\ MarkStageRunStarted(job[w].grant, now)
        \/ GoesOn(w, "idle", NoJob) /\ UNCHANGED vars
    BY <1>4, GotoGoesOn DEF MarkStarted, Stop
  <2>2. UNCHANGED decided
    BY <2>1 DEF MarkStageRunStarted, vars, ledger
  <2>3. NoSuccess
    <3>1. MarkStageRunStarted(job[w].grant, now) => job[w].grant.run \in Runs
      BY DEF MarkStageRunStarted, Authorises, TypeOK, Grant
    <3> QED BY <2>1, <3>1 DEF NoSuccess, MarkStageRunStarted, TypeOK, Row, vars, ledger
  <2> QED
    BY <1>0, <2>1, <2>2, <2>3, NoSuccessIsDecided, GoesOnElsewhere DEF KernelPlaces, Claiming
<1> QED BY <1>1, <1>2, <1>3, <1>4

\* No row changes: nothing succeeds.
LEMMA QuietFails == ASSUME UNCHANGED run PROVE NoSuccess
BY DEF NoSuccess

\* run_once through the handler and the adapter: a gate never gets there.
LEMMA ExecuteBeside ==
    ASSUME Beside, NEW w \in Workers,
           \/ HandlerStopsEarly(w) \/ RecordInvocation(w) \/ InvokeAdapter(w)
           \/ ReportReceipt(w)
    PROVE  GateInv'
<1> USE DEF Beside, Known
<1>0. w \in Procs /\ job[w] \in Job /\ StopsAtGate(w)
  BY DEF Procs, KernelInv, MemoryOK, GateInv
<1>1. SuccessesDecided /\ UNCHANGED decided
  <2>1. UNCHANGED <<run, decided>>
    BY DEF HandlerStopsEarly, RecordInvocation, InvokeAdapter, ReportReceipt,
       RecordAdapterInvocation, RecordHandlerReceipt, vars, ledger
  <2> QED BY <2>1, QuietFails, NoSuccessIsDecided
<1>2. CASE HandlerStopsEarly(w)
  <2>1. PICK v : /\ GoesOn(w, "settling", [job[w] EXCEPT !.verdict = v])
                 /\ StageOf(job[w].run) \in Gates => v \in {"waiting", "blocked", "failed"}
    BY <1>2, GotoGoesOn DEF HandlerStopsEarly
  <2> DEFINE j == [job[w] EXCEPT !.verdict = v]
  <2>2. j.run = job[w].run /\ j.verdict = v /\ GoesOn(w, "settling", j)
    BY <1>0, <2>1 DEF Job
  <2> HIDE DEF j
  <2>3. StageOf(j.run) \in Gates => j.verdict \in {"waiting", "blocked", "failed"}
    BY <2>1, <2>2
  <2>4. "settling" \in KernelPlaces
    BY DEF KernelPlaces, Claiming
  <2> QED BY <1>0, <1>1, <2>2, <2>3, <2>4, GoesOnElsewhere
<1>3. CASE RecordInvocation(w)
  <2>1. GoesOn(w, "invoking", job[w]) /\ StageOf(job[w].run) \notin Gates
    BY <1>3, GotoGoesOn DEF RecordInvocation
  <2>2. "invoking" \in KernelPlaces
    BY DEF KernelPlaces, Claiming
  <2> QED BY <1>0, <1>1, <2>1, <2>2, GoesOnElsewhere
<1>4. CASE InvokeAdapter(w)
  <2>1. PICK v : GoesOn(w, "reporting", [job[w] EXCEPT !.verdict = v])
    BY <1>4, GotoGoesOn DEF InvokeAdapter
  <2> DEFINE j == [job[w] EXCEPT !.verdict = v]
  <2>2. j.run = job[w].run /\ GoesOn(w, "reporting", j)
    BY <1>0, <2>1 DEF Job
  <2> HIDE DEF j
  <2>3. StageOf(j.run) \notin Gates
    BY <1>0, <1>4, <2>2 DEF InvokeAdapter, StopsAtGate
  <2>4. "reporting" \in KernelPlaces
    BY DEF KernelPlaces, Claiming
  <2> QED BY <1>0, <1>1, <2>2, <2>3, <2>4, GoesOnElsewhere
<1>5. CASE ReportReceipt(w)
  <2>1. GoesOn(w, "settling", job[w]) /\ StageOf(job[w].run) \notin Gates
    BY <1>0, <1>5, GotoGoesOn DEF ReportReceipt, StopsAtGate
  <2>2. "settling" \in KernelPlaces
    BY DEF KernelPlaces, Claiming
  <2> QED BY <1>0, <1>1, <2>1, <2>2, GoesOnElsewhere
<1> QED BY <1>2, <1>3, <1>4, <1>5

\* A settlement by a worker leaves a gate short of success.
LEMMA SettleBeside ==
    ASSUME Beside, NEW w \in Workers, SettleAttempt(w)
    PROVE  GateInv'
<1> USE DEF Beside, Known
<1> DEFINE g == job[w].grant
           v == job[w].verdict
<1>0. /\ w \in Procs /\ g \in grants /\ job[w].run = g.run /\ g.run \in Runs
      /\ v \in HandlerVerdicts /\ StopsAtGate(w) /\ pc[w] = "settling"
  BY WorkerRemembers DEF SettleAttempt, Remembers, Claiming, GateInv
<1>9. PICK to \in {"advancing", "updating", "idle"} : \E j : GoesOn(w, to, j)
  BY GotoGoesOn DEF SettleAttempt, Stop
<1>1. PICK j : GoesOn(w, to, j)
  BY <1>9
<1>2. /\ Authorises(g, ActiveLease, now) /\ SettleBy(g, v)
      \/ UNCHANGED vars
  BY DEF SettleAttempt
<1>3. UNCHANGED decided
  BY <1>0, <1>2 DEF vars, ledger, SettleBy, HandlerVerdicts, CompleteStageRun,
     WaitStageRunForHumanDecision, ScheduleRetry, BlockStageRun, FailStageRun, Settle
<1>4. SuccessesDecided
  <2>1. CASE UNCHANGED vars
    BY <2>1, QuietFails, NoSuccessIsDecided DEF vars, ledger
  <2>2. CASE Authorises(g, ActiveLease, now) /\ SettleBy(g, v) /\ v = "retry"
    <3>1. PICK d \in RetryDelays : ScheduleRetry(g, "other", d, now)
      BY <2>2 DEF SettleBy
    <3>2. \A q \in Runs : run'[q].status = "succeeded" => run'[q] = run[q]
      BY <1>0, <2>2, <3>1, SettledWithRetry DEF KernelInv
    <3> QED BY <3>2, NoSuccessIsDecided DEF NoSuccess
  <2>3. CASE Authorises(g, ActiveLease, now) /\ SettleBy(g, v) /\ v # "retry"
    <3>1. /\ run'[g.run].status = "succeeded" <=> v = "succeeded"
          /\ \A q \in Runs \ {g.run} : run'[q] = run[q]
      BY <1>0, <2>3, SettledWithoutRetry DEF KernelInv, ThreadInv
    <3>2. StageOf(g.run) \in Gates => v # "succeeded"
      BY <1>0 DEF StopsAtGate
    <3> QED BY <3>1, <3>2 DEF SuccessesDecided
  <2> QED BY <1>2, <2>1, <2>2, <2>3
<1>5. to \in KernelPlaces /\ to \notin {"invoking", "reporting", "settling"}
  BY DEF KernelPlaces
<1> QED BY <1>0, <1>1, <1>3, <1>4, <1>5, GoesOnElsewhere

\* Starting a workflow, advancing it, queueing its next attempt and writing its
\* row let no attempt succeed.
LEMMA FinishBeside ==
    ASSUME Beside, NEW p \in Procs,
           Finish(p) \/ \E i \in Instances : StartWorkflow(p, i)
    PROVE  GateInv'
<1> USE DEF Beside, Known
<1>91. PICK to \in {"idle", "inserting", "updating"} : \E j : GoesOn(p, to, j)
  BY GotoGoesOn DEF Finish, Advance, QueueStage, WriteInstance, Stop, StartWorkflow
<1>1. PICK j : GoesOn(p, to, j)
  BY <1>91
<1>2. UNCHANGED decided
  BY DEF Finish, Advance, QueueStage, WriteInstance, StartWorkflow, InsertWorkflowInstance,
     InsertStageRun, UpdateWorkflowInstance, vars, ledger
<1>3. NoSuccess
  <2>1. CASE UNCHANGED run
    BY <2>1, QuietFails
  <2>2. CASE InsertStageRun(job[p].next) /\ pc[p] = "inserting"
    <3>1. job[p].next \in Runs
      BY <2>2 DEF KernelInv, MemoryOK, Remembers
    <3> DEFINE row == QueuedRow(0)
    <3>2. run' = [run EXCEPT ![job[p].next] = row] /\ row.status # "succeeded"
      BY <2>2, QueuedStatus DEF InsertStageRun
    <3> HIDE DEF row
    <3> QED BY <3>1, <3>2, OneRowFails
  <2> QED
    BY <2>1, <2>2 DEF Finish, Advance, QueueStage, WriteInstance, StartWorkflow,
       InsertWorkflowInstance, UpdateWorkflowInstance, vars, ledger
<1>4. to \in KernelPlaces /\ to \notin {"invoking", "reporting", "settling"}
  BY DEF KernelPlaces
<1> QED BY <1>1, <1>2, <1>3, <1>4, NoSuccessIsDecided, GoesOnElsewhere

\* A gate is completed as succeeded by a job whose decision is on record.
LEMMA CompleteBeside ==
    ASSUME Beside, NEW c \in Procs, CompleteGate(c)
    PROVE  GateInv'
<1> USE DEF Beside, Known
<1>0. /\ job[c].run \in Runs /\ HandFits(c) /\ pc[c] = "deciding"
  BY DEF CompleteGate, KernelInv, MemoryOK, Remembers, GateInv
<1>91. PICK to \in {"idle", "advancing", "updating"} : \E j : GoesOn(c, to, j)
  BY GotoGoesOn DEF CompleteGate, Stop
<1>1. PICK j : GoesOn(c, to, j)
  BY <1>91
<1>2. UNCHANGED decided
  BY DEF CompleteGate, CompleteWaitingHumanStageRun, vars, ledger
<1>3. SuccessesDecided
  <2>1. CASE UNCHANGED vars
    BY <2>1, QuietFails, NoSuccessIsDecided DEF vars, ledger
  <2>2. CASE job[c].verdict = "accepted"
             /\ CompleteWaitingHumanStageRun(job[c].run, "succeeded", "none")
    <3>1. job[c].run \in decided
      BY <1>0, <2>2 DEF HandFits
    <3>2. \A q \in Runs \ {job[c].run} : run'[q] = run[q]
      BY <2>2 DEF CompleteWaitingHumanStageRun, TypeOK
    <3> QED BY <3>1, <3>2 DEF SuccessesDecided
  <2>3. CASE CompleteWaitingHumanStageRun(job[c].run, "blocked", "other")
    <3> DEFINE row == [run[job[c].run] EXCEPT !.status = "blocked", !.failure = "other"]
    <3>1. run' = [run EXCEPT ![job[c].run] = row] /\ row.status # "succeeded"
      BY <1>0, <2>3 DEF CompleteWaitingHumanStageRun, TypeOK, Row
    <3> HIDE DEF row
    <3> QED BY <1>0, <3>1, OneRowFails, NoSuccessIsDecided
  <2> QED BY <2>1, <2>2, <2>3 DEF CompleteGate
<1>4. to \in KernelPlaces /\ to \notin {"invoking", "reporting", "settling"}
  BY DEF KernelPlaces, Claiming
<1> QED BY <1>1, <1>2, <1>3, <1>4, GoesOnElsewhere

\* An attempt that an operator appends has not succeeded.
LEMMA AppendedFails ==
    ASSUME TypeOK, NEW r \in Runs, NEW row, row.status # "succeeded", AppendAttempt(r, row)
    PROVE  NoSuccess
<1> DEFINE x == NextOf(r)
           new == QueuedRow(0)
<1>1. x \in Runs /\ run' = [run EXCEPT ![r] = row, ![x] = new] /\ new.status = "queued"
  BY QueuedStatus DEF AppendAttempt
<1> HIDE DEF x, new
<1> QED BY <1>1 DEF NoSuccess, TypeOK

\* Operators and the clock let no attempt succeed.
LEMMA OperateBeside ==
    ASSUME Beside, Operate \/ PassTime
    PROVE  GateInv'
<1> USE DEF Beside, Known
<1>1. UNCHANGED <<decided, pc, job>>
  BY DEF Operate, PassTime, Tick, local, ledger, CancelWorkflowInstance,
     ParkStaleWorkflowInstance, RetryBlockedHumanGate, RetryBlockedStageWithoutEffect,
     ReissueWaitingHumanGate, RestorePublishedHumanGateWaiting,
     TerminalizeBlockedCurrentStages, AppendAttempt
<1>2. ASSUME NEW i \in Instances,
             CancelWorkflowInstance(i, FALSE) \/ ParkStaleWorkflowInstance(i)
      PROVE  NoSuccess
  <2>1. run' = Superseded(i)
    BY <1>2 DEF CancelWorkflowInstance, ParkStaleWorkflowInstance
  <2> QED BY <2>1, ReleasedStatus DEF NoSuccess, Superseded
<1>3. ASSUME NEW r \in Runs,
             \/ RetryBlockedHumanGate(r)
             \/ \E reauthorised \in BOOLEAN :
                  RetryBlockedStageWithoutEffect(r, reauthorised, FALSE)
      PROVE  NoSuccess
  <2>1. AppendAttempt(r, run[r]) /\ run[r].status # "succeeded"
    BY <1>3 DEF RetryBlockedHumanGate, RetryBlockedStageWithoutEffect
  <2> QED BY <2>1, AppendedFails
<1>4. ASSUME NEW r \in Runs, ReissueWaitingHumanGate(r) PROVE NoSuccess
  <2> DEFINE row == [run[r] EXCEPT !.status = "blocked", !.failure = "other"]
  <2>1. AppendAttempt(r, row) /\ row.status # "succeeded"
    BY <1>4 DEF ReissueWaitingHumanGate, TypeOK, Row
  <2> HIDE DEF row
  <2> QED BY <2>1, AppendedFails
<1>5. ASSUME NEW r \in Runs, RestorePublishedHumanGateWaiting(r) PROVE NoSuccess
  <2> DEFINE row == [run[r] EXCEPT !.status = "waiting_on_human", !.failure = "none"]
  <2>1. run' = [run EXCEPT ![r] = row] /\ row.status # "succeeded"
    BY <1>5 DEF RestorePublishedHumanGateWaiting, TypeOK, Row
  <2> HIDE DEF row
  <2> QED BY <2>1, OneRowFails
<1>6. TerminalizeBlockedCurrentStages \/ PassTime => NoSuccess
  BY QuietFails DEF TerminalizeBlockedCurrentStages, PassTime, Tick, ledger
<1>7. NoSuccess
  BY <1>2, <1>3, <1>4, <1>5, <1>6 DEF Operate
<1> QED BY <1>1, <1>7, NoSuccessIsDecided, NobodyElsewhere

-----------------------------------------------------------------------------
(* What a job does at the surface                                          *)

\* The vault and the published events have their types.
VaultTyped == /\ notes \in [NoteIds -> [print : NotePrint, checks : SUBSET Choices]]
              /\ posted \in [Runs -> NoteIds \cup {NoNote}]

\* A job that goes on at `to` with j in memory may hold h.
Papers(to, j, h) ==
    /\ to = "placing" => h.print.run = j.run
    /\ to \in HasNote => h.note # NoNote /\ Exists(h.note)
    /\ to \in {"receipting", "posting"} => h.note[1] = j.run
    /\ to \in {"judging", "recording"} => ReadFromNote(h)
    /\ to = "recording" => h.print.run = j.run /\ Opened(j.run)
    /\ to = "deciding" => j.verdict # "accepted"

\* Nothing of the ledger changes that a surface operation does not record.
Untouched == UNCHANGED <<run, grants, starts, effects, decided, basis>>

\* A job that goes on at the surface with the papers it needs keeps the
\* invariants.
LEMMA ClerkGoesOn ==
    ASSUME Known, GateInv, Untouched, NotesKept, VaultTyped', NotesShowTheirAttempts',
           NEW c \in Procs, NEW to \in SurfacePlaces \cup {"recording", "deciding"},
           NEW j \in Job, NEW h \in Held, j.run \in Runs,
           to \in {"recording", "deciding"} => j.next = <<>>,
           GoesOn(c, to, j), hand' = [hand EXCEPT ![c] = h], Papers(to, j, h)'
    PROVE  KernelInv' /\ GateInv'
<1> USE DEF Known
<1>1. /\ pc'[c] = to /\ job'[c] = j /\ hand'[c] = h
      /\ \A q \in Procs \ {c} : StaysPut(q) /\ hand'[q] = hand[q]
  BY DEF GoesOn, KernelInv, MemoryOK, StaysPut, GateInv, GateTyped
<1>2. KernelInv'
  <2>1. Remembers(c)'
    BY <1>1 DEF Remembers, Claiming, SurfacePlaces
  <2>2. /\ to \in Place /\ to \notin {"advancing", "inserting", "handling", "invoking"}
    BY DEF Place, SurfacePlaces
  <2>3. RowsKept /\ UNCHANGED <<grants, starts, effects>>
    BY QuietKeepsRows DEF Untouched
  <2> QED BY <2>1, <2>2, <2>3, OneProcessGoesOn
<1>3. OpenedKept /\ SuccessesDecided /\ UNCHANGED <<decided, basis>>
  BY QuietFails, NoSuccessIsDecided DEF Untouched, OpenedKept, Opened
<1>4. GateTyped'
  BY DEF VaultTyped, GateInv, GateTyped, Untouched
<1>5. HandFits(c)'
  <2>1. (h.note # NoNote /\ Exists(h.note))' => (hand[c].note # NoNote /\ Exists(hand[c].note))'
    BY <1>1 DEF Exists
  <2>2. ReadFromNote(h)' => ReadFromNote(hand[c])'
    BY <1>1 DEF ReadFromNote, Exists
  <2>3. Opened(j.run)' => Opened(job[c].run)'
    BY <1>1 DEF Opened
  <2> QED BY <1>1, <2>1, <2>2, <2>3 DEF HandFits, Papers
<1>6. StopsAtGate(c)'
  BY <1>1 DEF StopsAtGate, SurfacePlaces
<1>7. ASSUME NEW q \in Procs \ {c} PROVE HandFits(q)' /\ StopsAtGate(q)'
  BY <1>1, <1>3, OthersFit
<1>8. \A r \in Runs : AnswerFits(r)'
  BY <1>3, AnswersKept
<1> QED BY <1>2, <1>4, <1>5, <1>6, <1>7, <1>8 DEF GateInv

\* A job that raises or returns holds nothing.
LEMMA NoHandIsHeld == NoHand \in Held
BY DEF NoHand, Held, NoPrint

\* A job that raises or returns keeps them too.
LEMMA ClerkGivesUp ==
    ASSUME Known, GateInv, Untouched, NotesKept, VaultTyped', NotesShowTheirAttempts',
           NEW c \in Procs, GiveUp(c)
    PROVE  KernelInv' /\ GateInv'
<1> USE DEF Known
<1>0. GoesOn(c, "idle", NoJob) /\ hand' = [hand EXCEPT ![c] = NoHand]
  BY GotoGoesOn DEF GiveUp, Stop
<1>1. /\ pc'[c] = "idle"
      /\ \A q \in Procs \ {c} : StaysPut(q) /\ hand'[q] = hand[q]
  BY <1>0 DEF GoesOn, KernelInv, MemoryOK, StaysPut, GateInv, GateTyped
<1>2. KernelInv'
  BY <1>0, QuietKeepsRows, OneProcessEnds DEF Untouched
<1>3. OpenedKept /\ SuccessesDecided /\ UNCHANGED <<decided, basis>>
  BY QuietFails, NoSuccessIsDecided DEF Untouched, OpenedKept, Opened
<1>4. GateTyped'
  BY <1>0, NoHandIsHeld DEF VaultTyped, GateInv, GateTyped, Untouched
<1>5. HandFits(c)' /\ StopsAtGate(c)'
  BY <1>1 DEF HandFits, SurfacePlaces, HasNote, StopsAtGate
<1>7. ASSUME NEW q \in Procs \ {c} PROVE HandFits(q)' /\ StopsAtGate(q)'
  BY <1>1, <1>3, OthersFit
<1>8. \A r \in Runs : AnswerFits(r)'
  BY <1>3, AnswersKept
<1> QED BY <1>2, <1>4, <1>5, <1>7, <1>8 DEF GateInv

\* The vault stays right when nobody writes to it.
LEMMA VaultKept ==
    ASSUME GateInv, UNCHANGED <<notes, posted>>
    PROVE  VaultTyped' /\ NotesShowTheirAttempts' /\ NotesKept
<1>1. VaultTyped'
  BY DEF GateInv, GateTyped, VaultTyped
<1>2. NotesShowTheirAttempts'
  BY DEF GateInv, NotesShowTheirAttempts, Exists
<1> QED BY <1>1, <1>2 DEF NotesKept

\* A job that is about one attempt.
LEMMA JobAbout ==
    ASSUME NEW r \in Runs
    PROVE  /\ [NoJob EXCEPT !.run = r] \in Job
           /\ [NoJob EXCEPT !.run = r].run = r
           /\ \A v \in JobVerdicts :
                /\ [NoJob EXCEPT !.run = r, !.verdict = v] \in Job
                /\ [NoJob EXCEPT !.run = r, !.verdict = v].run = r
                /\ [NoJob EXCEPT !.run = r, !.verdict = v].next = <<>>
                /\ [NoJob EXCEPT !.run = r, !.verdict = v].verdict = v
<1>1. NoJob \in Job /\ NoJob.next = <<>>
  BY NoJobIsJob DEF NoJob
<1> HIDE DEF NoJob
<1> QED BY <1>1 DEF Job

\* The fingerprint of an attempt names it.
LEMMA FingerprintNames ==
    ASSUME TypeOK, NEW r \in Runs
    PROVE  Fingerprint(r) \in NotePrint /\ Fingerprint(r).run = r
<1>1. instance[InstanceOf(r)].epoch \in Nat
  BY RunsAreTriples DEF TypeOK, InstanceRow
<1> QED BY <1>1 DEF Fingerprint, NotePrint, TypeOK

\* A print in hand beside a note, and a choice beside both.
LEMMA HandsHeld ==
    ASSUME NEW h \in Held
    PROVE  /\ \A n \in NoteIds \cup {NoNote} :
                 [h EXCEPT !.note = n] \in Held /\ [h EXCEPT !.note = n].note = n
                 /\ [h EXCEPT !.note = n].print = h.print
           /\ \A p \in NotePrint :
                 [h EXCEPT !.print = p] \in Held /\ [h EXCEPT !.print = p].print = p
                 /\ [h EXCEPT !.print = p].note = h.note
           /\ \A d \in Choices :
                 [h EXCEPT !.choice = d] \in Held /\ [h EXCEPT !.choice = d].choice = d
                 /\ [h EXCEPT !.choice = d].note = h.note
                 /\ [h EXCEPT !.choice = d].print = h.print
BY DEF Held, NotePrint

\* A job that goes on about r with papers h.
LEMMA AboutGoesOn ==
    ASSUME NEW c, NEW to, NEW r, NEW h, About(c, to, r, h)
    PROVE  GoesOn(c, to, [NoJob EXCEPT !.run = r]) /\ hand' = [hand EXCEPT ![c] = h]
BY GotoGoesOn DEF About

\* A job goes on about r, writing nothing to the vault.
LEMMA AboutKeeps ==
    ASSUME Known, GateInv, Untouched, UNCHANGED <<notes, posted>>,
           NEW c \in Procs, NEW to \in SurfacePlaces, NEW r \in Runs, NEW h \in Held,
           About(c, to, r, h),
           to = "placing" => h.print.run = r,
           to \in HasNote => h.note # NoNote /\ Exists(h.note),
           to \notin {"receipting", "posting"},
           to = "judging" => ReadFromNote(h)
    PROVE  KernelInv' /\ GateInv'
<1> DEFINE j == [NoJob EXCEPT !.run = r]
<1>1. j \in Job /\ j.run = r /\ GoesOn(c, to, j) /\ hand' = [hand EXCEPT ![c] = h]
  <2>1. j \in Job /\ j.run = r
    BY JobAbout
  <2>2. GoesOn(c, to, j) /\ hand' = [hand EXCEPT ![c] = h]
    BY AboutGoesOn
  <2> QED BY <2>1, <2>2
<1> HIDE DEF j
<1>2. to \notin {"recording", "deciding"}
  BY DEF SurfacePlaces
<1>3. VaultTyped' /\ NotesShowTheirAttempts' /\ NotesKept
  BY VaultKept
<1>4. ReadFromNote(h) => ReadFromNote(h)'
  BY <1>3, ReadingsKept
<1>5. Papers(to, j, h)'
  BY <1>1, <1>2, <1>4 DEF Papers, Exists
<1> QED BY <1>1, <1>2, <1>3, <1>5, ClerkGoesOn

\* A receipt of a surface operation touches none of what the invariants are
\* about, nor does an operation that records nothing.
LEMMA ReceiptsTouchNothing ==
    ASSUME UNCHANGED <<effects, basis>>,
           UNCHANGED vars \/ (\E r \in Runs : RecordPublishReceipt(r))
    PROVE  Untouched
BY DEF Untouched, RecordPublishReceipt, vars, ledger, history

\* What job c holds, and the attempt it is about.
LEMMA ClerkHolds ==
    ASSUME Known, GateInv, NEW c \in Clerks
    PROVE  /\ c \in Procs /\ HandFits(c) /\ hand[c] \in Held /\ job[c] \in Job
           /\ Remembers(c)
           /\ pc[c] \in HasNote => hand[c].note \in NoteIds
BY DEF Procs, Known, KernelInv, MemoryOK, GateInv, GateTyped, HandFits, Held

\* A job finds a waiting gate, and the note of its latest publication.
LEMMA FindGateStep ==
    ASSUME Known, GateInv, NEW c \in Clerks, FindGate(c)
    PROVE  KernelInv' /\ GateInv'
<1>1. c \in Procs /\ Untouched /\ UNCHANGED <<notes, posted>>
  BY ClerkHolds, ReceiptsTouchNothing DEF FindGate
<1>2. PICK r \in Runs, to \in {"publishing", "reading", "querying"} :
        /\ About(c, to, r, [NoHand EXCEPT !.note = posted[r]])
        /\ to # "publishing" => posted[r] # NoNote
  BY DEF FindGate
<1> DEFINE h == [NoHand EXCEPT !.note = posted[r]]
<1>3. h \in Held /\ h.note = posted[r]
  <2>1. posted[r] \in NoteIds \cup {NoNote}
    BY DEF GateInv, GateTyped
  <2> QED BY <2>1, NoHandIsHeld, HandsHeld
<1>4. posted[r] # NoNote => Exists(posted[r])
  BY DEF GateInv, NotesShowTheirAttempts
<1>5. About(c, to, r, h)
  BY <1>2
<1> HIDE DEF h
<1>6. /\ to \in SurfacePlaces
      /\ to \notin {"placing", "receipting", "posting", "judging"}
      /\ to \in HasNote => to # "publishing"
  BY DEF SurfacePlaces, HasNote
<1>7. to \in HasNote => h.note # NoNote /\ Exists(h.note)
  BY <1>2, <1>3, <1>4, <1>6
<1> QED BY <1>1, <1>3, <1>5, <1>6, <1>7, AboutKeeps

\* A job takes the fingerprint of the gate that waits now, to publish it or to
\* ask for its decision.
LEMMA PrepareStep ==
    ASSUME Known, GateInv, NEW c \in Clerks, PreparePacket(c) \/ PrepareQuery(c)
    PROVE  KernelInv' /\ GateInv'
<1>1. /\ c \in Procs /\ Untouched /\ UNCHANGED <<notes, posted>>
      /\ HandFits(c) /\ hand[c] \in Held
  BY ClerkHolds, ReceiptsTouchNothing DEF PreparePacket, PrepareQuery
<1>2. CASE GiveUp(c)
  BY <1>1, <1>2, VaultKept, ClerkGivesUp
<1>3. CASE \E r \in Runs : pc[c] = "publishing"
                           /\ About(c, "placing", r, [NoHand EXCEPT !.print = Fingerprint(r)])
  <2>1. PICK r \in Runs : About(c, "placing", r, [NoHand EXCEPT !.print = Fingerprint(r)])
    BY <1>3
  <2> DEFINE h == [NoHand EXCEPT !.print = Fingerprint(r)]
  <2>2. h \in Held /\ h.print.run = r
    BY NoHandIsHeld, HandsHeld, FingerprintNames DEF Known
  <2>3. About(c, "placing", r, h)
    BY <2>1
  <2> HIDE DEF h
  <2>4. "placing" \in SurfacePlaces /\ "placing" \notin HasNote
    BY DEF SurfacePlaces, HasNote
  <2> QED BY <1>1, <2>2, <2>3, <2>4, AboutKeeps
<1>4. CASE \E r \in Runs : pc[c] = "querying"
                           /\ About(c, "collecting", r, [hand[c] EXCEPT !.print = Fingerprint(r)])
  <2>1. PICK r \in Runs : About(c, "collecting", r, [hand[c] EXCEPT !.print = Fingerprint(r)])
    BY <1>4
  <2> DEFINE h == [hand[c] EXCEPT !.print = Fingerprint(r)]
  <2>2. h \in Held /\ h.note = hand[c].note
    <3>1. Fingerprint(r) \in NotePrint
      BY FingerprintNames DEF Known
    <3>2. \A g \in Held : [g EXCEPT !.print = Fingerprint(r)] \in Held
                          /\ [g EXCEPT !.print = Fingerprint(r)].note = g.note
      BY <3>1, HandsHeld
    <3> QED BY <1>1, <3>2
  <2>3. About(c, "collecting", r, h)
    BY <2>1
  <2>4. hand[c].note # NoNote /\ Exists(hand[c].note)
    BY <1>1, <1>4 DEF HandFits, HasNote
  <2> HIDE DEF h
  <2>5. "collecting" \in SurfacePlaces
    BY DEF SurfacePlaces
  <2>6. h.note # NoNote /\ Exists(h.note)
    BY <2>2, <2>4
  <2> QED BY <1>1, <2>2, <2>3, <2>5, <2>6, AboutKeeps
<1> QED BY <1>2, <1>3, <1>4 DEF PreparePacket, PrepareQuery, Waiting

\* A print of an attempt is not the blank of a note that does not exist.
LEMMA PrintsShow == ASSUME NEW print, print.run \in Runs PROVE print # NoPrint
BY RunsAreTriples DEF NoPrint

\* Writing a card where there was none keeps the vault right.
LEMMA CardWritten ==
    ASSUME GateInv, UNCHANGED posted, NEW n \in NoteIds, ~Exists(n),
           NEW print \in NotePrint, print.run = n[1],
           notes' = [notes EXCEPT ![n] = [print |-> print, checks |-> {}]]
    PROVE  VaultTyped' /\ NotesShowTheirAttempts' /\ NotesKept
<1>1. VaultTyped'
  BY DEF GateInv, GateTyped, VaultTyped
<1>2. \A m \in NoteIds : m # n => notes'[m] = notes[m]
  BY DEF GateInv, GateTyped
<1>3. notes'[n].print = print
  BY DEF GateInv, GateTyped
<1>4. NotesKept
  BY <1>2 DEF NotesKept, Exists
<1>5. \A m \in NoteIds : Exists(m)' => notes'[m].print.run = m[1]
  BY <1>2, <1>3 DEF GateInv, NotesShowTheirAttempts, Exists
<1>6. \A m \in NoteIds : Exists(m) => Exists(m)'
  BY <1>4 DEF NotesKept, Exists
<1>7. \A r \in Runs : posted'[r] # NoNote => posted'[r][1] = r /\ Exists(posted[r])'
  BY <1>6 DEF GateInv, GateTyped, NotesShowTheirAttempts
<1> QED BY <1>1, <1>4, <1>5, <1>7 DEF NotesShowTheirAttempts

\* The note of the attempt is written unless it is there, and the job goes on
\* with it if it shows the action.
LEMMA PlaceNoteStep ==
    ASSUME Known, GateInv, NEW c \in Clerks, PlaceNote(c)
    PROVE  KernelInv' /\ GateInv'
<1> DEFINE r == job[c].run
           print == hand[c].print
<1>1. /\ c \in Procs /\ Untouched /\ UNCHANGED posted
      /\ hand[c] \in Held /\ HandFits(c) /\ pc[c] = "placing"
  BY ClerkHolds, ReceiptsTouchNothing DEF PlaceNote
<1>2. r \in Runs /\ print \in NotePrint /\ print.run = r
  BY <1>1 DEF HandFits, SurfacePlaces, Held, NotePrint
<1>3. PICK n \in NoteIds :
        /\ PathFor(r, n)
        /\ notes' = IF Exists(n) THEN notes
                    ELSE [notes EXCEPT ![n] = [print |-> print, checks |-> {}]]
        /\ IF notes'[n].print = print
           THEN About(c, "receipting", r, [hand[c] EXCEPT !.note = n])
           ELSE GiveUp(c)
  BY DEF PlaceNote
<1>4. n[1] = r
  BY <1>3 DEF PathFor
<1>5. VaultTyped' /\ NotesShowTheirAttempts' /\ NotesKept
  <2>1. CASE Exists(n)
    BY <1>1, <1>3, <2>1, VaultKept
  <2>2. CASE ~Exists(n)
    BY <1>1, <1>2, <1>3, <1>4, <2>2, CardWritten
  <2> QED BY <2>1, <2>2
<1>6. CASE GiveUp(c)
  BY <1>1, <1>5, <1>6, ClerkGivesUp
<1>7. CASE notes'[n].print = print /\ About(c, "receipting", r, [hand[c] EXCEPT !.note = n])
  <2> DEFINE j == [NoJob EXCEPT !.run = r]
             h == [hand[c] EXCEPT !.note = n]
  <2>1. j \in Job /\ j.run = r
    BY <1>2, JobAbout
  <2>2. h \in Held /\ h.note = n
    BY <1>1, HandsHeld
  <2>3. GoesOn(c, "receipting", j) /\ hand' = [hand EXCEPT ![c] = h]
    BY <1>7, GotoGoesOn DEF About
  <2>4. Exists(n)'
    <3>1. print # NoPrint
      BY <1>2, PrintsShow
    <3> QED BY <1>7, <3>1 DEF Exists
  <2> HIDE DEF j, h
  <2>5. PICK g \in Held, k \in Job : g = h /\ k = j
    BY <2>1, <2>2
  <2>6. Papers("receipting", k, g)'
    <3>1. g.note = n /\ g.note # NoNote /\ k.run = n[1]
      BY <1>4, <2>1, <2>2, <2>5, RunsAreNotNull
    <3> QED BY <2>4, <3>1 DEF Papers
  <2>7. "receipting" \in SurfacePlaces
    BY DEF SurfacePlaces
  <2> QED BY <1>1, <1>2, <1>5, <2>1, <2>3, <2>5, <2>6, <2>7, ClerkGoesOn
<1> QED BY <1>3, <1>6, <1>7

\* The receipt of a publication, and then its event.
LEMMA PublishedStep ==
    ASSUME Known, GateInv, NEW c \in Clerks, RecordPublish(c) \/ PostNote(c)
    PROVE  KernelInv' /\ GateInv'
<1>1. /\ c \in Procs /\ hand[c] \in Held /\ HandFits(c) /\ job[c] \in Job
      /\ pc[c] \in {"receipting", "posting"}
  BY ClerkHolds DEF RecordPublish, PostNote
<1>2. job[c].run \in Runs /\ hand[c].note[1] = job[c].run
  BY <1>1 DEF HandFits, SurfacePlaces
<1>3. hand[c].note \in NoteIds /\ Exists(hand[c].note)
  BY <1>1 DEF HandFits, HasNote, Held
<1>4. Untouched /\ UNCHANGED <<notes, hand>>
  BY <1>2, ReceiptsTouchNothing DEF RecordPublish, PostNote, surface
<1>5. VaultTyped' /\ NotesShowTheirAttempts' /\ NotesKept
  <2>1. CASE RecordPublish(c)
    BY <2>1, VaultKept DEF RecordPublish, surface
  <2>2. CASE PostNote(c)
    <3>1. posted' = [posted EXCEPT ![job[c].run] = hand[c].note]
      BY <2>2 DEF PostNote
    <3>2. VaultTyped' /\ NotesKept
      BY <1>3, <1>4, <3>1 DEF GateInv, GateTyped, VaultTyped, NotesKept
    <3>3. \A r \in Runs : posted'[r] # NoNote => posted'[r][1] = r /\ Exists(posted'[r])
      BY <1>2, <1>3, <3>1 DEF GateInv, GateTyped, NotesShowTheirAttempts
    <3>4. \A r \in Runs : Exists(posted'[r]) => Exists(posted[r])'
      BY <1>4 DEF Exists
    <3>5. \A n \in NoteIds : Exists(n)' => notes'[n].print.run = n[1]
      BY <1>4 DEF GateInv, NotesShowTheirAttempts, Exists
    <3> QED BY <3>2, <3>3, <3>4, <3>5 DEF NotesShowTheirAttempts
  <2> QED BY <2>1, <2>2
<1>6. PICK to \in {"posting", "reading"} : GoesOn(c, to, job[c])
  BY GotoGoesOn DEF RecordPublish, PostNote
<1>7. hand' = [hand EXCEPT ![c] = hand[c]]
  BY <1>4 DEF GateInv, GateTyped
<1>8. PICK g \in Held, k \in Job : g = hand[c] /\ k = job[c]
  BY <1>1
<1>9. Papers(to, k, g)'
  <2>1. g.note # NoNote /\ g.note[1] = k.run /\ Exists(g.note)'
    BY <1>2, <1>3, <1>4, <1>8, RunsAreNotNull DEF Exists
  <2> QED BY <2>1 DEF Papers
<1>10. to \in SurfacePlaces /\ to \notin {"recording", "deciding"}
  BY DEF SurfacePlaces
<1> QED BY <1>1, <1>2, <1>4, <1>5, <1>6, <1>7, <1>8, <1>9, <1>10, ClerkGoesOn

\* The note in hand is read back, for whichever attempt waits now.
LEMMA ReadBackStep ==
    ASSUME Known, GateInv, NEW c \in Clerks, ReadBack(c)
    PROVE  KernelInv' /\ GateInv'
<1>1. /\ c \in Procs /\ hand[c] \in Held /\ HandFits(c) /\ pc[c] = "reading"
  BY ClerkHolds DEF ReadBack
<1>2. Untouched /\ UNCHANGED <<notes, posted>>
  BY ReceiptsTouchNothing DEF ReadBack, RecordSurfaceReceipt, Waiting
<1>3. CASE GiveUp(c)
  BY <1>1, <1>2, <1>3, VaultKept, ClerkGivesUp
<1>4. CASE \E r \in Runs : About(c, "querying", r, hand[c])
  <2>1. PICK r \in Runs : About(c, "querying", r, hand[c])
    BY <1>4
  <2>2. hand[c].note # NoNote /\ Exists(hand[c].note)
    BY <1>1 DEF HandFits, HasNote
  <2>3. "querying" \in SurfacePlaces
    BY DEF SurfacePlaces
  <2> QED BY <1>1, <1>2, <2>1, <2>2, <2>3, AboutKeeps
<1> QED BY <1>3, <1>4 DEF ReadBack, Waiting

\* A job about to decide without an accepted decision holds nothing.
LEMMA DecidesAgainst ==
    ASSUME Known, GateInv, Untouched, UNCHANGED <<notes, posted>>, NEW c \in Procs,
           NEW r \in Runs, Goto(c, "deciding", [NoJob EXCEPT !.run = r, !.verdict = "invalid"]),
           hand' = [hand EXCEPT ![c] = NoHand]
    PROVE  KernelInv' /\ GateInv'
<1> DEFINE j == [NoJob EXCEPT !.run = r, !.verdict = "invalid"]
<1>1. "invalid" \in JobVerdicts
  BY DEF JobVerdicts
<1>2. j \in Job /\ j.run = r /\ j.next = <<>> /\ j.verdict = "invalid"
  BY <1>1, JobAbout
<1>3. GoesOn(c, "deciding", j)
  BY GotoGoesOn
<1> HIDE DEF j
<1>4. PICK g \in Held, k \in Job : g = NoHand /\ k = j
  BY <1>2, NoHandIsHeld
<1>5. Papers("deciding", k, g)'
  BY <1>2, <1>4 DEF Papers, HasNote
<1>6. VaultTyped' /\ NotesShowTheirAttempts' /\ NotesKept
  BY VaultKept
<1> QED BY <1>2, <1>3, <1>4, <1>5, <1>6, ClerkGoesOn

\* A readable decision is taken from the note that shows the expected action.
LEMMA CollectNoteStep ==
    ASSUME Known, GateInv, NEW c \in Clerks, CollectNote(c)
    PROVE  KernelInv' /\ GateInv'
<1> DEFINE r == job[c].run
           h == hand[c]
<1>1. /\ c \in Procs /\ h \in Held /\ HandFits(c) /\ pc[c] = "collecting"
  BY ClerkHolds DEF CollectNote
<1>2. r \in Runs /\ h.note \in NoteIds /\ Exists(h.note)
  BY <1>1, ClerkHolds DEF HandFits, SurfacePlaces, HasNote
<1>3. Untouched /\ UNCHANGED <<notes, posted>>
  BY <1>2, ReceiptsTouchNothing DEF CollectNote, RecordSurfaceReceipt
<1>4. CASE Readable(h.note, h.print)
  <2>1. PICK d \in notes[h.note].checks : About(c, "judging", r, [h EXCEPT !.choice = d])
    BY <1>4 DEF CollectNote
  <2>2. d \in Choices
    BY <1>2, <2>1 DEF GateInv, GateTyped
  <2> DEFINE new == [h EXCEPT !.choice = d]
  <2>3. new \in Held /\ new.choice = d /\ new.note = h.note /\ new.print = h.print
    BY <1>1, <2>2, HandsHeld
  <2>4. About(c, "judging", r, new)
    BY <2>1
  <2> HIDE DEF new
  <2>5. ReadFromNote(new)
    BY <1>2, <1>4, <2>2, <2>3 DEF ReadFromNote, Readable
  <2>6. "judging" \in SurfacePlaces /\ "judging" \notin HasNote
    BY DEF SurfacePlaces, HasNote
  <2> QED BY <1>1, <1>2, <1>3, <2>3, <2>4, <2>5, <2>6, AboutKeeps
<1>5. CASE ~Readable(h.note, h.print)
  BY <1>1, <1>2, <1>3, <1>5, DecidesAgainst DEF CollectNote
<1> QED BY <1>4, <1>5

\* A decision is about to be recorded if it fits the fingerprint of the attempt
\* that waits now.
LEMMA JudgeDecisionStep ==
    ASSUME Known, GateInv, NEW c \in Clerks, JudgeDecision(c)
    PROVE  KernelInv' /\ GateInv'
<1>1. /\ c \in Procs /\ hand[c] \in Held /\ HandFits(c) /\ pc[c] = "judging"
  BY ClerkHolds DEF JudgeDecision
<1>2. Untouched /\ UNCHANGED <<notes, posted>>
  BY ReceiptsTouchNothing DEF JudgeDecision
<1>3. CASE GiveUp(c)
  BY <1>1, <1>2, <1>3, VaultKept, ClerkGivesUp
<1>4. ASSUME NEW r \in Waiting(InstanceOf(job[c].run)), hand[c].print = Fingerprint(r),
             NEW v \in {"accepted", "unrouted"},
             Goto(c, "recording", [NoJob EXCEPT !.run = r, !.verdict = v]), UNCHANGED hand
      PROVE  KernelInv' /\ GateInv'
  <2> DEFINE j == [NoJob EXCEPT !.run = r, !.verdict = v]
  <2>1. r \in Runs /\ run[r].status = "waiting_on_human" /\ v \in JobVerdicts
    BY DEF Waiting, JobVerdicts
  <2>2. j \in Job /\ j.run = r /\ j.next = <<>>
    BY <2>1, JobAbout
  <2>3. GoesOn(c, "recording", j)
    BY <1>4, GotoGoesOn
  <2> HIDE DEF j
  <2>4. hand' = [hand EXCEPT ![c] = hand[c]]
    BY <1>4 DEF GateInv, GateTyped
  <2>5. PICK g \in Held, k \in Job : g = hand[c] /\ k = j
    BY <1>1, <2>2
  <2>6. VaultTyped' /\ NotesShowTheirAttempts' /\ NotesKept
    BY <1>2, VaultKept
  <2>7. ReadFromNote(g)'
    <3>1. ReadFromNote(g)
      BY <1>1, <2>5 DEF HandFits
    <3> QED BY <2>6, <3>1, ReadingsKept
  <2>8. g.print.run = k.run /\ Opened(k.run)'
    <3>1. g.print.run = r
      BY <1>4, <2>1, <2>5, FingerprintNames DEF Known
    <3>2. run'[r].status = "waiting_on_human"
      BY <1>2, <2>1 DEF Untouched
    <3> QED BY <2>2, <2>5, <3>1, <3>2 DEF Opened
  <2>9. Papers("recording", k, g)'
    BY <2>7, <2>8 DEF Papers, HasNote
  <2> QED BY <1>1, <1>2, <2>1, <2>2, <2>3, <2>4, <2>5, <2>6, <2>9, ClerkGoesOn
<1>5. ASSUME NEW r \in Waiting(InstanceOf(job[c].run)),
             Goto(c, "deciding", [NoJob EXCEPT !.run = r, !.verdict = "invalid"]),
             hand' = [hand EXCEPT ![c] = NoHand]
      PROVE  KernelInv' /\ GateInv'
  <2>1. r \in Runs
    BY DEF Waiting
  <2> QED BY <1>1, <1>2, <1>5, <2>1, DecidesAgainst
<1> QED BY <1>3, <1>4, <1>5 DEF JudgeDecision

\* The decision that is recorded was read from a note of its attempt.
LEMMA RecordAnswerStep ==
    ASSUME Known, GateInv, NEW c \in Clerks, RecordAnswer(c)
    PROVE  KernelInv' /\ GateInv'
<1> USE DEF Known
<1> DEFINE r == job[c].run
           new == [hand |-> hand[c], verdict |-> job[c].verdict]
<1>1. /\ c \in Procs /\ hand[c] \in Held /\ job[c] \in Job /\ HandFits(c)
      /\ pc[c] = "recording" /\ r \in Runs
  BY ClerkHolds DEF RecordAnswer, Remembers
<1>2. UNCHANGED <<notes, posted>>
  BY DEF RecordAnswer
<1>3. VaultTyped' /\ NotesShowTheirAttempts' /\ NotesKept
  BY <1>2, VaultKept
<1>4. CASE r \in decided
  <2>1. GiveUp(c) /\ Untouched
    BY <1>4, ReceiptsTouchNothing DEF RecordAnswer
  <2> QED BY <1>1, <1>3, <2>1, ClerkGivesUp
<1>5. CASE r \notin decided
  <2>1. /\ RecordDecision(c) /\ hand' = [hand EXCEPT ![c] = NoHand]
        /\ basis' = [basis EXCEPT ![r] = new]
    BY <1>5 DEF RecordAnswer
  <2>2. KernelInv'
    BY <1>1, <2>1, RecordDecisionStep
  <2>3. /\ UNCHANGED run /\ decided' = decided \cup {r} /\ GoesOn(c, "deciding", job[c])
    BY <2>1, GotoGoesOn DEF RecordDecision, RecordHumanDecision
  <2>4. /\ pc'[c] = "deciding" /\ job'[c] = job[c]
        /\ \A q \in Procs \ {c} : StaysPut(q) /\ hand'[q] = hand[q]
    <3>1. /\ pc'[c] = "deciding" /\ job'[c] = job[c]
          /\ \A q \in Procs \ {c} : StaysPut(q)
      BY <1>1, <2>3 DEF GoesOn, KernelInv, MemoryOK, StaysPut
    <3>2. \A q \in Procs \ {c} : hand'[q] = hand[q]
      BY <2>1 DEF GateInv, GateTyped
    <3> QED BY <3>1, <3>2
  <2>5. new \in Basis /\ new.hand = hand[c]
    BY <1>1 DEF Basis, Job
  <2> HIDE DEF new
  <2>6. GateTyped'
    BY <1>3, <2>1, <2>5, NoHandIsHeld DEF VaultTyped, GateInv, GateTyped
  <2>7. OpenedKept
    BY <2>3 DEF OpenedKept, Opened
  <2>8. HandFits(c)' /\ StopsAtGate(c)'
    BY <2>3, <2>4 DEF HandFits, SurfacePlaces, HasNote, StopsAtGate
  <2>9. ASSUME NEW q \in Procs \ {c} PROVE HandFits(q)' /\ StopsAtGate(q)'
    <3>1. decided \subseteq decided'
      BY <2>3
    <3> QED BY <1>3, <2>4, <2>7, <3>1, OthersFit
  <2>10. ASSUME NEW q \in Runs \ {r} PROVE AnswerFits(q)'
    <3>1. AnswerFits(q) /\ basis'[q] = basis[q] /\ (q \in decided' <=> q \in decided)
      BY <2>1, <2>3 DEF GateInv, GateTyped
    <3>2. q \in decided => ReadFromNote(basis[q].hand)
      BY <3>1 DEF AnswerFits
    <3>3. ReadFromNote(basis[q].hand) => ReadFromNote(basis[q].hand)'
      BY <1>2, <3>1 DEF ReadFromNote, Exists
    <3>4. q \in decided => Opened(q)'
      BY <2>7, <3>1 DEF OpenedKept, AnswerFits
    <3> QED BY <2>3, <3>1, <3>2, <3>3, <3>4 DEF AnswerFits
  <2>11. AnswerFits(r)'
    <3>1. r \in decided' /\ basis'[r].hand = hand[c]
      BY <1>1, <2>1, <2>3, <2>5 DEF GateInv, GateTyped
    <3>2. ReadFromNote(hand[c]) /\ hand[c].print.run = r /\ Opened(r)
      BY <1>1 DEF HandFits
    <3>3. ReadFromNote(basis[r].hand)'
      BY <1>2, <2>4, <3>1, <3>2 DEF ReadFromNote, Exists
    <3>4. hand[c].note[1] = r
      BY <3>2 DEF ReadFromNote, GateInv, NotesShowTheirAttempts
    <3>5. Opened(r)'
      BY <2>3, <2>4, <3>2 DEF Opened
    <3> QED BY <2>4, <3>1, <3>2, <3>3, <3>4, <3>5 DEF AnswerFits
  <2>12. \A q \in Runs : AnswerFits(q)'
    <3>1. \A q \in Runs : q = r => AnswerFits(q)'
      BY <2>4, <2>11 DEF AnswerFits, ReadFromNote, Exists, Opened
    <3> QED BY <2>10, <3>1
  <2> QED BY <1>3, <2>2, <2>6, <2>8, <2>9, <2>12 DEF GateInv
<1> QED BY <1>4, <1>5

\* A box that is ticked changes nothing a note shows.
LEMMA TickBoxStep ==
    ASSUME Known, GateInv, NEW n \in NoteIds, NEW d \in Choices, TickBox(n, d)
    PROVE  KernelInv' /\ GateInv'
<1> USE DEF Known
<1>1. /\ UNCHANGED <<run, grants, starts, effects, pc, job, decided, posted, hand, basis>>
      /\ \A m \in NoteIds : notes'[m].print = notes[m].print
      /\ notes' \in [NoteIds -> [print : NotePrint, checks : SUBSET Choices]]
  <2>1. UNCHANGED <<run, grants, starts, effects, pc, job, decided, posted, hand, basis>>
    BY DEF TickBox, kvars, vars, ledger, history, local
  <2> DEFINE checks == IF d \in notes[n].checks THEN notes[n].checks \ {d}
                       ELSE notes[n].checks \cup {d}
  <2>2. notes' = [notes EXCEPT ![n] = [notes[n] EXCEPT !.checks = checks]]
    BY DEF TickBox, GateInv, GateTyped
  <2>3. checks \subseteq Choices
    BY DEF GateInv, GateTyped
  <2> HIDE DEF checks
  <2>4. /\ [notes[n] EXCEPT !.checks = checks].print = notes[n].print
        /\ [notes[n] EXCEPT !.checks = checks] \in [print : NotePrint, checks : SUBSET Choices]
    BY <2>3 DEF GateInv, GateTyped
  <2>5. /\ \A m \in NoteIds : notes'[m].print = notes[m].print
        /\ notes' \in [NoteIds -> [print : NotePrint, checks : SUBSET Choices]]
    BY <2>2, <2>4 DEF GateInv, GateTyped
  <2> QED BY <2>1, <2>5
<1>2. KernelInv'
  BY <1>1, QuietKeepsRows, NothingAppended
<1>3. GateTyped'
  BY <1>1 DEF GateInv, GateTyped
<1>4. NotesKept
  BY <1>1 DEF NotesKept
<1>5. NotesShowTheirAttempts'
  <2>1. \A m \in NoteIds : Exists(m)' <=> Exists(m)
    BY <1>1 DEF Exists
  <2>2. \A r \in Runs : posted[r] # NoNote => Exists(posted[r])'
    BY <1>1 DEF GateInv, GateTyped, NotesShowTheirAttempts, Exists
  <2> QED BY <1>1, <2>1, <2>2 DEF GateInv, NotesShowTheirAttempts
<1>6. OpenedKept /\ SuccessesDecided
  BY <1>1, QuietFails, NoSuccessIsDecided DEF OpenedKept, Opened
<1>7. ASSUME NEW q \in Procs PROVE HandFits(q)' /\ StopsAtGate(q)'
  BY <1>1, <1>4, <1>6, OthersFit DEF StaysPut
<1>8. \A r \in Runs : AnswerFits(r)'
  BY <1>1, <1>4, <1>6, AnswersKept
<1> QED BY <1>2, <1>3, <1>5, <1>7, <1>8 DEF GateInv

\* A job that dies loses what it holds, and the vault keeps what it shows.
LEMMA CrashInGateStep ==
    ASSUME Known, GateInv, NEW p \in Procs, CrashInGate(p)
    PROVE  KernelInv' /\ GateInv'
<1> USE DEF Known
<1>1. /\ Untouched /\ UNCHANGED <<notes, posted>>
      /\ GoesOn(p, "idle", NoJob) /\ hand' = [hand EXCEPT ![p] = NoHand]
  <2>1. Untouched
    BY ReceiptsTouchNothing DEF CrashInGate, Crash
  <2> QED BY <2>1 DEF CrashInGate, Crash, GoesOn
<1>2. KernelInv'
  BY CrashStep DEF CrashInGate
<1>3. VaultTyped' /\ NotesShowTheirAttempts' /\ NotesKept
  BY <1>1, VaultKept
<1>4. /\ pc'[p] = "idle"
      /\ \A q \in Procs \ {p} : StaysPut(q) /\ hand'[q] = hand[q]
  BY <1>1 DEF GoesOn, KernelInv, MemoryOK, StaysPut, GateInv, GateTyped
<1>5. OpenedKept /\ SuccessesDecided /\ UNCHANGED <<decided, basis>>
  BY <1>1, QuietFails, NoSuccessIsDecided DEF Untouched, OpenedKept, Opened
<1>6. GateTyped'
  BY <1>1, <1>3, NoHandIsHeld DEF VaultTyped, GateInv, GateTyped, Untouched
<1>7. HandFits(p)' /\ StopsAtGate(p)'
  BY <1>4 DEF HandFits, SurfacePlaces, HasNote, StopsAtGate
<1>8. ASSUME NEW q \in Procs \ {p} PROVE HandFits(q)' /\ StopsAtGate(q)'
  BY <1>3, <1>4, <1>5, OthersFit
<1>9. \A r \in Runs : AnswerFits(r)'
  BY <1>3, <1>5, AnswersKept
<1> QED BY <1>2, <1>3, <1>6, <1>7, <1>8, <1>9 DEF GateInv

-----------------------------------------------------------------------------
(* Every step                                                              *)

\* The jobs at the surface do to the ledger what it allows.
LEMMA SurfaceUsesLedger ==
    ASSUME TypeOK, KernelInv, GateInv, NEW c \in Clerks, Publishing(c) \/ Ingesting(c)
    PROVE  [Next]_vars
<1>0. c \in Procs /\ HandFits(c)
  BY DEF Procs, GateInv
<1>1. CASE RecordPublish(c)
  <2>1. job[c].run \in Runs
    BY <1>0, <1>1 DEF RecordPublish, HandFits, SurfacePlaces
  <2> QED BY <1>1, <2>1 DEF RecordPublish, Next, GateStep
<1>2. CASE FindGate(c) \/ PreparePacket(c) \/ PlaceNote(c) \/ PostNote(c) \/ PrepareQuery(c)
           \/ JudgeDecision(c)
  BY <1>2 DEF FindGate, PreparePacket, PlaceNote, PostNote, PrepareQuery, JudgeDecision
<1>3. CASE ReadBack(c)
  BY <1>3 DEF ReadBack, Waiting, RecordSurfaceReceipt, Next, GateStep
<1>4. CASE CollectNote(c)
  <2>1. job[c].run \in Runs
    BY <1>0, <1>4 DEF CollectNote, HandFits, SurfacePlaces
  <2> QED BY <1>4, <2>1 DEF CollectNote, RecordSurfaceReceipt, Next, GateStep
<1>5. CASE RecordAnswer(c)
  BY <1>0, <1>5, DecisionUsesLedger DEF RecordAnswer
<1>6. CASE CompleteGate(c)
  BY <1>0, <1>6, DecisionUsesLedger
<1> QED BY <1>1, <1>2, <1>3, <1>4, <1>5, <1>6 DEF Publishing, Ingesting

\* What happens beside the surface is a step of the kernel.
LEMMA ElsewhereIsKernel == Elsewhere => KNext
BY DEF Elsewhere, KNext, Procs

\* Whatever a job, a person, a process, an operator or the clock does, the
\* ledger allows it.
LEMMA GateUsesLedger == TypeOK /\ KernelInv /\ GateInv /\ [GNext]_gvars => [Next]_vars
<1> SUFFICES ASSUME TypeOK, KernelInv, GateInv, [GNext]_gvars PROVE [Next]_vars
  OBVIOUS
<1>1. Elsewhere => [Next]_vars
  BY ElsewhereIsKernel, KernelUsesLedger
<1>2. ASSUME NEW p \in Procs, CrashInGate(p) PROVE [Next]_vars
  BY <1>2 DEF CrashInGate, Crash
<1>3. ASSUME NEW n, NEW d, TickBox(n, d) PROVE [Next]_vars
  BY <1>3 DEF TickBox, kvars
<1>4. UNCHANGED gvars => UNCHANGED vars
  BY DEF gvars, kvars
<1> QED BY <1>1, <1>2, <1>3, <1>4, SurfaceUsesLedger DEF GNext

\* What is known of every step, and that nothing takes up an attempt that has
\* waited.
LEMMA GateStepKnown ==
    ASSUME TypeOK, LedgerInv, KernelInv, GateInv, [GNext]_gvars
    PROVE  Known /\ OpenedKept /\ LedgerInv'
<1>1. [Next]_vars
  BY GateUsesLedger
<1> QED BY <1>1, StepTypeOK, InstancesStay, OpenedStays, StepLedgerInv DEF Known

\* Whatever a job, a person, a process, an operator or the clock does keeps the
\* invariants of the kernel and of the surface.
LEMMA StepGateInv ==
    TypeOK /\ LedgerInv /\ KernelInv /\ GateInv /\ [GNext]_gvars => KernelInv' /\ GateInv'
<1> SUFFICES ASSUME TypeOK, LedgerInv, KernelInv, GateInv, [GNext]_gvars
             PROVE  KernelInv' /\ GateInv'
  OBVIOUS
<1>1. Known /\ OpenedKept
  BY GateStepKnown
<1>2. ASSUME NEW c \in Clerks, Publishing(c) PROVE KernelInv' /\ GateInv'
  BY <1>1, <1>2, FindGateStep, PrepareStep, PlaceNoteStep, PublishedStep, ReadBackStep
     DEF Publishing
<1>3. ASSUME NEW c \in Clerks, Ingesting(c) PROVE KernelInv' /\ GateInv'
  <2>1. CASE CompleteGate(c) /\ UNCHANGED surface
    <3>1. c \in Procs
      BY DEF Procs
    <3>2. KernelInv'
      BY <1>1, <2>1, <3>1, CompleteGateStep
    <3>3. Beside
      BY <1>1, <2>1 DEF Beside
    <3> QED BY <2>1, <3>1, <3>2, <3>3, CompleteBeside
  <2> QED
    BY <1>1, <1>3, <2>1, PrepareStep, CollectNoteStep, JudgeDecisionStep, RecordAnswerStep
       DEF Ingesting
<1>4. CASE Elsewhere
  <2>1. KernelInv'
    BY <1>4, ElsewhereIsKernel, StepKernelInv
  <2>2. Beside
    BY <1>1, <1>4 DEF Beside, Elsewhere
  <2>3. ASSUME NEW w \in Workers, Work(w) PROVE GateInv'
    BY <2>2, <2>3, FetchBeside, ExecuteBeside, SettleBeside DEF Work
  <2>4. ASSUME NEW w \in Workers, NEW i \in Instances, StartWorkflow(w, i) PROVE GateInv'
    BY <2>2, <2>4, FinishBeside DEF Procs
  <2> QED BY <1>4, <2>1, <2>2, <2>3, <2>4, FinishBeside, OperateBeside DEF Elsewhere
<1>5. CASE UNCHANGED gvars
  <2>1. UNCHANGED <<run, grants, starts, effects, pc, job, decided, surface>>
    BY <1>5 DEF gvars, kvars, vars, ledger, history, local
  <2>2. SuccessesDecided
    BY <2>1, QuietFails, NoSuccessIsDecided
  <2> QED BY <1>1, <2>1, <2>2, QuietKeepsRows, NothingAppended, NobodyElsewhere
<1> QED BY <1>1, <1>2, <1>3, <1>4, <1>5, TickBoxStep, CrashInGateStep DEF GNext

\* No note exists, nobody holds one and nothing is decided.
LEMMA InitGateInv == GInit => GateInv
<1> SUFFICES ASSUME GInit PROVE GateInv
  OBVIOUS
<1>1. /\ \A r \in Runs : run[r].status = "absent"
      /\ \A p \in Procs : pc[p] = "idle" /\ hand[p] = NoHand
      /\ decided = {} /\ notes = [n \in NoteIds |-> Blank]
      /\ posted = [r \in Runs |-> NoNote]
  BY DEF GInit, KInit, Init, AbsentRow
<1>2. GateTyped
  <2>1. Blank \in [print : NotePrint, checks : SUBSET Choices]
    BY DEF Blank, NoPrint, NotePrint
  <2>2. basis \in [Runs -> Basis]
    BY NoHandIsHeld DEF GInit, Basis, JobVerdicts
  <2>3. hand \in [Procs -> Held]
    BY NoHandIsHeld DEF GInit
  <2> QED BY <1>1, <2>1, <2>2, <2>3 DEF GateTyped
<1>3. NotesShowTheirAttempts
  BY <1>1 DEF NotesShowTheirAttempts, Exists, Blank
<1>4. \A p \in Procs : HandFits(p) /\ StopsAtGate(p)
  BY <1>1 DEF HandFits, StopsAtGate, SurfacePlaces, HasNote
<1>5. \A r \in Runs : AnswerFits(r)
  <2>1. \A r \in Runs : basis[r].hand.choice = NoChoice
    BY DEF GInit, NoHand
  <2> QED BY <1>1, <2>1 DEF AnswerFits
<1> QED BY <1>2, <1>3, <1>4, <1>5 DEF GateInv

-----------------------------------------------------------------------------
(* The theorems                                                            *)

\* In every reachable state of the review surface the kernel is sound, jobs
\* hold notes of the attempts they are about, decisions on record were read from
\* a note of their attempt, and a gate has passed on such a decision only.
THEOREM GateInvariant == GSpec => [](TypeOK /\ LedgerInv /\ KernelInv /\ GateInv)
<1>1. GInit => TypeOK /\ LedgerInv /\ KernelInv /\ GateInv
  BY InitTypeOK, InitLedgerInv, InitKernelInv, InitGateInv DEF GInit, KInit
<1>2. TypeOK /\ LedgerInv /\ KernelInv /\ GateInv /\ [GNext]_gvars
        => (TypeOK /\ LedgerInv /\ KernelInv /\ GateInv)'
  BY GateStepKnown, StepGateInv DEF Known
<1> QED BY <1>1, <1>2, PTL DEF GSpec

\* The jobs of the surface call the ledger only as its specification lets a
\* caller: attempts are executed at most once beside them too.
THEOREM GateUsesLedgerAsSpecified == GSpec => UsesLedgerAsSpecified
<1>1. GInit => Init
  BY DEF GInit, KInit
<1> QED BY <1>1, GateUsesLedger, GateInvariant, PTL DEF GSpec, UsesLedgerAsSpecified, Spec

\* One thread of control per instance, with the surface in use.
THEOREM GateKeepsOneThread == GSpec => []SingleThread
BY GateInvariant, OneThreadCounts, PTL

\* Beside the surface too, an attempt is executed at most once, its adapter is
\* invoked at most once, and no effect is silently repeated.
THEOREM GateEffectsAreSafe ==
    GSpec => AtMostOnceExecution /\ []EffectOncePerAttempt /\ []NoSilentReexecution
<1>1. GSpec => AtMostOnceExecution
  BY GateUsesLedgerAsSpecified, ImplementsStageExecution, PTL DEF UsesLedgerAsSpecified
<1>2. KernelInv => EffectOncePerAttempt
  BY DEF KernelInv, EffectInv, EffectOncePerAttempt
<1> QED BY <1>1, <1>2, GateInvariant, NothingSilent, PTL

\* Notes, events and what the jobs hold have their types, and the note a job is
\* about to record, read or collect exists.
THEOREM GateTypeCorrect == GSpec => []GateTypeOK
<1>1. GateInv => GateTypeOK
  BY DEF GateInv, GateTyped, NotesShowTheirAttempts, HandFits, HasNote, GateTypeOK, Procs
<1> QED BY <1>1, GateInvariant, PTL

\* "An approval governs one immutable workflow attempt": for any number of jobs,
\* reissues and crashes, a recorded decision was read from a note that was
\* published for exactly that attempt and still shows what it showed.
THEOREM DecisionsFitTheirAttempts == GSpec => []DecisionFitsAttempt
<1>1. TypeOK /\ GateInv => DecisionFitsAttempt
  BY DEF TypeOK, GateInv, AnswerFits, ReadFromNote, DecisionFitsAttempt
<1> QED BY <1>1, GateInvariant, PTL

\* What one step may do to the notes that exist.
LEMMA NotesStep ==
    ASSUME KernelInv, GateInv, [GNext]_gvars, NEW n \in NoteIds, Exists(n)
    PROVE  /\ notes'[n].print = notes[n].print
           /\ notes'[n].checks # notes[n].checks => \E d \in Choices : TickBox(n, d)
<1>1. CASE UNCHANGED notes
  BY <1>1
<1>2. ASSUME NEW c \in Clerks, PlaceNote(c) PROVE notes'[n] = notes[n]
  BY <1>2 DEF PlaceNote, GateInv, GateTyped
<1>3. ASSUME NEW m \in NoteIds, NEW d \in Choices, TickBox(m, d)
      PROVE  /\ notes'[n].print = notes[n].print
             /\ notes'[n].checks # notes[n].checks => TickBox(n, d)
  <2> DEFINE checks == IF d \in notes[m].checks THEN notes[m].checks \ {d}
                       ELSE notes[m].checks \cup {d}
  <2>1. notes' = [notes EXCEPT ![m] = [notes[m] EXCEPT !.checks = checks]]
    BY <1>3 DEF TickBox, GateInv, GateTyped
  <2> HIDE DEF checks
  <2>2. [notes[m] EXCEPT !.checks = checks].print = notes[m].print
    BY DEF GateInv, GateTyped
  <2>3. CASE m = n
    BY <1>3, <2>1, <2>2, <2>3 DEF GateInv, GateTyped
  <2>4. CASE m # n
    BY <2>1, <2>4 DEF GateInv, GateTyped
  <2> QED BY <2>3, <2>4
<1>4. \/ UNCHANGED notes \/ (\E c \in Clerks : PlaceNote(c))
      \/ \E m \in NoteIds, d \in Choices : TickBox(m, d)
  BY DEF GNext, gvars, surface, Publishing, Ingesting, FindGate, PreparePacket, RecordPublish,
     PostNote, ReadBack, PrepareQuery, CollectNote, JudgeDecision, RecordAnswer, CrashInGate,
     Elsewhere
<1> QED BY <1>1, <1>2, <1>3, <1>4

\* A note that exists keeps what it shows, and only a person touches its boxes:
\* publishing again after a crash or beside another job loses no mark.
THEOREM NotesAreKeptAlways == GSpec => NotesAreKept
<1>1. KernelInv /\ GateInv /\ [GNext]_gvars =>
        [\A n \in NoteIds : Exists(n) =>
           /\ notes'[n].print = notes[n].print
           /\ notes'[n].checks # notes[n].checks => \E d \in Choices : TickBox(n, d)]_gvars
  BY NotesStep
<1> QED BY <1>1, GateInvariant, PTL DEF GSpec, NotesAreKept

-----------------------------------------------------------------------------
(* The surface, the kernel and the ledger implement ReviewGate             *)

\* An answer changes only when the decision of an attempt without one is
\* recorded.
LEMMA AnswersChange ==
    ASSUME KernelInv, GateInv, [GNext]_gvars, NEW r \in Runs
    PROVE  \/ basis'[r] = basis[r]
           \/ r \notin decided /\ r \in decided' /\ UNCHANGED run
<1>1. CASE UNCHANGED basis
  BY <1>1
<1>2. ASSUME NEW c \in Clerks, RecordAnswer(c)
      PROVE  \/ basis'[r] = basis[r]
             \/ r \notin decided /\ r \in decided' /\ UNCHANGED run
  BY <1>2 DEF RecordAnswer, RecordDecision, RecordHumanDecision, GateInv, GateTyped
<1>3. UNCHANGED basis \/ \E c \in Clerks : RecordAnswer(c)
  BY DEF GNext, gvars, surface, Publishing, Ingesting, FindGate, PreparePacket, PlaceNote,
     RecordPublish, PostNote, ReadBack, PrepareQuery, CollectNote, JudgeDecision,
     CrashInGate, TickBox, Elsewhere
<1> QED BY <1>1, <1>2, <1>3

\* An attempt is answered exactly if its decision is on record.
LEMMA AnsweredIsDecided ==
    ASSUME GateInv, NEW r \in Runs
    PROVE  /\ r \in decided <=> basis[r].hand.choice # NoChoice
           /\ r \in decided => basis[r].hand.choice \in Choices /\ Opened(r)
BY NoChoiceIsNone DEF GateInv, AnswerFits, ReadFromNote

\* The first states are an initial state of ReviewGate.
LEMMA InitReviews == GInit => Review!Init
<1> SUFFICES ASSUME GInit PROVE Review!Init
  OBVIOUS
<1>1. \A r \in GateRuns : GatePhase(run[r].status) = "unopened"
                          /\ basis[r].hand.choice = NoChoice
  BY DEF GInit, KInit, Init, AbsentRow, GatePhase, GateRuns, NoHand
<1> QED BY <1>1 DEF Review!Init

\* A status move of a gate attempt with the answer as it is.
LEMMA GateMoves ==
    ASSUME GateInv, GateInv', NEW r \in GateRuns, basis'[r] = basis[r],
           RowMoves(r), run'[r].status # run[r].status
    PROVE  LET from == GatePhase(run[r].status)
               to   == GatePhase(run'[r].status)
           IN  \/ from = to
               \/ /\ <<from, to>> \in Review!Moves
                  /\ to = "passed" => basis[r].hand.choice # NoChoice
                  /\ from = "refused" => basis[r].hand.choice = NoChoice
<1>0. r \in Runs /\ StageOf(r) \in Gates
  BY DEF GateRuns
<1> DEFINE s == run[r].status
           t == run'[r].status
<1>1. <<s, t>> \in StatusMoves
  BY DEF RowMoves, Stays
<1>2. t = "succeeded" => basis[r].hand.choice # NoChoice /\ s = "waiting_on_human"
  <2> SUFFICES ASSUME t = "succeeded"
               PROVE  basis[r].hand.choice # NoChoice /\ s = "waiting_on_human"
    OBVIOUS
  <2>1. basis[r].hand.choice # NoChoice
    <3>1. r \in decided'
      BY <1>0 DEF GateInv, AnswerFits
    <3>2. (basis[r].hand.choice # NoChoice)'
      BY <1>0, <3>1, NoChoiceIsNone DEF GateInv, AnswerFits, ReadFromNote
    <3> QED BY <3>2
  <2>2. Opened(r)
    BY <1>0, <2>1, AnsweredIsDecided
  <2>3. s \in {"waiting_on_human", "blocked"}
    BY <1>1, <2>2, MoveFacts DEF Opened
  <2>4. s # "blocked"
    BY <1>1, MoveFacts
  <2> QED BY <2>1, <2>3, <2>4
<1>3. s = "blocked" => basis[r].hand.choice = NoChoice /\ t = "waiting_on_human"
  <2> SUFFICES ASSUME s = "blocked"
               PROVE  basis[r].hand.choice = NoChoice /\ t = "waiting_on_human"
    OBVIOUS
  <2>1. t = "waiting_on_human"
    BY <1>1, MoveFacts
  <2>2. r \notin decided
    BY <2>1 DEF RowMoves, Stays
  <2> QED BY <1>0, <2>1, <2>2, AnsweredIsDecided
<1>4. s \in {"absent", "queued", "claimed", "started", "waiting_on_human", "blocked"}
  BY <1>1, MoveFacts
<1>5. t \in Settled \cup {"waiting_on_human", "queued"}
  BY <1>1, MoveFacts
<1>6. t = "queued" => s \in {"absent", "claimed"}
  BY <1>1, MoveFacts
<1>7. s # t
  OBVIOUS
<1> HIDE DEF s, t
<1>8. CASE s = "blocked"
  BY <1>3, <1>8 DEF GatePhase, Review!Moves, s, t
<1>9. CASE s = "waiting_on_human"
  BY <1>2, <1>5, <1>6, <1>7, <1>9 DEF GatePhase, Review!Moves, Settled, s, t
<1>10. CASE s \in {"absent", "queued", "claimed", "started"}
  BY <1>2, <1>5, <1>10 DEF GatePhase, Review!Moves, Settled, s, t
<1> QED BY <1>4, <1>8, <1>9, <1>10

\* Every step moves each gate as ReviewGate lets it, or leaves it alone.
LEMMA StepReviews ==
    ASSUME TypeOK, LedgerInv, KernelInv, GateInv, GateInv', [GNext]_gvars
    PROVE  Review!Next
<1> SUFFICES ASSUME NEW r \in GateRuns PROVE Review!Moved(r)
  BY DEF Review!Next
<1>0. r \in Runs /\ StageOf(r) \in Gates
  BY DEF GateRuns
<1>1. [Next]_vars
  BY GateUsesLedger
<1>2. CASE basis'[r] # basis[r]
  <2>1. r \notin decided /\ r \in decided' /\ UNCHANGED run
    BY <1>0, <1>2, AnswersChange
  <2>2. basis[r].hand.choice = NoChoice
    BY <1>0, <2>1, AnsweredIsDecided
  <2>3. basis'[r].hand.choice \in Choices /\ Opened(r)'
    BY <1>0, <2>1 DEF GateInv, AnswerFits, ReadFromNote
  <2>4. run[r].status # "succeeded"
    BY <1>0, <2>1 DEF GateInv, AnswerFits
  <2>5. GatePhase(run[r].status) \in {"open", "refused"}
    BY <2>1, <2>3, <2>4 DEF Opened, GatePhase
  <2> QED BY <2>1, <2>2, <2>3, <2>5 DEF Review!Moved, Review!Answered
<1>3. CASE basis'[r] = basis[r] /\ RowMoves(r) /\ run'[r].status # run[r].status
  BY <1>3, GateMoves DEF Review!Moved, Review!Answered
<1>4. CASE basis'[r] = basis[r]
           /\ GatePhase(run'[r].status) = GatePhase(run[r].status)
  BY <1>4 DEF Review!Moved
<1>5. \/ RowMoves(r) /\ run'[r].status # run[r].status
      \/ GatePhase(run'[r].status) = GatePhase(run[r].status)
  BY <1>0, <1>1, StatusSteps DEF GatePhase
<1> QED BY <1>2, <1>3, <1>4, <1>5

\* A human gate passes only on an answer on record, an answer never changes, and
\* an attempt that was answered is never opened again: the jobs, the kernel and
\* the ledger implement ReviewGate.
THEOREM GatesImplementReviewGate == GSpec => ImplementsReviewGate
<1>1. TypeOK /\ LedgerInv /\ KernelInv /\ GateInv /\ GateInv' /\ [GNext]_gvars =>
        [Review!Next]_<<[r \in GateRuns |-> GatePhase(run[r].status)],
                        [r \in GateRuns |-> basis[r].hand.choice]>>
  BY StepReviews
<1> QED BY <1>1, InitReviews, GateInvariant, PTL DEF GSpec, ImplementsReviewGate, Review!Spec
=============================================================================
