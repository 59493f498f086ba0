--------------------------- MODULE MCWorkflowLedger ---------------------------
(* Small instances of the ledger for TLC.                                  *)
EXTENDS WorkflowLedgerInvariant, TLC

CONSTANTS prepare, review, o1, o2

\* A local preparation stage and the review surface behind it.
TwoStages == {prepare, review}
TwoStagesFamily == (prepare :> "lane") @@ (review :> "surface")
OneStage == {prepare}
OneStageFamily == (prepare :> "runtime")

WorkerSymmetry == Permutations({o1, o2})

\* Two attempts of one stage: the instance's own status matters to repairs
\* only as running or blocked, the gate statuses are left to RepairSpec.
RetryNext ==
    \/ \E i \in Instances, s \in Stages :
         \/ InsertWorkflowInstance(i, s)
         \/ UpdateWorkflowInstance(i, "blocked", s)
         \/ CancelWorkflowInstance(i, FALSE)
    \/ QueueStep \/ LeaseStep \/ RecoveryStep \/ OperatorStep \/ Tick

RetrySpec == Init /\ [][RetryNext]_vars

\* Operator repair across two stages: workers settle what they claim, an
\* instance is only ever moved to blocked or to waiting on its gate.
RepairNext ==
    \/ \E i \in Instances :
         \/ \E s \in Stages : InsertWorkflowInstance(i, s)
         \/ \E st \in {"blocked", "waiting_on_human"} :
              UpdateWorkflowInstance(i, st, review)
    \/ QueueStep
    \/ \E g \in grants :
         \/ CompleteStageRun(g, now)
         \/ WaitStageRunForHumanDecision(g, now)
         \/ \E approval \in BOOLEAN : BlockStageRun(g, "invalid_output", approval, now)
    \/ GateStep
    \/ OperatorStep

RepairSpec == Init /\ [][RepairNext]_vars
=============================================================================
