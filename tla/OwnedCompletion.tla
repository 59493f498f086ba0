--------------------------- MODULE OwnedCompletion ---------------------------
(***************************************************************************)
(* The owned completion bridge (owned_completion.py, mapping.py): it       *)
(* imports what the OpenClaw host says of one artifact into a workflow     *)
(* capture -> acknowledgement gate -> verification -> done.                *)
(*                                                                         *)
(* A pass reads the host's files once and goes on with what it read; the   *)
(* host writes its files meanwhile, a scheduler may start a second pass    *)
(* before the first returns, and a pass may die between two ledger         *)
(* transactions.  A death inside a stage is WorkflowKernel's subject.      *)
(***************************************************************************)
EXTENDS Naturals, Sequences, SequencesExt, FiniteSets

CONSTANTS
    Bridges,        \* passes that may overlap
    MaxReceipts,    \* bound: receipts filed, less the more passes overlap
    MaxPassDeaths   \* bound: passes that die, less the more passes overlap

ASSUME BridgesExist == Bridges # {} /\ IsFiniteSet(Bridges)
ASSUME ReceiptsBound == MaxReceipts \in Nat

VARIABLES
    hostFiles,    \* the record, the handoff and the runner's receipts
    lane,         \* the workflow instance: where it is, which pass holds it
    decision,     \* handoffs the gate was decided on, in order
    imports,      \* acknowledgement-imported events
    crosswalks,   \* identities of the recorded crosswalks, and the latest
    pass,         \* each bridge pass
    crew,         \* the passes the scheduler may overlap: all, or only one
    deaths

ocVars == <<hostFiles, lane, decision, imports, crosswalks, pass, crew, deaths>>

NoReceipt == [path |-> 0, state |-> "none"]
ReceiptStates == {"open", "done", "foreign"}

(***************************************************************************)
(* Evidence: the newest receipt that is done, or else the newest, of the   *)
(* files whose names begin with the artifact's id, so another artifact's   *)
(* receipt may be among them.                                              *)
(***************************************************************************)
LatestReceipt(receipts) ==
    LET done == SelectLastInSeq(receipts, LAMBDA s : s \in {"done", "foreign"})
        at   == IF done # 0 THEN done ELSE Len(receipts)
    IN  IF at = 0 THEN NoReceipt ELSE [path |-> at, state |-> receipts[at]]

Evidence == [handoff |-> hostFiles.handoff, receipt |-> LatestReceipt(hostFiles.receipts)]

\* Mutant of Acknowledged: any handoff will do.
AcknowledgedByAny(ev) == ev.handoff # "none"

Acknowledged(ev) == ev.handoff = "acknowledged"
RunnerDone(ev)   == ev.receipt.state = "done"
Mismatched(ev)   == "foreign" \in {hostFiles.record, ev.handoff, ev.receipt.state}

\* Mutant of PredictedStop: the receipt is forgotten.
PredictedByHandoff(ev) ==
    CASE lane.at = "done"   -> "already_terminal"
      [] lane.at # "done" /\ ~Acknowledged(ev) -> "acknowledgement_missing"
      [] OTHER -> "would_reach_terminal"

(***************************************************************************)
(* The read-only plan of a pass.                                           *)
(***************************************************************************)
PredictedStop(ev) ==
    CASE lane.at = "done"   -> "already_terminal"
      [] lane.at # "done" /\ ~Acknowledged(ev) -> "acknowledgement_missing"
      [] lane.at # "done" /\ Acknowledged(ev) /\ ~RunnerDone(ev) -> "runner_missing"
      [] OTHER -> "would_reach_terminal"

(***************************************************************************)
(* The identity crosswalk of a result, by its identity fields: they        *)
(* conflict only where both crosswalks have them.                          *)
(***************************************************************************)
Crosswalk(ev) == [handoff |-> ev.handoff # "none", receipt |-> ev.receipt.path]
NoCrosswalk   == [handoff |-> FALSE, receipt |-> 0]

Conflicts(old, new) == 0 \notin {old.receipt, new.receipt} /\ old.receipt # new.receipt

NoPass == [at |-> "idle", ev |-> [handoff |-> "none", receipt |-> NoReceipt],
           plan |-> "none", out |-> "none"]

OCInit ==
    /\ hostFiles \in [record : {"own", "foreign"}, handoff : {"none"}, receipts : {<<>>}]
    /\ lane = [at |-> "absent", held |-> {}]
    /\ decision = <<>> /\ imports = 0
    /\ crosswalks = [all |-> {}, last |-> NoCrosswalk]
    /\ pass = [b \in Bridges |-> NoPass]
    /\ crew \in {Bridges, {CHOOSE b \in Bridges : TRUE}}
    /\ deaths = 0

At(b, pc)   == pass[b].at = pc
Goes(b, pc) == pass' = [pass EXCEPT ![b].at = pc]
Reports(b, status) == pass' = [pass EXCEPT ![b].at = "report", ![b].out = status]

-----------------------------------------------------------------------------
(* The host: the person's handoff and the runner's receipts. *)

WriteHandoff(h) ==
    /\ <<hostFiles.handoff, h>> \in
         {<<"none", "open">>, <<"none", "foreign">>, <<"none", "acknowledged">>,
          <<"open", "acknowledged">>}
    /\ hostFiles' = [hostFiles EXCEPT !.handoff = h]
    /\ UNCHANGED <<lane, decision, imports, crosswalks, pass, crew, deaths>>

FileReceipt(s) ==
    /\ Len(hostFiles.receipts) + Cardinality(crew) <= MaxReceipts
    /\ hostFiles' = [hostFiles EXCEPT !.receipts = Append(@, s)]
    /\ UNCHANGED <<lane, decision, imports, crosswalks, pass, crew, deaths>>

(* A pass. *)

ReadEvidence(b) ==
    /\ At(b, "idle") /\ b \in crew
    /\ pass' = [pass EXCEPT ![b] = [NoPass EXCEPT !.at = "start", !.ev = Evidence,
                                                  !.plan = PredictedStop(Evidence)]]
    /\ UNCHANGED <<hostFiles, lane, decision, imports, crosswalks, crew, deaths>>

\* The instance is started unless it is there; then its sources are compared.
StartLane(b) ==
    /\ At(b, "start")
    /\ lane' = IF lane.at = "absent" THEN [lane EXCEPT !.at = "capture"] ELSE lane
    /\ IF Mismatched(pass[b].ev) THEN Reports(b, "identity_mismatch")
       ELSE IF lane.at = "done" THEN Reports(b, "done")
       ELSE Goes(b, "drive")
    /\ UNCHANGED <<hostFiles, decision, imports, crosswalks, crew, deaths>>

Automatic == {"capture", "verify"}
StageAfter == [capture |-> "gate", verify |-> "done"]

\* run_kernel_until_idle: claim the queued stage, and then complete it, as long
\* as there is one nobody else holds.  It runs whatever stage is queued.
ClaimStage(b) ==
    /\ pass[b].at \in {"drive", "final"}
    /\ lane.at \in Automatic /\ lane.held = {}
    /\ lane' = [lane EXCEPT !.held = {b}]
    /\ UNCHANGED <<hostFiles, decision, imports, crosswalks, pass, crew, deaths>>

CompleteStage(b) ==
    /\ pass[b].at \in {"drive", "final"} /\ lane.held = {b}
    /\ lane' = [at |-> StageAfter[lane.at], held |-> {}]
    /\ UNCHANGED <<hostFiles, decision, imports, crosswalks, pass, crew, deaths>>

Idle(b) == lane.at \notin Automatic \/ lane.held \notin {{}, {b}}

\* Mutant of DriveEnds: a gate that is reached waits for the next pass.
DriveEndsAtGate(b) ==
    /\ At(b, "drive") /\ Idle(b)
    /\ IF lane.at # "gate" THEN Goes(b, "receipt") ELSE Reports(b, "waiting_on_human")
    /\ UNCHANGED <<hostFiles, lane, decision, imports, crosswalks, crew, deaths>>

DriveEnds(b) ==
    /\ At(b, "drive") /\ Idle(b)
    /\ IF lane.at # "gate" THEN Goes(b, "receipt")
       ELSE IF Acknowledged(pass[b].ev) THEN Goes(b, "ingest")
       ELSE Reports(b, "waiting_on_human")
    /\ UNCHANGED <<hostFiles, lane, decision, imports, crosswalks, crew, deaths>>

\* The kernel takes a decision only while the gate waits: it raises otherwise.
IngestHandoff(b) ==
    /\ At(b, "ingest")
    /\ IF lane.at = "gate"
       THEN /\ lane' = [lane EXCEPT !.at = "verify"]
            /\ decision' = Append(decision, pass[b].ev.handoff)
            /\ Goes(b, "import")
       ELSE /\ pass' = [pass EXCEPT ![b] = NoPass]
            /\ UNCHANGED <<lane, decision>>
    /\ UNCHANGED <<hostFiles, imports, crosswalks, crew, deaths>>

ImportHandoff(b) ==
    /\ At(b, "import")
    /\ imports' = imports + 1
    /\ Goes(b, "receipt")
    /\ UNCHANGED <<hostFiles, lane, decision, crosswalks, crew, deaths>>

CheckReceipt(b) ==
    /\ At(b, "receipt")
    /\ IF RunnerDone(pass[b].ev) THEN Goes(b, "final")
       ELSE Reports(b, "waiting_on_openclaw_runner")
    /\ UNCHANGED <<hostFiles, lane, decision, imports, crosswalks, crew, deaths>>

FinalEnds(b) ==
    /\ At(b, "final") /\ Idle(b)
    /\ Reports(b, IF lane.at = "done" THEN "done" ELSE "idle")
    /\ UNCHANGED <<hostFiles, lane, decision, imports, crosswalks, crew, deaths>>

\* Mutant of CompareCrosswalk: only the sources of this pass are compared.
CompareSources(b) ==
    /\ At(b, "report")
    /\ IF Mismatched(pass[b].ev)
       THEN pass' = [pass EXCEPT ![b].at = "record", ![b].out = "identity_mismatch"]
       ELSE Goes(b, "record")
    /\ UNCHANGED <<hostFiles, lane, decision, imports, crosswalks, crew, deaths>>

\* The result's crosswalk is compared with the recorded ones ...  One with the
\* identity of an older event may be that event again, which is not recorded.
CompareCrosswalk(b) ==
    /\ At(b, "report")
    /\ LET new == Crosswalk(pass[b].ev) IN
       \/ /\ Mismatched(pass[b].ev) \/ Conflicts(crosswalks.last, new)
          /\ pass' = [pass EXCEPT ![b].at = "record", ![b].out = "identity_mismatch"]
       \/ /\ ~Mismatched(pass[b].ev) /\ new \in crosswalks.all
          /\ pass' = [pass EXCEPT ![b].at = "return"]
       \/ /\ ~Mismatched(pass[b].ev) /\ ~Conflicts(crosswalks.last, new)
          /\ Goes(b, "record")
    /\ UNCHANGED <<hostFiles, lane, decision, imports, crosswalks, crew, deaths>>

\* ... and recorded, or the rejection is, in a later transaction.
RecordCrosswalk(b) ==
    /\ At(b, "record")
    /\ LET new == Crosswalk(pass[b].ev) IN
       crosswalks' = IF pass[b].out = "identity_mismatch" THEN crosswalks
                     ELSE [all |-> crosswalks.all \cup {new}, last |-> new]
    /\ Goes(b, "return")
    /\ UNCHANGED <<hostFiles, lane, decision, imports, crew, deaths>>

Return(b) ==
    /\ At(b, "return")
    /\ pass' = [pass EXCEPT ![b] = NoPass]
    /\ UNCHANGED <<hostFiles, lane, decision, imports, crosswalks, crew, deaths>>

Dies(b) ==
    /\ deaths + Cardinality(crew) <= MaxPassDeaths
    /\ ~At(b, "idle") /\ lane.held # {b}
    /\ deaths' = deaths + 1
    /\ pass' = [pass EXCEPT ![b] = NoPass]
    /\ UNCHANGED <<hostFiles, lane, decision, imports, crosswalks, crew>>

BridgeStep(b) ==
    \/ StartLane(b) \/ ClaimStage(b) \/ CompleteStage(b) \/ DriveEnds(b)
    \/ IngestHandoff(b) \/ ImportHandoff(b) \/ CheckReceipt(b) \/ FinalEnds(b)
    \/ CompareCrosswalk(b) \/ RecordCrosswalk(b) \/ Return(b)

OCNext ==
    \/ \E h \in {"open", "acknowledged", "foreign"} : WriteHandoff(h)
    \/ \E s \in ReceiptStates : FileReceipt(s)
    \/ \E b \in Bridges : ReadEvidence(b) \/ BridgeStep(b) \/ Dies(b)

\* A started pass runs on, and the scheduler keeps starting passes.
OCFairness == \A b \in Bridges : WF_ocVars(ReadEvidence(b)) /\ WF_ocVars(BridgeStep(b))

OCSpec == OCInit /\ [][OCNext]_ocVars /\ OCFairness

-----------------------------------------------------------------------------
\* Overlapping passes decide the gate once, on a handoff that acknowledges this
\* artifact, before the verification stage is reached (ingest_human_decision,
\* OpenClawArtifactEvidence.acknowledged), and import no more than they decided.
GateDecidedOnce ==
    /\ lane.at \in {"verify", "done"} <=> decision # <<>>
    /\ Len(decision) <= 1 /\ imports <= Len(decision)
    /\ \A k \in DOMAIN decision : decision[k] = "acknowledged"

\* When passes do not overlap, a recorded crosswalk never contradicts the one
\* recorded before it (openclaw_identity_crosswalk_conflicts).
CrosswalkKeepsIdentity ==
    [][Cardinality(crew) = 1 => ~Conflicts(crosswalks.last, crosswalks'.last)]_ocVars

\* Passes that do not overlap keep a promise of the plan: an artifact said to
\* reach the end does, unless the pass rejects its identity or dies.
PlanIsKept ==
    Cardinality(crew) = 1 => \A b \in Bridges :
        At(b, "return") /\ pass[b].plan = "would_reach_terminal" =>
            pass[b].out \in {"done", "identity_mismatch"}

\* An artifact that stays acknowledged, with sources that stay its own, is
\* completed by the scheduled passes whatever died before.
AcknowledgedIsCompleted ==
    <>[](~Mismatched(Evidence) /\ Acknowledged(Evidence)) => <>(lane.at = "done")

\* The module's promise: the runner's receipt is verified before the lane's
\* work is marked terminal.
TerminalIsVerified ==
    lane.at = "done" => \E k \in DOMAIN hostFiles.receipts : hostFiles.receipts[k] = "done"
=============================================================================
