---------------------------- MODULE BlackboardBus ----------------------------
(***************************************************************************)
(* The Blackboard bus runner (scripts/openclaw_blackboard_bus_runner.py)   *)
(* and the decision-loop adapter it calls (review_loop.py).  One launch    *)
(* opens a workflow instance, runs the stages of its mode one after the    *)
(* other, each as claim, start, command and settlement, and closes the     *)
(* instance.  A scheduler may launch it again under the same instance id,  *)
(* a launch may die anywhere, and another runner on the same ledger may    *)
(* claim its queued stage or sweep a lease that the command outlasted.     *)
(***************************************************************************)
EXTENDS Naturals, Sequences

CONSTANT MaxLaunches     \* bound: launches under one instance id

VARIABLES
    task,       \* the command line, and whether the host's scripts are there
    touched,    \* what the commands changed on the host
    loops,      \* decision loops started
    bus,        \* the workflow instance
    duty,       \* its stage runs
    proof,      \* the receipt recorded for each stage
    launch,     \* the running launch
    launches

busVars == <<task, touched, loops, bus, duty, proof, launch, launches>>

Duties == {"ingest_dry_run", "plan_runner", "decision_loop",
           "attention_dry_run", "attention"}

\* The stages of a mode.  A dry run only inspects.
DutiesOf(t) ==
    CASE t.mode = "ingest" /\ t.dry     -> <<"ingest_dry_run", "plan_runner">>
      [] t.mode = "ingest" /\ ~t.dry    -> <<"decision_loop">>
      [] t.mode = "publisher" /\ t.dry  -> <<"attention_dry_run">>
      [] t.mode = "publisher" /\ ~t.dry -> <<"attention">>

\* What a command may change when it runs; it may also fail half way.
Effects(d) == CASE d = "decision_loop" -> {"decisions", "dispatch"}
                [] d = "attention"     -> {"board"}
                [] OTHER               -> {}

\* The adapter refuses before it runs anything: a script is missing, or the
\* loop was not explicitly allowed to dispatch agents.
Refused(d) == \/ d # "attention_dry_run" /\ ~task.scripts
              \/ d = "decision_loop" /\ ~task.allow

NoLaunch == [at |-> "idle", left |-> <<>>, out |-> "none", ok |-> TRUE]

BusInit ==
    /\ task \in [mode : {"ingest", "publisher"}, dry : BOOLEAN, allow : BOOLEAN,
                 ledger : BOOLEAN, scripts : BOOLEAN]
    /\ touched = {} /\ loops = 0
    /\ bus = "absent"
    /\ duty = [d \in Duties |-> "none"]
    /\ proof = [d \in Duties |-> "none"]
    /\ launch = NoLaunch /\ launches = 0

Doing(pc) == launch.at = pc
Duty == Head(launch.left)
Then(pc) == launch' = [launch EXCEPT !.at = pc]
Raise == launch' = NoLaunch

Launch ==
    /\ Doing("idle") /\ launches < MaxLaunches
    /\ launches' = launches + 1
    /\ launch' = [NoLaunch EXCEPT !.left = DutiesOf(task),
                                  !.at = IF task.ledger THEN "open" ELSE "call"]
    /\ UNCHANGED <<task, touched, loops, bus, duty, proof>>

\* Mutant of OpenLedger: an instance that is there is opened again.
ReopenLedger ==
    /\ Doing("open")
    /\ bus' = "running" /\ Then("enter")
    /\ UNCHANGED <<task, touched, loops, duty, proof, launches>>

\* The instance row is inserted: an id that is taken raises.
OpenLedger ==
    /\ Doing("open")
    /\ IF bus = "absent" THEN bus' = "running" /\ Then("enter")
       ELSE bus' = bus /\ Raise
    /\ UNCHANGED <<task, touched, loops, duty, proof, launches>>

EnterStage ==
    /\ Doing("enter")
    /\ bus' = "running"
    /\ duty' = [duty EXCEPT ![Duty] = "queued"]
    /\ Then("claim")
    /\ UNCHANGED <<task, touched, loops, proof, launches>>

ClaimDuty ==
    /\ Doing("claim")
    /\ IF duty[Duty] = "queued"
       THEN duty' = [duty EXCEPT ![Duty] = "claimed"] /\ Then("start")
       ELSE duty' = duty /\ Raise
    /\ UNCHANGED <<task, touched, loops, bus, proof, launches>>

StartDuty ==
    /\ Doing("start")
    /\ IF duty[Duty] = "claimed"
       THEN duty' = [duty EXCEPT ![Duty] = "started"] /\ Then("call")
       ELSE duty' = duty /\ Raise
    /\ UNCHANGED <<task, touched, loops, bus, proof, launches>>

\* The adapter refuses, or its command exits with zero, with an error, or is
\* cut off by the timeout; the latter two may have changed part of the host.
Call ==
    /\ Doing("call")
    /\ \E out \in {"succeeded", "blocked"}, done \in SUBSET Effects(Duty) :
        /\ IF Refused(Duty) THEN out = "blocked" /\ done = {}
           ELSE out = "succeeded" => done = Effects(Duty)
        /\ touched' = touched \cup done
        /\ launch' = [launch EXCEPT !.at = IF task.ledger THEN "settle" ELSE "next",
                                    !.out = out]
    /\ loops' = IF Duty = "decision_loop" /\ ~Refused(Duty) THEN loops + 1 ELSE loops
    /\ UNCHANGED <<task, bus, duty, proof, launches>>

\* The receipt is recorded, and then the stage run is completed or blocked under
\* the lease of the claim: without the lease that raises.
Settle ==
    /\ Doing("settle")
    /\ proof' = [proof EXCEPT ![Duty] = launch.out]
    /\ IF duty[Duty] = "started"
       THEN duty' = [duty EXCEPT ![Duty] = launch.out] /\ Then("next")
       ELSE duty' = duty /\ Raise
    /\ UNCHANGED <<task, touched, loops, bus, launches>>

\* Mutant of NextStage: only the last stage's outcome is remembered.
NextStageAnew ==
    /\ Doing("next")
    /\ LET rest == Tail(launch.left)
       IN  launch' = [at |-> IF rest = <<>> THEN "finish"
                             ELSE IF task.ledger THEN "enter" ELSE "call",
                      left |-> rest, out |-> "none", ok |-> launch.out = "succeeded"]
    /\ UNCHANGED <<task, touched, loops, bus, duty, proof, launches>>

\* A dry run goes on to its second stage whatever the first one said.
NextStage ==
    /\ Doing("next")
    /\ LET ok == launch.ok /\ launch.out = "succeeded"
           rest == Tail(launch.left)
       IN  launch' = [at |-> IF rest = <<>> THEN "finish"
                             ELSE IF task.ledger THEN "enter" ELSE "call",
                      left |-> rest, out |-> "none", ok |-> ok]
    /\ UNCHANGED <<task, touched, loops, bus, duty, proof, launches>>

FinishLedger ==
    /\ Doing("finish")
    /\ bus' = IF ~task.ledger THEN bus ELSE IF launch.ok THEN "done" ELSE "blocked"
    /\ Raise
    /\ UNCHANGED <<task, touched, loops, duty, proof, launches>>

(* Others. *)

LaunchDies ==
    /\ ~Doing("idle") /\ Raise
    /\ UNCHANGED <<task, touched, loops, bus, duty, proof, launches>>

\* A runner of the same ledger claims whatever stage it finds queued.
OtherRunnerClaims(d) ==
    /\ duty[d] = "queued"
    /\ duty' = [duty EXCEPT ![d] = "elsewhere"]
    /\ UNCHANGED <<task, touched, loops, bus, proof, launch, launches>>

\* An expired lease is swept: a claimed stage is queued again, a started one is
\* blocked together with its instance.
SweepLease(d) ==
    /\ duty[d] \in {"claimed", "started"}
    /\ duty' = [duty EXCEPT ![d] = IF duty[d] = "claimed" THEN "queued" ELSE "swept"]
    /\ bus' = IF duty[d] = "started" /\ bus = "running" THEN "blocked" ELSE bus
    /\ UNCHANGED <<task, touched, loops, proof, launch, launches>>

BusNext ==
    \/ Launch \/ OpenLedger \/ EnterStage \/ ClaimDuty \/ StartDuty \/ Call
    \/ Settle \/ NextStage \/ FinishLedger \/ LaunchDies
    \/ \E d \in Duties : OtherRunnerClaims(d) \/ SweepLease(d)

BusSpec == BusInit /\ [][BusNext]_busVars

-----------------------------------------------------------------------------
\* With a ledger, launches under one instance id run the decision loop at most
\* once, whatever died, was swept or was claimed by another runner (open_ledger).
LoopRunsOnce == task.ledger => loops <= 1

\* An instance recorded as done has every stage of its mode settled, each with
\* the receipt of its success and all its effects on the host, whichever launch
\* or runner took part (execute_stage, finish_ledger).
DoneIsReceipted ==
    bus = "done" => \A k \in DOMAIN DutiesOf(task) :
        LET d == DutiesOf(task)[k]
        IN  duty[d] = "succeeded" /\ proof[d] = "succeeded" /\ Effects(d) \subseteq touched
=============================================================================
