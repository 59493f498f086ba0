-------------------------- MODULE BlackboardBusProofs --------------------------
(***************************************************************************)
(* The decision loop runs once and a finished instance has its receipts,   *)
(* for any number of launches.                                             *)
(***************************************************************************)
EXTENDS BlackboardBus, TLAPS

LaunchState == [at : {"idle", "open", "enter", "claim", "start", "call", "settle",
                      "next", "finish"},
                left : Seq(Duties), out : {"none", "succeeded", "blocked"}, ok : BOOLEAN]

DutyState == {"none", "queued", "claimed", "started", "succeeded", "blocked",
              "elsewhere", "swept"}

BusTyped ==
    /\ task \in [mode : {"ingest", "publisher"}, dry : BOOLEAN, allow : BOOLEAN,
                 ledger : BOOLEAN, scripts : BOOLEAN]
    /\ loops \in Nat
    /\ bus \in {"absent", "running", "blocked", "done"}
    /\ duty \in [Duties -> DutyState]
    /\ proof \in [Duties -> {"none", "succeeded", "blocked"}]
    /\ launch \in LaunchState

\* A launch works on its list from the front.
OnItsList ==
    /\ launch.at \in {"open", "enter", "claim", "start", "call", "settle", "next"} =>
         \/ launch.left = DutiesOf(task)
         \/ /\ task.mode = "ingest" /\ task.dry /\ launch.left = <<"plan_runner">>
            /\ launch.at # "open"
    /\ launch.at \notin {"idle", "open", "call", "next", "finish"} => task.ledger
    /\ launch.at = "open" => task.ledger

\* A launch that is past opening its instance is the only one there is.
InLedger == task.ledger /\ launch.at \notin {"idle", "open"}

OpenedOnce ==
    /\ InLedger => bus \in {"running", "blocked"}
    /\ bus = "absent" /\ task.ledger => loops = 0
    /\ InLedger /\ launch.left = <<"decision_loop">>
         /\ launch.at \in {"enter", "claim", "start", "call"} => loops = 0
    /\ ~task.ledger => bus = "absent"

Receipted(d) ==
    duty[d] = "succeeded" /\ proof[d] = "succeeded" /\ Effects(d) \subseteq touched

\* As long as all is well, what a launch has left behind it is receipted.
BehindIsReceipted ==
    InLedger =>
      /\ launch.ok /\ launch.left = <<"plan_runner">> => Receipted("ingest_dry_run")
      /\ launch.at = "settle" /\ launch.out = "succeeded" => Effects(Duty) \subseteq touched
      /\ launch.at = "next" /\ launch.out = "succeeded" => Receipted(Duty)
      /\ launch.at = "finish" /\ launch.ok =>
           \A k \in DOMAIN DutiesOf(task) : Receipted(DutiesOf(task)[k])

BusInv ==
    BusTyped /\ OnItsList /\ OpenedOnce /\ BehindIsReceipted /\ LoopRunsOnce /\ DoneIsReceipted

-----------------------------------------------------------------------------
\* The lists that there are.
LEMMA Lists ==
    ASSUME BusTyped
    PROVE  /\ DutiesOf(task) \in {<<"ingest_dry_run", "plan_runner">>, <<"decision_loop">>,
                                  <<"attention_dry_run">>, <<"attention">>}
           /\ DutiesOf(task) = <<"ingest_dry_run", "plan_runner">> <=>
                  task.mode = "ingest" /\ task.dry
           /\ DutiesOf(task) \in Seq(Duties)
<1>1. CASE task.mode = "ingest"
  <2>1. CASE task.dry
    BY <1>1, <2>1 DEF DutiesOf, Duties
  <2>2. CASE ~task.dry
    BY <1>1, <2>2 DEF DutiesOf, Duties
  <2> QED BY <2>1, <2>2
<1>2. CASE task.mode = "publisher"
  <2>1. CASE task.dry
    BY <1>2, <2>1 DEF DutiesOf, Duties
  <2>2. CASE ~task.dry
    <3>1. DutiesOf(task) = <<"attention">>
      BY <1>2, <2>2 DEF DutiesOf
    <3>2. <<"attention">> # <<"ingest_dry_run", "plan_runner">>
      OBVIOUS
    <3> QED BY <1>2, <3>1, <3>2 DEF Duties
  <2> QED BY <2>1, <2>2
<1>3. task.mode \in {"ingest", "publisher"}
  BY DEF BusTyped
<1> QED BY <1>1, <1>2, <1>3

\* A working launch has a stage to work on.
LEMMA WorksOnDuty ==
    ASSUME BusTyped, OnItsList,
           launch.at \in {"enter", "claim", "start", "call", "settle", "next"}
    PROVE  /\ Duty \in Duties
           /\ Duty = "decision_loop" <=> launch.left = <<"decision_loop">>
           /\ launch.left \in {<<"ingest_dry_run", "plan_runner">>, <<"plan_runner">>,
                               <<"decision_loop">>, <<"attention_dry_run">>, <<"attention">>}
<1>1. launch.left \in {<<"ingest_dry_run", "plan_runner">>, <<"plan_runner">>,
                        <<"decision_loop">>, <<"attention_dry_run">>, <<"attention">>}
  BY Lists DEF OnItsList
<1>2. CASE launch.left = <<"ingest_dry_run", "plan_runner">>
  BY <1>2 DEF Duty, Duties
<1>3. CASE launch.left = <<"plan_runner">>
  BY <1>3 DEF Duty, Duties
<1>4. CASE launch.left = <<"decision_loop">>
  BY <1>4 DEF Duty, Duties
<1>5. CASE launch.left = <<"attention_dry_run">>
  BY <1>5 DEF Duty, Duties
<1>6. CASE launch.left = <<"attention">>
  BY <1>6 DEF Duty, Duties
<1> QED BY <1>1, <1>2, <1>3, <1>4, <1>5, <1>6

\* Nothing has been launched yet.
LEMMA BusStart == BusInit => BusInv
<1> SUFFICES ASSUME BusInit PROVE BusInv
  OBVIOUS
<1>1. BusTyped
  BY DEF BusInit, BusTyped, NoLaunch, LaunchState, DutyState
<1>2. launch.at = "idle" /\ loops = 0 /\ bus = "absent"
  BY DEF BusInit, NoLaunch
<1> QED BY <1>1, <1>2 DEF BusInv, OnItsList, OpenedOnce, InLedger, BehindIsReceipted,
                          LoopRunsOnce, DoneIsReceipted

\* What stays receipted stage by stage stays receipted for the whole list.
LEMMA ListStaysReceipted ==
    ASSUME BusTyped, task' = task, \A e \in Duties : Receipted(e) => Receipted(e)',
           \A k \in DOMAIN DutiesOf(task) : Receipted(DutiesOf(task)[k])
    PROVE  (\A k \in DOMAIN DutiesOf(task) : Receipted(DutiesOf(task)[k]))'
<1> DEFINE list == DutiesOf(task)
<1>1. list' = list
  BY DEF DutiesOf
<1>2. \A k \in DOMAIN list : list[k] \in Duties
  BY Lists
<1>3. \A e : Receipted(e)' <=> /\ duty'[e] = "succeeded" /\ proof'[e] = "succeeded"
                               /\ Effects(e) \subseteq touched'
  BY DEF Receipted
<1>4. \A k \in DOMAIN list : /\ duty'[list[k]] = "succeeded" /\ proof'[list[k]] = "succeeded"
                              /\ Effects(list[k]) \subseteq touched'
  <2> TAKE k \in DOMAIN list
  <2>1. Receipted(list[k])
    OBVIOUS
  <2>2. PICK e \in Duties : e = list[k]
    BY <1>2
  <2>3. Receipted(e)
    BY <2>1, <2>2
  <2>4. Receipted(e)'
    BY <2>3
  <2>5. /\ duty'[e] = "succeeded" /\ proof'[e] = "succeeded" /\ Effects(e) \subseteq touched'
    BY <2>4 DEF Receipted
  <2> QED BY <2>2, <2>5
<1>5. (\A k \in DOMAIN list : Receipted(list[k]))' <=>
      \A k \in DOMAIN list' : /\ duty'[list'[k]] = "succeeded" /\ proof'[list'[k]] = "succeeded"
                               /\ Effects(list'[k]) \subseteq touched'
  BY DEF Receipted
<1> QED BY <1>1, <1>4, <1>5

\* A launch that ends anyhow leaves nothing to say of it.
LEMMA RaiseKeeps ==
    ASSUME BusInv, Raise, UNCHANGED <<task, touched, loops, bus>>,
           duty' \in [Duties -> DutyState], proof' = proof,
           \A d \in Duties : duty[d] = "succeeded" => duty'[d] = "succeeded"
    PROVE  BusInv'
<1>1. launch' = NoLaunch /\ launch'.at = "idle"
  BY DEF Raise, NoLaunch
<1>2. BusTyped'
  BY <1>1 DEF BusInv, BusTyped, NoLaunch, LaunchState
<1>3. OnItsList' /\ BehindIsReceipted' /\ OpenedOnce' /\ LoopRunsOnce'
  BY <1>1 DEF BusInv, OnItsList, BehindIsReceipted, InLedger, OpenedOnce, LoopRunsOnce
<1>4. DoneIsReceipted'
  <2> SUFFICES ASSUME bus = "done", NEW k \in DOMAIN DutiesOf(task)
               PROVE  Receipted(DutiesOf(task)[k])'
    BY DEF DoneIsReceipted, Receipted
  <2>1. DutiesOf(task)[k] \in Duties
    BY Lists DEF BusInv
  <2> QED BY <2>1 DEF BusInv, DoneIsReceipted, Receipted
<1> QED BY <1>2, <1>3, <1>4 DEF BusInv

\* A launch begins with the stages of its mode.
LEMMA LaunchKeeps == ASSUME BusInv, Launch PROVE BusInv'
<1>1. /\ launch'.at = IF task.ledger THEN "open" ELSE "call"
      /\ launch'.left = DutiesOf(task)
      /\ launch' \in LaunchState
      /\ UNCHANGED <<task, touched, loops, bus, duty, proof>>
  BY Lists DEF Launch, NoLaunch, LaunchState, BusInv
<1>2. BusTyped'
  BY <1>1 DEF BusInv, BusTyped
<1>3. OnItsList' /\ OpenedOnce' /\ BehindIsReceipted'
  BY <1>1 DEF BusInv, OnItsList, OpenedOnce, BehindIsReceipted, InLedger
<1> QED BY <1>1, <1>2, <1>3 DEF BusInv, LoopRunsOnce, DoneIsReceipted

\* Only the launch that inserts the instance row goes on.
LEMMA OpenKeeps == ASSUME BusInv, OpenLedger PROVE BusInv'
<1>1. CASE bus # "absent"
  <2>1. /\ Raise /\ UNCHANGED <<task, touched, loops, bus, duty, proof>>
        /\ duty' \in [Duties -> DutyState]
    BY <1>1 DEF OpenLedger, BusInv, BusTyped
  <2> QED BY <2>1, RaiseKeeps
<1>2. CASE bus = "absent"
  <2>1. /\ bus' = "running" /\ launch' = [launch EXCEPT !.at = "enter"] /\ launch.at = "open"
        /\ UNCHANGED <<task, touched, loops, duty, proof>>
    BY <1>2 DEF OpenLedger, Then, Doing
  <2>2. BusTyped' /\ launch'.at = "enter" /\ launch'.left = launch.left
    BY <2>1 DEF BusInv, BusTyped, LaunchState
  <2>3. task.ledger /\ loops = 0 /\ launch.left = DutiesOf(task)
    BY <1>2, <2>1 DEF BusInv, OnItsList, OpenedOnce
  <2>4. launch.left # <<"plan_runner">>
    BY <2>3, Lists DEF BusInv
  <2> QED BY <2>1, <2>2, <2>3, <2>4 DEF BusInv, OnItsList, OpenedOnce, BehindIsReceipted, InLedger,
                                   LoopRunsOnce, DoneIsReceipted
<1> QED BY <1>1, <1>2

\* A step of the launch within its stage: claimed, started, called, settled.
LEMMA MovesOn ==
    ASSUME BusInv, UNCHANGED <<task, touched, loops, proof>>, bus' \in {bus, "running"},
           NEW d \in Duties, ~Receipted(d), NEW status \in DutyState,
           duty' = [duty EXCEPT ![d] = status],
           NEW at \in {"claim", "start", "call"}, task.ledger,
           launch' = [launch EXCEPT !.at = at],
           launch.at \in {"enter", "claim", "start"}
    PROVE  BusInv'
<1>1. /\ BusTyped' /\ launch'.at = at /\ launch'.left = launch.left
      /\ launch'.ok = launch.ok
  BY DEF BusInv, BusTyped, LaunchState
<1>2. bus' \in {"running", "blocked"}
  BY DEF BusInv, OpenedOnce, InLedger
<1>3. \A e \in Duties : Receipted(e) => Receipted(e)'
  BY DEF Receipted, BusInv, BusTyped
<1>4. OnItsList'
  BY <1>1 DEF BusInv, OnItsList
<1>5. OpenedOnce' /\ LoopRunsOnce'
  BY <1>1, <1>2 DEF BusInv, OpenedOnce, InLedger, LoopRunsOnce
<1>6. BehindIsReceipted'
  BY <1>1, <1>3 DEF BusInv, BehindIsReceipted, InLedger, Duties
<1>7. DoneIsReceipted'
  BY <1>2 DEF DoneIsReceipted
<1> QED BY <1>1, <1>4, <1>5, <1>6, <1>7 DEF BusInv

\* The stage that is entered is not one that is behind.
LEMMA EnterKeeps == ASSUME BusInv, EnterStage PROVE BusInv'
<1>1. /\ launch.at = "enter" /\ bus' = "running" /\ UNCHANGED <<task, touched, loops, proof>>
      /\ duty' = [duty EXCEPT ![Duty] = "queued"]
      /\ launch' = [launch EXCEPT !.at = "claim"]
  BY DEF EnterStage, Doing, Then
<1>2. Duty \in Duties /\ task.ledger
  BY <1>1, WorksOnDuty DEF BusInv, OnItsList
<1>3. /\ BusTyped' /\ launch'.at = "claim" /\ launch'.left = launch.left
      /\ launch'.ok = launch.ok
  BY <1>1, <1>2 DEF BusInv, BusTyped, LaunchState, DutyState
<1>4. OnItsList'
  BY <1>1, <1>2, <1>3 DEF BusInv, OnItsList
<1>5. OpenedOnce' /\ LoopRunsOnce' /\ DoneIsReceipted'
  BY <1>1, <1>2, <1>3 DEF BusInv, OpenedOnce, InLedger, LoopRunsOnce, DoneIsReceipted
<1>6. BehindIsReceipted'
  <2>1. launch.left = <<"plan_runner">> => Duty = "plan_runner"
    BY DEF Duty
  <2>2. launch.left = <<"plan_runner">> /\ Receipted("ingest_dry_run") =>
            Receipted("ingest_dry_run")'
    BY <1>1, <1>2, <2>1 DEF Receipted, BusInv, BusTyped, Duties
  <2> QED BY <1>1, <1>2, <1>3, <2>2 DEF BusInv, BehindIsReceipted, InLedger
<1> QED BY <1>3, <1>4, <1>5, <1>6 DEF BusInv

\* A claim finds the stage queued, or ends the launch.
LEMMA ClaimKeeps == ASSUME BusInv, ClaimDuty PROVE BusInv'
<1>1. launch.at = "claim" /\ UNCHANGED <<task, touched, loops, bus, proof>>
  BY DEF ClaimDuty, Doing
<1>2. Duty \in Duties /\ task.ledger
  BY <1>1, WorksOnDuty DEF BusInv, OnItsList
<1>3. CASE duty[Duty] = "queued"
  <2>1. /\ duty' = [duty EXCEPT ![Duty] = "claimed"]
        /\ launch' = [launch EXCEPT !.at = "start"] /\ ~Receipted(Duty)
    BY <1>3 DEF ClaimDuty, Then, Receipted
  <2>2. "claimed" \in DutyState
    BY DEF DutyState
  <2> QED BY <1>1, <1>2, <2>1, <2>2, MovesOn
<1>4. CASE duty[Duty] # "queued"
  <2>1. Raise /\ duty' = duty
    BY <1>4 DEF ClaimDuty
  <2> QED BY <1>1, <2>1, RaiseKeeps DEF BusInv, BusTyped
<1> QED BY <1>3, <1>4

\* A start finds the stage claimed, or ends the launch.
LEMMA StartKeeps == ASSUME BusInv, StartDuty PROVE BusInv'
<1>1. launch.at = "start" /\ UNCHANGED <<task, touched, loops, bus, proof>>
  BY DEF StartDuty, Doing
<1>2. Duty \in Duties /\ task.ledger
  BY <1>1, WorksOnDuty DEF BusInv, OnItsList
<1>3. CASE duty[Duty] = "claimed"
  <2>1. /\ duty' = [duty EXCEPT ![Duty] = "started"]
        /\ launch' = [launch EXCEPT !.at = "call"] /\ ~Receipted(Duty)
    BY <1>3 DEF StartDuty, Then, Receipted
  <2>2. "started" \in DutyState
    BY DEF DutyState
  <2> QED BY <1>1, <1>2, <2>1, <2>2, MovesOn
<1>4. CASE duty[Duty] # "claimed"
  <2>1. Raise /\ duty' = duty
    BY <1>4 DEF StartDuty
  <2> QED BY <1>1, <2>1, RaiseKeeps DEF BusInv, BusTyped
<1> QED BY <1>3, <1>4

\* The command: with a ledger, only one launch gets here with the loop.
LEMMA CallKeeps == ASSUME BusInv, Call PROVE BusInv'
<1>1. PICK out \in {"succeeded", "blocked"}, done \in SUBSET Effects(Duty) :
        /\ IF Refused(Duty) THEN out = "blocked" /\ done = {}
           ELSE out = "succeeded" => done = Effects(Duty)
        /\ touched' = touched \cup done
        /\ launch' = [launch EXCEPT !.at = IF task.ledger THEN "settle" ELSE "next",
                                    !.out = out]
  BY DEF Call
<1>2. /\ launch.at = "call" /\ UNCHANGED <<task, bus, duty, proof>>
      /\ loops' = IF Duty = "decision_loop" /\ ~Refused(Duty) THEN loops + 1 ELSE loops
  BY DEF Call, Doing
<1>3. /\ Duty \in Duties
      /\ Duty = "decision_loop" <=> launch.left = <<"decision_loop">>
  BY <1>2, WorksOnDuty DEF BusInv
<1>4. /\ launch'.left = launch.left /\ launch'.ok = launch.ok /\ launch'.out = out
      /\ launch'.at = IF task.ledger THEN "settle" ELSE "next"
      /\ launch' \in LaunchState
  BY <1>1 DEF BusInv, BusTyped, LaunchState
<1>5. BusTyped'
  BY <1>2, <1>4 DEF BusInv, BusTyped
<1>6. OnItsList'
  BY <1>2, <1>4 DEF BusInv, OnItsList
<1>7. \A e \in Duties : Receipted(e) => Receipted(e)'
  BY <1>1, <1>2 DEF Receipted
<1>8. OpenedOnce' /\ LoopRunsOnce'
  <2>1. CASE task.ledger
    <3>1. bus' \in {"running", "blocked"} /\ bus' = bus
      BY <1>2, <2>1 DEF BusInv, OpenedOnce, InLedger
    <3>2. Duty = "decision_loop" => loops = 0
      BY <1>2, <1>3, <2>1 DEF BusInv, OpenedOnce, InLedger
    <3>3. loops' <= 1
      BY <1>2, <2>1, <3>2 DEF BusInv, BusTyped, LoopRunsOnce
    <3> QED BY <1>2, <1>4, <2>1, <3>1, <3>3 DEF OpenedOnce, InLedger, LoopRunsOnce
  <2>2. CASE ~task.ledger
    BY <1>2, <2>2 DEF BusInv, OpenedOnce, InLedger, LoopRunsOnce
  <2> QED BY <2>1, <2>2
<1>9. BehindIsReceipted'
  <2>1. out = "succeeded" => Effects(Duty) \subseteq touched'
    BY <1>1
  <2>2. Duty' = Duty
    BY <1>4 DEF Duty
  <2> QED BY <1>2, <1>4, <1>7, <2>1, <2>2 DEF BusInv, BehindIsReceipted, InLedger, Duties
<1>10. DoneIsReceipted'
  <2>1. CASE bus' = "done"
    <3>1. \A k \in DOMAIN DutiesOf(task) : Receipted(DutiesOf(task)[k])
      BY <1>2, <2>1 DEF BusInv, DoneIsReceipted, Receipted
    <3> QED BY <1>2, <1>7, <3>1, ListStaysReceipted DEF BusInv, DoneIsReceipted, Receipted
  <2>2. CASE bus' # "done"
    BY <2>2 DEF DoneIsReceipted
  <2> QED BY <2>1, <2>2
<1> QED BY <1>5, <1>6, <1>8, <1>9, <1>10 DEF BusInv

\* The receipt is recorded before the stage is completed under its lease.
LEMMA SettleKeeps == ASSUME BusInv, Settle PROVE BusInv'
<1>1. /\ launch.at = "settle" /\ UNCHANGED <<task, touched, loops, bus>>
      /\ proof' = [proof EXCEPT ![Duty] = launch.out]
  BY DEF Settle, Doing
<1>2. Duty \in Duties /\ task.ledger /\ bus \in {"running", "blocked"}
  BY <1>1, WorksOnDuty DEF BusInv, OnItsList, OpenedOnce, InLedger
<1>3. launch.out \in {"none", "succeeded", "blocked"} /\ proof' \in [Duties -> {"none", "succeeded", "blocked"}]
  BY <1>1, <1>2 DEF BusInv, BusTyped, LaunchState
<1>4. CASE duty[Duty] # "started"
  <2>1. launch' = NoLaunch /\ launch'.at = "idle" /\ duty' = duty
    BY <1>4 DEF Settle, Raise, NoLaunch
  <2>2. BusTyped'
    BY <1>1, <1>3, <2>1 DEF BusInv, BusTyped, NoLaunch, LaunchState
  <2> QED BY <1>1, <1>2, <2>1, <2>2 DEF BusInv, OnItsList, BehindIsReceipted, InLedger, OpenedOnce,
                                   LoopRunsOnce, DoneIsReceipted
<1>5. CASE duty[Duty] = "started"
  <2>1. /\ duty' = [duty EXCEPT ![Duty] = launch.out]
        /\ launch' = [launch EXCEPT !.at = "next"]
    BY <1>5 DEF Settle, Then
  <2>2. /\ launch'.at = "next" /\ launch'.left = launch.left /\ launch'.ok = launch.ok
        /\ launch'.out = launch.out /\ launch' \in LaunchState
    BY <2>1 DEF BusInv, BusTyped, LaunchState
  <2>3. duty' \in [Duties -> DutyState]
    BY <1>3, <2>1 DEF BusInv, BusTyped, DutyState
  <2>4. BusTyped'
    BY <1>1, <1>3, <2>2, <2>3 DEF BusInv, BusTyped
  <2>5. OnItsList' /\ OpenedOnce' /\ LoopRunsOnce' /\ DoneIsReceipted'
    BY <1>1, <1>2, <2>2 DEF BusInv, OnItsList, OpenedOnce, InLedger, LoopRunsOnce, DoneIsReceipted
  <2>6. BehindIsReceipted'
    <3>1. Duty' = Duty
      BY <2>2 DEF Duty
    <3>2. launch.out = "succeeded" => Receipted(Duty)'
      <4>1. launch.out = "succeeded" => Effects(Duty) \subseteq touched
        BY <1>1, <1>2 DEF BusInv, BehindIsReceipted, InLedger
      <4>2. duty'[Duty] = launch.out /\ proof'[Duty] = launch.out
        BY <1>1, <1>2, <2>1 DEF BusInv, BusTyped
      <4> QED BY <1>1, <3>1, <4>1, <4>2 DEF Receipted
    <3>3. launch.left = <<"plan_runner">> => Duty = "plan_runner"
      BY DEF Duty
    <3>4. launch.left = <<"plan_runner">> /\ Receipted("ingest_dry_run") =>
              Receipted("ingest_dry_run")'
      BY <1>1, <1>2, <2>1, <3>3 DEF Receipted, BusInv, BusTyped, Duties
    <3> QED BY <1>1, <1>2, <2>2, <3>1, <3>2, <3>4 DEF BusInv, BehindIsReceipted, InLedger
  <2> QED BY <2>4, <2>5, <2>6 DEF BusInv
<1> QED BY <1>4, <1>5

\* The stages left over, and what is behind then.
LEMMA TailsOfLists ==
    ASSUME BusTyped, OnItsList, launch.at = "next"
    PROVE  \/ /\ launch.left = <<"ingest_dry_run", "plan_runner">>
              /\ Tail(launch.left) = <<"plan_runner">> /\ Duty = "ingest_dry_run"
              /\ task.mode = "ingest" /\ task.dry
           \/ /\ Tail(launch.left) = <<>>
              /\ \/ /\ launch.left = <<"plan_runner">> /\ Duty = "plan_runner"
                    /\ DutiesOf(task) = <<"ingest_dry_run", "plan_runner">>
                 \/ DutiesOf(task) = <<Duty>>
<1>1. CASE launch.left = <<"plan_runner">>
  <2>1. DutiesOf(task) = <<"ingest_dry_run", "plan_runner">>
    BY <1>1, Lists DEF OnItsList
  <2> QED BY <1>1, <2>1 DEF Duty
<1>2. CASE launch.left = <<"ingest_dry_run", "plan_runner">> /\ launch.left = DutiesOf(task)
  BY <1>2, Lists DEF Duty
<1>3. ASSUME NEW d \in {"decision_loop", "attention_dry_run", "attention"},
             launch.left = <<d>>, launch.left = DutiesOf(task)
      PROVE  Tail(launch.left) = <<>> /\ DutiesOf(task) = <<Duty>>
  BY <1>3 DEF Duty
<1>4. launch.left = <<"plan_runner">> \/ launch.left = DutiesOf(task)
  BY DEF OnItsList
<1>5. DutiesOf(task) \in {<<"ingest_dry_run", "plan_runner">>, <<"decision_loop">>,
                          <<"attention_dry_run">>, <<"attention">>}
  BY Lists
<1> QED BY <1>1, <1>2, <1>3, <1>4, <1>5

\* What the launch leaves behind it is receipted, as long as all is well.
LEMMA NextKeeps == ASSUME BusInv, NextStage PROVE BusInv'
<1> DEFINE ok == launch.ok /\ launch.out = "succeeded"
           rest == Tail(launch.left)
           at == IF rest = <<>> THEN "finish" ELSE IF task.ledger THEN "enter" ELSE "call"
<1>1. /\ launch.at = "next" /\ UNCHANGED <<task, touched, loops, bus, duty, proof>>
      /\ launch' = [at |-> at, left |-> rest, out |-> "none", ok |-> ok]
  BY DEF NextStage, Doing
<1>2. BusTyped'
  <2>1. rest \in Seq(Duties)
    <3>1. rest \in {<<>>, <<"plan_runner">>}
      BY <1>1, TailsOfLists DEF BusInv
    <3> HIDE DEF rest
    <3>2. <<>> \in Seq(Duties) /\ <<"plan_runner">> \in Seq(Duties)
      BY DEF Duties
    <3> QED BY <3>1, <3>2
  <2>2. ok \in BOOLEAN
    BY DEF BusInv, BusTyped, LaunchState
  <2> HIDE DEF rest, ok
  <2> QED BY <1>1, <2>1, <2>2 DEF BusInv, BusTyped, LaunchState
<1>3. /\ launch'.at = at /\ launch'.left = rest /\ (launch'.ok <=> ok)
  BY <1>1
<1>4. \A d \in Duties : Receipted(d) => Receipted(d)'
  BY <1>1 DEF Receipted
<1>5. CASE rest = <<"plan_runner">> /\ Duty = "ingest_dry_run" /\ task.mode = "ingest" /\ task.dry
  <2>1. OnItsList'
    BY <1>1, <1>3, <1>5 DEF BusInv, OnItsList
  <2>2. OpenedOnce' /\ LoopRunsOnce' /\ DoneIsReceipted'
    BY <1>1, <1>3, <1>5 DEF BusInv, OpenedOnce, InLedger, LoopRunsOnce, DoneIsReceipted
  <2>3. BehindIsReceipted'
    <3>1. InLedger /\ ok => Receipted("ingest_dry_run")'
      BY <1>1, <1>4, <1>5 DEF BusInv, BehindIsReceipted, Duties
    <3>2. InLedger' => InLedger
      BY <1>1 DEF InLedger
    <3>3. launch'.at \notin {"settle", "next", "finish"} /\ (launch'.ok => ok)
      BY <1>3, <1>5
    <3> QED BY <3>1, <3>2, <3>3 DEF BehindIsReceipted
  <2> QED BY <1>2, <2>1, <2>2, <2>3 DEF BusInv
<1>6. CASE /\ rest = <<>>
           /\ \/ /\ launch.left = <<"plan_runner">> /\ Duty = "plan_runner"
                 /\ DutiesOf(task) = <<"ingest_dry_run", "plan_runner">>
              \/ DutiesOf(task) = <<Duty>>
  <2>1. OnItsList'
    BY <1>1, <1>3, <1>6 DEF BusInv, OnItsList
  <2>2. OpenedOnce' /\ LoopRunsOnce' /\ DoneIsReceipted'
    BY <1>1, <1>3, <1>6 DEF BusInv, OpenedOnce, InLedger, LoopRunsOnce, DoneIsReceipted
  <2>3. BehindIsReceipted'
    <3>1. InLedger /\ ok => \A k \in DOMAIN DutiesOf(task) : Receipted(DutiesOf(task)[k])
      BY <1>1, <1>6 DEF BusInv, BehindIsReceipted
    <3>2. InLedger' => InLedger
      BY <1>1 DEF InLedger
    <3>3. launch'.at = "finish" /\ launch'.left # <<"plan_runner">> /\ (launch'.ok => ok)
      BY <1>3, <1>6
    <3>4. InLedger /\ ok => (\A k \in DOMAIN DutiesOf(task) : Receipted(DutiesOf(task)[k]))'
      BY <1>1, <1>4, <3>1, ListStaysReceipted DEF BusInv
    <3> QED BY <3>2, <3>3, <3>4 DEF BehindIsReceipted
  <2> QED BY <1>2, <2>1, <2>2, <2>3 DEF BusInv
<1> QED BY <1>1, <1>5, <1>6, TailsOfLists DEF BusInv

\* An instance is closed as done only with everything behind.
LEMMA FinishKeeps == ASSUME BusInv, FinishLedger PROVE BusInv'
<1>1. /\ launch.at = "finish" /\ UNCHANGED <<task, touched, loops, duty, proof>>
      /\ bus' = IF ~task.ledger THEN bus ELSE IF launch.ok THEN "done" ELSE "blocked"
      /\ launch' = NoLaunch /\ launch'.at = "idle"
  BY DEF FinishLedger, Doing, Raise, NoLaunch
<1>2. BusTyped'
  BY <1>1 DEF BusInv, BusTyped, NoLaunch, LaunchState
<1>3. OnItsList' /\ OpenedOnce' /\ LoopRunsOnce' /\ BehindIsReceipted'
  BY <1>1 DEF BusInv, OnItsList, OpenedOnce, InLedger, LoopRunsOnce, BehindIsReceipted
<1>4. DoneIsReceipted'
  BY <1>1 DEF BusInv, DoneIsReceipted, OpenedOnce, BehindIsReceipted, InLedger, Receipted
<1> QED BY <1>2, <1>3, <1>4 DEF BusInv

\* Others take only stages that are not yet settled.
LEMMA OthersKeep ==
    ASSUME BusInv, NEW d \in Duties, OtherRunnerClaims(d) \/ SweepLease(d)
    PROVE  BusInv'
<1>1. /\ duty[d] \in {"queued", "claimed", "started"}
      /\ \E s \in DutyState : duty' = [duty EXCEPT ![d] = s]
      /\ bus' = bus \/ (bus = "running" /\ bus' = "blocked")
      /\ UNCHANGED <<task, touched, loops, proof, launch>>
  BY DEF OtherRunnerClaims, SweepLease, DutyState
<1>2. BusTyped'
  BY <1>1 DEF BusInv, BusTyped
<1>3. \A e \in Duties : Receipted(e) => Receipted(e)'
  BY <1>1 DEF Receipted, BusInv, BusTyped
<1>4. OnItsList' /\ OpenedOnce' /\ LoopRunsOnce'
  BY <1>1 DEF BusInv, OnItsList, OpenedOnce, InLedger, LoopRunsOnce
<1>5. \A k \in DOMAIN DutiesOf(task) : DutiesOf(task)[k] \in Duties
  BY Lists DEF BusInv
<1>6. BehindIsReceipted'
  <2>1. Duty' = Duty /\ (InLedger' <=> InLedger)
    BY <1>1 DEF Duty, InLedger
  <2>2. launch.at = "next" => Duty \in Duties
    BY WorksOnDuty DEF BusInv
  <2> QED BY <1>1, <1>3, <1>5, <2>1, <2>2 DEF BusInv, BehindIsReceipted, Duties
<1>7. DoneIsReceipted'
  <2>1. CASE bus' = "done"
    <3>1. \A k \in DOMAIN DutiesOf(task) : Receipted(DutiesOf(task)[k])
      BY <1>1, <2>1 DEF BusInv, DoneIsReceipted, Receipted
    <3> QED BY <1>1, <1>3, <3>1, ListStaysReceipted DEF BusInv, DoneIsReceipted, Receipted
  <2>2. CASE bus' # "done"
    BY <2>2 DEF DoneIsReceipted
  <2> QED BY <2>1, <2>2
<1> QED BY <1>2, <1>4, <1>6, <1>7 DEF BusInv

\* Every step keeps the invariant.
LEMMA BusStep == BusInv /\ [BusNext]_busVars => BusInv'
<1> SUFFICES ASSUME BusInv, [BusNext]_busVars PROVE BusInv'
  OBVIOUS
<1>1. CASE LaunchDies
  <2>1. Raise /\ UNCHANGED <<task, touched, loops, bus, duty, proof>>
    BY <1>1 DEF LaunchDies
  <2> QED BY <2>1, RaiseKeeps DEF BusInv, BusTyped
<1>2. CASE UNCHANGED busVars
  BY <1>2 DEF busVars, BusInv, BusTyped, OnItsList, OpenedOnce, InLedger, BehindIsReceipted,
              Receipted, Duty, LoopRunsOnce, DoneIsReceipted
<1> QED BY <1>1, <1>2, LaunchKeeps, OpenKeeps, EnterKeeps, ClaimKeeps, StartKeeps, CallKeeps,
           SettleKeeps, NextKeeps, FinishKeeps, OthersKeep DEF BusNext

\* Launches under one instance id run the decision loop at most once (open_ledger).
THEOREM DecisionLoopRunsOnce == BusSpec => []LoopRunsOnce
<1>1. BusInv => LoopRunsOnce
  BY DEF BusInv
<1> QED BY BusStart, BusStep, <1>1, PTL DEF BusSpec

\* An instance that is done has its stages settled, receipted and carried out
\* (execute_stage, finish_ledger).
THEOREM DoneInstancesAreReceipted == BusSpec => []DoneIsReceipted
<1>1. BusInv => DoneIsReceipted
  BY DEF BusInv
<1> QED BY BusStart, BusStep, <1>1, PTL DEF BusSpec
=============================================================================
