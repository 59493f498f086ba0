------------------------------- MODULE HostProofs -------------------------------
(***************************************************************************)
(* Two bridges to the OpenClaw host, for any number of overlapping         *)
(* completion passes, receipts, projects, handoffs and deaths: the         *)
(* acknowledgement gate is decided once, a pass that runs alone does what  *)
(* it planned, a project moves to its final review only with an accepted   *)
(* draft, and a stale review note is accounted for.                        *)
(***************************************************************************)
EXTENDS OwnedCompletion, IvyJonah, FiniteSetTheorems, TLAPS

-----------------------------------------------------------------------------
(* Owned completion. *)

LaneTyped ==
    /\ lane \in [at : {"absent", "capture", "gate", "verify", "done"}, held : SUBSET Bridges]
    /\ imports \in Nat
    /\ DOMAIN pass = Bridges
    /\ \A b \in Bridges : DOMAIN pass[b] = {"at", "ev", "plan", "out"}

\* A stage is held only while it can be run.
HeldIsAutomatic == lane.held # {} => lane.at \in Automatic

\* What the gate was decided on.
DecisionIsOne ==
    decision = IF lane.at \in {"verify", "done"} THEN <<"acknowledged">> ELSE <<>>

\* A pass on its way to the gate has read the acknowledgement, and at most one
\* has still to record what it decided.
GateIsWalkedOnce ==
    /\ \A b \in Bridges : At(b, "ingest") => Acknowledged(pass[b].ev)
    /\ \A b \in Bridges : At(b, "import") => imports = 0 /\ decision # <<>>
    /\ \A b, c \in Bridges : At(b, "import") /\ At(c, "import") => b = c
    /\ imports <= 1
    /\ decision = <<>> => imports = 0

LaneInv == LaneTyped /\ HeldIsAutomatic /\ DecisionIsOne /\ GateIsWalkedOnce

\* A lane that was not started has no decision.
LEMMA LaneStart == OCInit => LaneInv
<1> SUFFICES ASSUME OCInit PROVE LaneInv
  OBVIOUS
<1>1. \A b \in Bridges : pass[b] = NoPass
  BY DEF OCInit
<1> QED BY <1>1 DEF OCInit, NoPass, LaneInv, LaneTyped, HeldIsAutomatic, DecisionIsOne,
                   GateIsWalkedOnce, At

\* A step of one pass that neither decides nor imports.
LEMMA PassMovesOn ==
    ASSUME LaneInv, NEW b \in Bridges, pass' = [pass EXCEPT ![b] = pass'[b]],
           DOMAIN pass'[b] = {"at", "ev", "plan", "out"}, pass'[b].at # "import",
           pass'[b].at = "ingest" => pass'[b].ev.handoff = "acknowledged",
           UNCHANGED <<decision, imports>>,
           lane' \in [at : {"absent", "capture", "gate", "verify", "done"}, held : SUBSET Bridges],
           lane'.held # {} => lane'.at \in Automatic,
           lane'.at \in {"verify", "done"} <=> lane.at \in {"verify", "done"}
    PROVE  LaneInv'
<1>1. LaneTyped'
  BY DEF LaneInv, LaneTyped
<1>2. \A c \in Bridges \ {b} : pass'[c] = pass[c]
  BY DEF LaneInv, LaneTyped
<1>3. HeldIsAutomatic' /\ DecisionIsOne'
  BY DEF LaneInv, HeldIsAutomatic, DecisionIsOne, Automatic
<1>4. GateIsWalkedOnce'
  BY <1>2 DEF LaneInv, GateIsWalkedOnce, At, Acknowledged
<1> QED BY <1>1, <1>3, <1>4 DEF LaneInv

\* A step that leaves the passes where they are.
LEMMA LaneMovesOn ==
    ASSUME LaneInv, UNCHANGED <<decision, imports, pass>>,
           lane' \in [at : {"absent", "capture", "gate", "verify", "done"}, held : SUBSET Bridges],
           lane'.held # {} => lane'.at \in Automatic,
           lane'.at \in {"verify", "done"} <=> lane.at \in {"verify", "done"}
    PROVE  LaneInv'
BY DEF LaneInv, LaneTyped, HeldIsAutomatic, DecisionIsOne, GateIsWalkedOnce, At, Acknowledged,
       Automatic

\* The kernel takes one decision, on the acknowledgement the pass had read.
LEMMA IngestKeeps == ASSUME LaneInv, NEW b \in Bridges, IngestHandoff(b) PROVE LaneInv'
<1>1. CASE lane.at = "gate"
  <2>1. /\ lane' = [lane EXCEPT !.at = "verify"] /\ pass' = [pass EXCEPT ![b].at = "import"]
        /\ decision' = Append(decision, pass[b].ev.handoff) /\ imports' = imports
        /\ At(b, "ingest")
    BY <1>1 DEF IngestHandoff, Goes
  <2>2. decision = <<>> /\ pass[b].ev.handoff = "acknowledged" /\ imports = 0
    BY <1>1, <2>1 DEF LaneInv, DecisionIsOne, GateIsWalkedOnce, Acknowledged
  <2>3. decision' = <<"acknowledged">>
    BY <2>1, <2>2
  <2>4. lane'.at = "verify" /\ lane'.held = lane.held /\ LaneTyped'
    BY <2>1 DEF LaneInv, LaneTyped
  <2>5. /\ \A c \in Bridges \ {b} : pass'[c] = pass[c]
        /\ pass'[b].at = "import"
    BY <2>1 DEF LaneInv, LaneTyped
  <2>6. GateIsWalkedOnce'
    BY <2>1, <2>2, <2>3, <2>5 DEF LaneInv, GateIsWalkedOnce, At, Acknowledged
  <2>7. HeldIsAutomatic' /\ DecisionIsOne'
    BY <2>3, <2>4 DEF HeldIsAutomatic, DecisionIsOne, Automatic
  <2> QED BY <2>4, <2>6, <2>7 DEF LaneInv
<1>2. CASE lane.at # "gate"
  <2>1. pass' = [pass EXCEPT ![b] = NoPass] /\ UNCHANGED <<lane, decision, imports>>
    BY <1>2 DEF IngestHandoff
  <2>2. pass'[b] = NoPass /\ pass' = [pass EXCEPT ![b] = pass'[b]]
    BY <2>1 DEF LaneInv, LaneTyped
  <2> QED BY <2>1, <2>2, PassMovesOn DEF NoPass, LaneInv, LaneTyped, HeldIsAutomatic
<1> QED BY <1>1, <1>2

\* The one pass that decided imports once.
LEMMA ImportKeeps == ASSUME LaneInv, NEW b \in Bridges, ImportHandoff(b) PROVE LaneInv'
<1>1. /\ At(b, "import") /\ imports' = imports + 1 /\ pass' = [pass EXCEPT ![b].at = "receipt"]
      /\ UNCHANGED <<lane, decision>>
  BY DEF ImportHandoff, Goes
<1>2. imports' = 1 /\ decision # <<>> /\ LaneTyped'
  BY <1>1 DEF LaneInv, LaneTyped, GateIsWalkedOnce
<1>3. \A c \in Bridges \ {b} : pass'[c] = pass[c] /\ ~At(c, "import")
  BY <1>1 DEF LaneInv, LaneTyped, GateIsWalkedOnce
<1>4. pass'[b].at = "receipt"
  BY <1>1 DEF LaneInv, LaneTyped
<1>5. GateIsWalkedOnce'
  BY <1>1, <1>2, <1>3, <1>4 DEF LaneInv, GateIsWalkedOnce, At, Acknowledged
<1> QED BY <1>1, <1>2, <1>5 DEF LaneInv, HeldIsAutomatic, DecisionIsOne

\* The other steps of a pass.
LEMMA BridgeKeeps == ASSUME LaneInv, NEW b \in Bridges, BridgeStep(b) PROVE LaneInv'
<1> DEFINE Lanes0 == [at : {"absent", "capture", "gate", "verify", "done"}, held : SUBSET Bridges]
<1>0. /\ lane \in Lanes0 /\ HeldIsAutomatic
      /\ DOMAIN pass[b] = {"at", "ev", "plan", "out"} /\ DOMAIN pass = Bridges
  BY DEF LaneInv, LaneTyped
<1>1. ASSUME NEW pc \in {"drive", "receipt", "final", "record", "return"}, Goes(b, pc),
             UNCHANGED <<lane, decision, imports>>
      PROVE  LaneInv'
  <2>1. pass' = [pass EXCEPT ![b] = [pass[b] EXCEPT !.at = pc]]
    BY <1>0, <1>1 DEF Goes
  <2>2. /\ pass' = [pass EXCEPT ![b] = pass'[b]] /\ pass'[b].at = pc
        /\ DOMAIN pass'[b] = {"at", "ev", "plan", "out"}
    BY <1>0, <2>1
  <2>3. pass'[b].at \notin {"import", "ingest"}
    BY <2>2
  <2> QED BY <1>0, <1>1, <2>2, <2>3, PassMovesOn DEF HeldIsAutomatic
<1>2. ASSUME NEW out, Reports(b, out), UNCHANGED <<lane, decision, imports>>
      PROVE  LaneInv'
  <2>1. pass' = [pass EXCEPT ![b] = [pass[b] EXCEPT !.at = "report", !.out = out]]
    BY <1>0, <1>2 DEF Reports
  <2>2. /\ pass' = [pass EXCEPT ![b] = pass'[b]] /\ pass'[b].at = "report"
        /\ DOMAIN pass'[b] = {"at", "ev", "plan", "out"}
    BY <1>0, <2>1
  <2> QED BY <1>0, <1>2, <2>2, PassMovesOn DEF HeldIsAutomatic
<1>3. ASSUME StartLane(b) PROVE LaneInv'
  <2> DEFINE new == IF lane.at = "absent" THEN [lane EXCEPT !.at = "capture"] ELSE lane
  <2>1. lane' = new /\ UNCHANGED <<decision, imports>>
    BY <1>3 DEF StartLane
  <2>2. /\ lane' \in Lanes0 /\ (lane'.held # {} => lane'.at \in Automatic)
        /\ lane'.at \in {"verify", "done"} <=> lane.at \in {"verify", "done"}
    BY <1>0, <2>1 DEF HeldIsAutomatic, Automatic
  <2>3. \E pc \in {"drive", "report"} :
            /\ pass' = [pass EXCEPT ![b] = pass'[b]] /\ pass'[b].at = pc
            /\ DOMAIN pass'[b] = {"at", "ev", "plan", "out"}
    <3>1. CASE Goes(b, "drive")
      BY <1>0, <3>1 DEF Goes
    <3>2. ASSUME NEW out, Reports(b, out)
          PROVE  /\ pass' = [pass EXCEPT ![b] = pass'[b]] /\ pass'[b].at = "report"
                 /\ DOMAIN pass'[b] = {"at", "ev", "plan", "out"}
      <4>1. pass' = [pass EXCEPT ![b] = [pass[b] EXCEPT !.at = "report", !.out = out]]
        BY <1>0, <3>2 DEF Reports
      <4> QED BY <1>0, <4>1
    <3> QED BY <1>3, <3>1, <3>2 DEF StartLane
  <2>4. lane' \in [at : {"absent", "capture", "gate", "verify", "done"}, held : SUBSET Bridges]
    BY <2>2
  <2> HIDE DEF Lanes0, new
  <2> QED BY <2>1, <2>2, <2>3, <2>4, PassMovesOn
<1>4. ASSUME ClaimStage(b) PROVE LaneInv'
  <2>1. /\ lane' = [lane EXCEPT !.held = {b}] /\ lane.at \in Automatic
        /\ UNCHANGED <<decision, imports, pass>>
    BY <1>4 DEF ClaimStage
  <2>2. lane' \in Lanes0 /\ lane'.at = lane.at
    BY <1>0, <2>1
  <2> QED BY <2>1, <2>2, LaneMovesOn
<1>5. ASSUME CompleteStage(b) PROVE LaneInv'
  <2>1. /\ lane' = [at |-> StageAfter[lane.at], held |-> {}] /\ lane.held = {b}
        /\ UNCHANGED <<decision, imports, pass>>
    BY <1>5 DEF CompleteStage
  <2>2. lane.at \in {"capture", "verify"}
    BY <1>0, <2>1 DEF HeldIsAutomatic, Automatic
  <2>3. StageAfter[lane.at] = IF lane.at = "capture" THEN "gate" ELSE "done"
    BY <2>2 DEF StageAfter
  <2>4. /\ lane' \in Lanes0 /\ lane'.held = {}
        /\ lane'.at \in {"verify", "done"} <=> lane.at \in {"verify", "done"}
    BY <2>1, <2>2, <2>3
  <2> QED BY <2>1, <2>4, LaneMovesOn
<1>6. ASSUME DriveEnds(b) PROVE LaneInv'
  <2>1. CASE Goes(b, "receipt") \/ Reports(b, "waiting_on_human")
    BY <1>1, <1>2, <1>6, <2>1 DEF DriveEnds
  <2>2. CASE Goes(b, "ingest") /\ Acknowledged(pass[b].ev)
    <3>1. pass' = [pass EXCEPT ![b] = [pass[b] EXCEPT !.at = "ingest"]]
      BY <1>0, <2>2 DEF Goes
    <3>2. UNCHANGED <<lane, decision, imports>>
      BY <1>6 DEF DriveEnds
    <3>3. /\ pass' = [pass EXCEPT ![b] = pass'[b]] /\ pass'[b].at = "ingest"
          /\ pass'[b].ev = pass[b].ev /\ DOMAIN pass'[b] = {"at", "ev", "plan", "out"}
      BY <1>0, <3>1
    <3> QED BY <1>0, <2>2, <3>2, <3>3, PassMovesOn DEF HeldIsAutomatic, Acknowledged
  <2> QED BY <1>6, <2>1, <2>2 DEF DriveEnds
<1>7. ASSUME CompareCrosswalk(b) PROVE LaneInv'
  <2>1. CASE Goes(b, "record") \/ Goes(b, "return")
    BY <1>1, <1>7, <2>1 DEF CompareCrosswalk
  <2>2. CASE pass' = [pass EXCEPT ![b].at = "record", ![b].out = "identity_mismatch"]
    <3>1. pass' = [pass EXCEPT ![b] = [pass[b] EXCEPT !.at = "record", !.out = "identity_mismatch"]]
      BY <1>0, <2>2
    <3>2. UNCHANGED <<lane, decision, imports>>
      BY <1>7 DEF CompareCrosswalk
    <3>3. /\ pass' = [pass EXCEPT ![b] = pass'[b]] /\ pass'[b].at = "record"
          /\ DOMAIN pass'[b] = {"at", "ev", "plan", "out"}
      BY <1>0, <3>1
    <3> QED BY <1>0, <3>2, <3>3, PassMovesOn DEF HeldIsAutomatic
  <2> QED BY <1>7, <2>1, <2>2 DEF CompareCrosswalk, Goes
<1>8. ASSUME Return(b) PROVE LaneInv'
  <2>1. pass'[b] = NoPass /\ pass' = [pass EXCEPT ![b] = pass'[b]]
    BY <1>0, <1>8 DEF Return
  <2>2. UNCHANGED <<lane, decision, imports>>
    BY <1>8 DEF Return
  <2> QED BY <1>0, <2>1, <2>2, PassMovesOn DEF NoPass, HeldIsAutomatic
<1>9. ASSUME CheckReceipt(b) \/ FinalEnds(b) \/ RecordCrosswalk(b) PROVE LaneInv'
  BY <1>1, <1>2, <1>9 DEF CheckReceipt, FinalEnds, RecordCrosswalk
<1> QED BY <1>3, <1>4, <1>5, <1>6, <1>7, <1>8, <1>9, IngestKeeps, ImportKeeps DEF BridgeStep

\* A pass that begins reads the evidence, one that dies is forgotten.
LEMMA LaneStep == LaneInv /\ [OCNext]_ocVars => LaneInv'
<1> SUFFICES ASSUME LaneInv, [OCNext]_ocVars PROVE LaneInv'
  OBVIOUS
<1>0. LaneTyped /\ HeldIsAutomatic
  BY DEF LaneInv
<1>1. ASSUME NEW b \in Bridges, ReadEvidence(b) PROVE LaneInv'
  <2> DEFINE new == [NoPass EXCEPT !.at = "start", !.ev = Evidence, !.plan = PredictedStop(Evidence)]
  <2>1. pass' = [pass EXCEPT ![b] = new] /\ UNCHANGED <<lane, decision, imports>>
    BY <1>1 DEF ReadEvidence
  <2>2. DOMAIN new = {"at", "ev", "plan", "out"} /\ new.at = "start"
    BY DEF NoPass
  <2> HIDE DEF new
  <2>3. pass'[b] = new /\ pass' = [pass EXCEPT ![b] = pass'[b]]
    BY <1>0, <2>1 DEF LaneTyped
  <2> QED BY <1>0, <2>1, <2>2, <2>3, PassMovesOn DEF LaneTyped, HeldIsAutomatic
<1>2. ASSUME NEW b \in Bridges, Dies(b) PROVE LaneInv'
  <2>1. pass'[b] = NoPass /\ pass' = [pass EXCEPT ![b] = pass'[b]]
    BY <1>0, <1>2 DEF Dies, LaneTyped
  <2>2. UNCHANGED <<lane, decision, imports>>
    BY <1>2 DEF Dies
  <2> QED BY <1>0, <2>1, <2>2, PassMovesOn DEF NoPass, LaneTyped, HeldIsAutomatic
<1>3. ASSUME UNCHANGED <<lane, decision, imports, pass>> PROVE LaneInv'
  BY <1>0, <1>3, LaneMovesOn DEF LaneTyped, HeldIsAutomatic
<1>4. CASE \/ \E h \in {"open", "acknowledged", "foreign"} : WriteHandoff(h)
           \/ \E s \in ReceiptStates : FileReceipt(s)
           \/ UNCHANGED ocVars
  BY <1>3, <1>4 DEF WriteHandoff, FileReceipt, ocVars
<1> QED BY <1>1, <1>2, <1>4, BridgeKeeps DEF OCNext

\* Overlapping passes decide the gate once, on an acknowledgement, and import it
\* no more often than that (ingest_human_decision).
THEOREM GateIsDecidedOnce == OCSpec => []GateDecidedOnce
<1>1. LaneInv => GateDecidedOnce
  <2> SUFFICES ASSUME LaneInv PROVE GateDecidedOnce
    OBVIOUS
  <2>1. CASE lane.at \in {"verify", "done"}
    BY <2>1 DEF LaneInv, LaneTyped, DecisionIsOne, GateIsWalkedOnce, GateDecidedOnce
  <2>2. CASE lane.at \notin {"verify", "done"}
    BY <2>2 DEF LaneInv, LaneTyped, DecisionIsOne, GateIsWalkedOnce, GateDecidedOnce
  <2> QED BY <2>1, <2>2
<1> QED BY LaneStart, LaneStep, <1>1, PTL DEF OCSpec

-----------------------------------------------------------------------------
(* Owned completion, where passes do not overlap. *)

\* The passes that overlap are settled once and for all.
CrewTyped == crew \subseteq Bridges /\ IsFiniteSet(crew)

\* A pass that keeps its plan has read an acknowledgement and a receipt that is
\* done, and stands where they lead.
OnPlan(c) ==
    LET p == pass[c] IN
    p.plan = "would_reach_terminal" =>
        /\ Acknowledged(p.ev) /\ RunnerDone(p.ev)
        /\ p.at = "drive" => lane.at # "absent"
        /\ p.at = "ingest" => lane.at = "gate"
        /\ p.at \in {"import", "receipt", "final"} => lane.at \in {"verify", "done"}
        /\ p.at \in {"report", "record", "return"} => p.out \in {"done", "identity_mismatch"}

\* A crosswalk that is about to be recorded agrees with the recorded one.
AboutToRecord(c) ==
    At(c, "record") /\ pass[c].out # "identity_mismatch" =>
        ~Conflicts(crosswalks.last, Crosswalk(pass[c].ev))

Alone(c) ==
    /\ \A b \in Bridges \ {c} : At(b, "idle")
    /\ lane.held \subseteq {c}
    /\ OnPlan(c) /\ AboutToRecord(c)

SoleInv == CrewTyped /\ \A c \in Bridges : crew = {c} => Alone(c)

\* No pass has begun.
LEMMA SoleStart == OCInit => SoleInv
<1> SUFFICES ASSUME OCInit PROVE SoleInv
  OBVIOUS
<1>1. CrewTyped
  <2>1. CASE crew = Bridges
    BY <2>1, BridgesExist DEF CrewTyped
  <2>2. CASE crew = {CHOOSE b \in Bridges : TRUE}
    <3>1. (CHOOSE b \in Bridges : TRUE) \in Bridges
      BY BridgesExist
    <3> QED BY <2>2, <3>1, FS_Singleton DEF CrewTyped
  <2> QED BY <2>1, <2>2 DEF OCInit
<1>2. \A b \in Bridges : pass[b].at = "idle" /\ pass[b].plan = "none"
  BY DEF OCInit, NoPass
<1>3. lane.held = {}
  BY DEF OCInit
<1> QED BY <1>1, <1>2, <1>3 DEF SoleInv, Alone, At, OnPlan, AboutToRecord

\* A pass alone that moves on without touching what it read.
LEMMA AloneMovesOn ==
    ASSUME LaneTyped, NEW c \in Bridges, Alone(c), NEW at, NEW out,
           pass' = [pass EXCEPT ![c] = [pass[c] EXCEPT !.at = at, !.out = out]],
           lane'.held \subseteq {c},
           OnPlan(c) /\ pass[c].plan = "would_reach_terminal" =>
               /\ at = "drive" => lane'.at # "absent"
               /\ at = "ingest" => lane'.at = "gate"
               /\ at \in {"import", "receipt", "final"} => lane'.at \in {"verify", "done"}
               /\ at \in {"report", "record", "return"} => out \in {"done", "identity_mismatch"},
           at = "record" /\ out # "identity_mismatch" =>
               ~Conflicts(crosswalks'.last, Crosswalk(pass[c].ev))
    PROVE  Alone(c)'
<1>1. /\ pass'[c].at = at /\ pass'[c].out = out
      /\ pass'[c].plan = pass[c].plan /\ pass'[c].ev = pass[c].ev
      /\ \A b \in Bridges \ {c} : pass'[b] = pass[b]
  BY DEF LaneTyped
<1> QED BY <1>1 DEF Alone, At, OnPlan, AboutToRecord, Acknowledged, RunnerDone, Crosswalk, Conflicts

\* What a pass's own steps do, when it is alone.
LEMMA AloneSteps ==
    ASSUME LaneInv, NEW c \in Bridges, Alone(c), BridgeStep(c)
    PROVE  Alone(c)'
<1>0. /\ LaneTyped /\ DOMAIN pass = Bridges /\ DOMAIN pass[c] = {"at", "ev", "plan", "out"}
      /\ lane.at \in {"absent", "capture", "gate", "verify", "done"}
      /\ lane.held \subseteq {c} /\ OnPlan(c) /\ AboutToRecord(c)
      /\ lane = [at |-> lane.at, held |-> lane.held]
  BY DEF LaneInv, LaneTyped, Alone
<1> DEFINE Moved(at, out) ==
             pass' = [pass EXCEPT ![c] = [pass[c] EXCEPT !.at = at, !.out = out]]
<1>1. ASSUME NEW at, Goes(c, at) PROVE Moved(at, pass[c].out)
  <2>1. [pass[c] EXCEPT !.at = at, !.out = pass[c].out] = [pass[c] EXCEPT !.at = at]
    BY <1>0
  <2> QED BY <1>0, <1>1, <2>1 DEF Goes
<1>2. ASSUME NEW out, Reports(c, out) PROVE Moved("report", out)
  BY <1>0, <1>2 DEF Reports
<1>3. ASSUME StartLane(c) PROVE Alone(c)'
  <2>1. lane'.held \subseteq {c} /\ lane'.at # "absent"
        /\ (lane.at # "absent" => lane' = lane) /\ UNCHANGED crosswalks
    BY <1>0, <1>3 DEF StartLane
  <2>2. CASE Goes(c, "drive")
    BY <1>0, <1>1, <2>1, <2>2, AloneMovesOn
  <2>3. CASE Reports(c, "identity_mismatch") \/ Reports(c, "done")
    BY <1>0, <1>2, <2>1, <2>3, AloneMovesOn
  <2> QED BY <1>3, <2>2, <2>3 DEF StartLane
<1>4. ASSUME ClaimStage(c) PROVE Alone(c)'
  <2>1. /\ lane'.held = {c} /\ lane'.at = lane.at /\ UNCHANGED <<pass, crosswalks>>
    BY <1>0, <1>4 DEF ClaimStage
  <2> QED BY <2>1 DEF Alone, At, OnPlan, AboutToRecord, Acknowledged, RunnerDone, Conflicts,
             Crosswalk
<1>5. ASSUME CompleteStage(c) PROVE Alone(c)'
  <2>1. /\ lane'.held = {} /\ lane'.at = StageAfter[lane.at] /\ UNCHANGED <<pass, crosswalks>>
        /\ pass[c].at \in {"drive", "final"} /\ lane.held # {}
    BY <1>5 DEF CompleteStage
  <2>2. lane.at \in {"capture", "verify"}
    BY <2>1 DEF LaneInv, HeldIsAutomatic, Automatic
  <2>3. lane'.at = IF lane.at = "capture" THEN "gate" ELSE "done"
    BY <2>1, <2>2 DEF StageAfter
  <2> QED BY <2>1, <2>2, <2>3 DEF Alone, At, OnPlan, AboutToRecord, Acknowledged, RunnerDone,
             Conflicts, Crosswalk
<1>6. ASSUME DriveEnds(c) PROVE Alone(c)'
  <2>1. /\ At(c, "drive") /\ lane.at \notin Automatic /\ UNCHANGED <<lane, crosswalks>>
    BY <1>0, <1>6 DEF DriveEnds, Idle
  <2>2. CASE Goes(c, "receipt") /\ lane.at # "gate"
    <3>1. Moved("receipt", pass[c].out)
      BY <1>1, <2>2
    <3> QED BY <1>0, <2>1, <2>2, <3>1, AloneMovesOn DEF At, OnPlan, Automatic
  <2>3. CASE Goes(c, "ingest") /\ lane.at = "gate"
    <3>1. Moved("ingest", pass[c].out)
      BY <1>1, <2>3
    <3> QED BY <1>0, <2>1, <2>3, <3>1, AloneMovesOn
  <2>4. CASE Reports(c, "waiting_on_human") /\ ~Acknowledged(pass[c].ev)
    BY <1>0, <1>2, <2>1, <2>4, AloneMovesOn DEF OnPlan
  <2> QED BY <1>6, <2>2, <2>3, <2>4 DEF DriveEnds
<1>7. ASSUME IngestHandoff(c) PROVE Alone(c)'
  <2>1. CASE lane.at = "gate"
    <3>1. lane'.at = "verify" /\ lane'.held = lane.held /\ Goes(c, "import")
          /\ UNCHANGED crosswalks
      BY <1>0, <1>7, <2>1 DEF IngestHandoff
    <3> QED BY <1>0, <1>1, <3>1, AloneMovesOn
  <2>2. CASE lane.at # "gate"
    <3>1. pass'[c] = NoPass /\ (\A b \in Bridges \ {c} : pass'[b] = pass[b]) /\ UNCHANGED lane
      BY <1>0, <1>7, <2>2 DEF IngestHandoff
    <3> QED BY <3>1 DEF Alone, At, OnPlan, AboutToRecord, NoPass
  <2> QED BY <2>1, <2>2
<1>8. ASSUME ImportHandoff(c) PROVE Alone(c)'
  <2>1. At(c, "import") /\ Goes(c, "receipt") /\ UNCHANGED <<lane, crosswalks>>
    BY <1>8 DEF ImportHandoff
  <2>2. Moved("receipt", pass[c].out)
    BY <1>1, <2>1
  <2> QED BY <1>0, <2>1, <2>2, AloneMovesOn DEF At, OnPlan
<1>9. ASSUME CheckReceipt(c) PROVE Alone(c)'
  <2>1. At(c, "receipt") /\ UNCHANGED <<lane, crosswalks>>
    BY <1>9 DEF CheckReceipt
  <2>2. CASE Goes(c, "final")
    <3>1. Moved("final", pass[c].out)
      BY <1>1, <2>2
    <3> QED BY <1>0, <2>1, <3>1, AloneMovesOn DEF At, OnPlan
  <2>3. CASE Reports(c, "waiting_on_openclaw_runner") /\ ~RunnerDone(pass[c].ev)
    BY <1>0, <1>2, <2>1, <2>3, AloneMovesOn DEF OnPlan
  <2> QED BY <1>9, <2>2, <2>3 DEF CheckReceipt
<1>10. ASSUME FinalEnds(c) PROVE Alone(c)'
  <2>1. /\ At(c, "final") /\ lane.at \notin Automatic /\ UNCHANGED <<lane, crosswalks>>
        /\ Reports(c, IF lane.at = "done" THEN "done" ELSE "idle")
    BY <1>0, <1>10 DEF FinalEnds, Idle
  <2>2. Moved("report", IF lane.at = "done" THEN "done" ELSE "idle")
    BY <1>2, <2>1
  <2> QED BY <1>0, <2>1, <2>2, AloneMovesOn DEF At, OnPlan, Automatic
<1>11. ASSUME CompareCrosswalk(c) PROVE Alone(c)'
  <2>1. At(c, "report") /\ UNCHANGED <<lane, crosswalks>>
    BY <1>11 DEF CompareCrosswalk
  <2>2. CASE pass' = [pass EXCEPT ![c].at = "record", ![c].out = "identity_mismatch"]
    <3>1. Moved("record", "identity_mismatch")
      BY <1>0, <2>2
    <3> QED BY <1>0, <2>1, <3>1, AloneMovesOn
  <2>3. CASE pass' = [pass EXCEPT ![c].at = "return"]
    <3>1. Moved("return", pass[c].out)
      BY <1>1, <2>3 DEF Goes
    <3> QED BY <1>0, <2>1, <3>1, AloneMovesOn DEF At, OnPlan
  <2>4. CASE Goes(c, "record") /\ ~Conflicts(crosswalks.last, Crosswalk(pass[c].ev))
    <3>1. Moved("record", pass[c].out)
      BY <1>1, <2>4
    <3> QED BY <1>0, <2>1, <2>4, <3>1, AloneMovesOn DEF At, OnPlan
  <2> QED BY <1>11, <2>2, <2>3, <2>4 DEF CompareCrosswalk
<1>12. ASSUME RecordCrosswalk(c) PROVE Alone(c)'
  <2>1. At(c, "record") /\ Goes(c, "return") /\ UNCHANGED lane
    BY <1>12 DEF RecordCrosswalk
  <2>2. Moved("return", pass[c].out)
    BY <1>1, <2>1
  <2> QED BY <1>0, <2>1, <2>2, AloneMovesOn DEF At, OnPlan
<1>13. ASSUME Return(c) PROVE Alone(c)'
  <2>1. pass'[c] = NoPass /\ (\A b \in Bridges \ {c} : pass'[b] = pass[b]) /\ UNCHANGED lane
    BY <1>0, <1>13 DEF Return
  <2> QED BY <2>1 DEF Alone, At, OnPlan, AboutToRecord, NoPass
<1> QED BY <1>3, <1>4, <1>5, <1>6, <1>7, <1>8, <1>9, <1>10, <1>11, <1>12, <1>13 DEF BridgeStep

\* Where one pass runs alone no other begins, and it stays on its plan.
LEMMA SoleStep == LaneInv /\ SoleInv /\ [OCNext]_ocVars => SoleInv'
<1> SUFFICES ASSUME LaneInv, SoleInv, [OCNext]_ocVars PROVE SoleInv'
  OBVIOUS
<1>1. UNCHANGED crew
  BY DEF OCNext, ocVars, WriteHandoff, FileReceipt, ReadEvidence, Dies, BridgeStep, StartLane,
     ClaimStage, CompleteStage, DriveEnds, IngestHandoff, ImportHandoff, CheckReceipt, FinalEnds,
     CompareCrosswalk, RecordCrosswalk, Return
<1>2. CrewTyped'
  BY <1>1 DEF SoleInv, CrewTyped
<1>3. ASSUME NEW c \in Bridges, crew = {c} PROVE Alone(c)'
  <2>0. Alone(c) /\ DOMAIN pass = Bridges
    BY <1>3 DEF SoleInv, LaneInv, LaneTyped
  <2>1. CASE UNCHANGED <<lane, pass, crosswalks>>
    BY <2>0, <2>1 DEF Alone, At, OnPlan, AboutToRecord, Acknowledged, RunnerDone, Crosswalk,
       Conflicts
  <2>2. CASE ReadEvidence(c)
    <3> DEFINE new == [NoPass EXCEPT !.at = "start", !.ev = Evidence,
                                     !.plan = PredictedStop(Evidence)]
    <3>1. pass' = [pass EXCEPT ![c] = new] /\ UNCHANGED lane
      BY <2>2 DEF ReadEvidence
    <3>2. new.at = "start" /\ new.ev = Evidence /\ new.plan = PredictedStop(Evidence)
      BY DEF NoPass
    <3> HIDE DEF new
    <3>3. PredictedStop(Evidence) = "would_reach_terminal" =>
            Acknowledged(Evidence) /\ RunnerDone(Evidence)
      BY DEF PredictedStop
    <3>4. /\ pass'[c] = new /\ \A b \in Bridges \ {c} : pass'[b] = pass[b]
      BY <2>0, <3>1
    <3>5. Acknowledged(Evidence) = (new.ev.handoff = "acknowledged")
          /\ RunnerDone(Evidence) = (new.ev.receipt.state = "done")
      BY <3>2 DEF Acknowledged, RunnerDone
    <3> QED BY <2>0, <3>1, <3>2, <3>3, <3>4, <3>5 DEF Alone, At, OnPlan, AboutToRecord,
               Acknowledged, RunnerDone
  <2>3. CASE Dies(c)
    <3>1. pass'[c] = NoPass /\ (\A b \in Bridges \ {c} : pass'[b] = pass[b]) /\ UNCHANGED lane
      BY <2>0, <2>3 DEF Dies
    <3> QED BY <2>0, <3>1 DEF Alone, At, OnPlan, AboutToRecord, NoPass
  <2>4. ASSUME NEW b \in Bridges, b # c PROVE ~(ReadEvidence(b) \/ BridgeStep(b) \/ Dies(b))
    <3>1. pass[b].at = "idle"
      BY <2>0, <2>4 DEF Alone, At
    <3>2. ~ReadEvidence(b) /\ ~Dies(b)
      BY <1>3, <2>4, <3>1 DEF ReadEvidence, Dies, At
    <3>3. ~BridgeStep(b)
      BY <3>1 DEF BridgeStep, At, StartLane, ClaimStage, CompleteStage, DriveEnds,
         IngestHandoff, ImportHandoff, CheckReceipt, FinalEnds, CompareCrosswalk,
         RecordCrosswalk, Return
    <3> QED BY <3>2, <3>3
  <2>5. \/ UNCHANGED <<lane, pass, crosswalks>>
        \/ \E b \in Bridges : ReadEvidence(b) \/ BridgeStep(b) \/ Dies(b)
    BY DEF OCNext, ocVars, WriteHandoff, FileReceipt
  <2> QED BY <2>0, <2>1, <2>2, <2>3, <2>4, <2>5, AloneSteps
<1> QED BY <1>1, <1>2, <1>3 DEF SoleInv

\* One pass is one pass.
LEMMA CrewOfOne ==
    ASSUME CrewTyped, Cardinality(crew) = 1
    PROVE  \E c \in Bridges : crew = {c}
BY FS_Singleton DEF CrewTyped

\* A pass that runs alone keeps the promise of its plan (owned_completion.py's
\* predicted stop and the run that follows it).
THEOREM PlansAreKept == OCSpec => []PlanIsKept
<1>1. SoleInv => PlanIsKept
  <2> SUFFICES ASSUME SoleInv, Cardinality(crew) = 1, NEW b \in Bridges, At(b, "return"),
                      pass[b].plan = "would_reach_terminal"
               PROVE  pass[b].out \in {"done", "identity_mismatch"}
    BY DEF PlanIsKept
  <2>1. PICK c \in Bridges : crew = {c}
    BY CrewOfOne DEF SoleInv
  <2>2. Alone(c)
    BY <2>1 DEF SoleInv
  <2>3. b = c
    BY <2>2 DEF Alone, At
  <2> QED BY <2>2, <2>3 DEF Alone, OnPlan, At
<1> QED BY LaneStart, LaneStep, SoleStart, SoleStep, <1>1, PTL DEF OCSpec

\* A crosswalk that a pass alone records agrees with the recorded one
\* (openclaw_identity_crosswalk_conflicts).
THEOREM CrosswalksKeepIdentity == OCSpec => CrosswalkKeepsIdentity
<1>1. SoleInv /\ [OCNext]_ocVars =>
        [Cardinality(crew) = 1 => ~Conflicts(crosswalks.last, crosswalks'.last)]_ocVars
  <2> SUFFICES ASSUME SoleInv, OCNext, Cardinality(crew) = 1
               PROVE  ~Conflicts(crosswalks.last, crosswalks'.last)
    OBVIOUS
  <2>1. PICK c \in Bridges : crew = {c}
    BY CrewOfOne DEF SoleInv
  <2>2. Alone(c)
    BY <2>1 DEF SoleInv
  <2>3. CASE UNCHANGED crosswalks
    BY <2>3 DEF Conflicts
  <2>4. ASSUME NEW b \in Bridges, RecordCrosswalk(b), crosswalks' # crosswalks
        PROVE  ~Conflicts(crosswalks.last, crosswalks'.last)
    <3>1. At(b, "record")
      BY <2>4 DEF RecordCrosswalk
    <3>2. b = c
      BY <2>2, <3>1 DEF Alone, At
    <3>3. crosswalks'.last = Crosswalk(pass[c].ev) /\ pass[c].out # "identity_mismatch"
      BY <2>4, <3>2 DEF RecordCrosswalk
    <3> QED BY <2>2, <3>1, <3>2, <3>3 DEF Alone, AboutToRecord
  <2> QED BY <2>3, <2>4 DEF OCNext, WriteHandoff, FileReceipt, ReadEvidence, Dies, BridgeStep,
             StartLane, ClaimStage, CompleteStage, DriveEnds, IngestHandoff, ImportHandoff,
             CheckReceipt, FinalEnds, CompareCrosswalk, Return
<1> QED BY LaneStart, LaneStep, SoleStart, SoleStep, <1>1, PTL
        DEF OCSpec, CrosswalkKeepsIdentity

-----------------------------------------------------------------------------
(* Ivy and Jonah. *)

Steps == {"idle", "handoff", "apply", "p4", "build", "rebuild", "review", "rereview", "p5",
          "replace", "publish", "bundle", "stop", "mark", "block", "lifecycle", "republish",
          "refresh"}

ProjectStates == [gate : {"P1", "P2", "P3", "P4", "P5"},
                  status : {"active", "needs_suman", "killed"},
                  channel : {"substack_medium", "note"}]

IvyTyped ==
    /\ project \in [Projects -> ProjectStates]
    /\ draft \in [Projects -> {"unread", "accepted", "returned", "refused"}]
    /\ note \in [Projects -> {"none", "stale", "current"}]
    /\ handoff \in [HandoffNos -> [p : Projects, action : Actions \cup {"none"},
                                   status : {"none", "pending", "processed", "blocked"}]]
    /\ \A h \in HandoffNos : handoff[h].status # "none" => handoff[h].action \in Actions
    /\ run \in [at : Steps, h : HandoffNos \cup {0}, p : Projects]

\* The decisions that let Ivy rewrite what a note shows, and the steps that do it.
Rewriting == {"advance_to_p4", "revise_p3", "revise_p5"}
RewritingSteps == {"p4", "build", "rebuild", "review", "rereview", "p5", "replace", "publish"}

\* A run that has taken a handoff works on it, and on nothing else.
WorksOnHandoff ==
    run.at \notin {"idle", "handoff", "lifecycle", "republish", "refresh"} =>
      /\ run.h \in HandoffNos
      /\ handoff[run.h].p = run.p /\ handoff[run.h].status = "pending"
      /\ run.at = "apply" => Work \in Actions \ {"other"}
      /\ run.at \in RewritingSteps => Work \in Rewriting
      /\ run.at \in {"bundle", "stop"} => Work \notin Rewriting
      /\ run.at = "mark" /\ Work \in Rewriting => note[run.p] # "stale"

AcceptedAtP5 == run.at = "p5" => draft[run.p] = "accepted"

\* A stale note has a rewriting decision on it that is not processed.
StaleByRewriting ==
    \A p \in Projects : note[p] = "stale" =>
        \E h \in HandoffNos : /\ handoff[h].p = p /\ handoff[h].action \in Rewriting
                              /\ handoff[h].status \in {"pending", "blocked"}

IvyInv == IvyTyped /\ WorksOnHandoff /\ AcceptedAtP5 /\ StaleByRewriting

\* No run has begun, and no note is published.
LEMMA IvyStart == IvyInit => IvyInv
<1> SUFFICES ASSUME IvyInit PROVE IvyInv
  OBVIOUS
<1>1. NoRun \in [at : Steps, h : HandoffNos \cup {0}, p : Projects] /\ NoRun.at = "idle"
  BY ProjectsExist DEF NoRun, Steps
<1>2. Unwritten \in [p : Projects, action : Actions \cup {"none"},
                     status : {"none", "pending", "processed", "blocked"}]
  BY <1>1 DEF Unwritten
<1>3. IvyTyped
  BY <1>1, <1>2 DEF IvyInit, IvyTyped, Unwritten, ProjectStates
<1> QED BY <1>1, <1>3 DEF IvyInit, IvyInv, WorksOnHandoff, AcceptedAtP5, StaleByRewriting

\* A run that ends, or has not taken a handoff, may move projects.
LEMMA RunWithoutHandoffKeeps ==
    ASSUME IvyInv, IvyTyped', UNCHANGED <<draft, handoff>>,
           run'.at \in {"idle", "handoff", "lifecycle", "republish", "refresh"},
           \A p \in Projects : note'[p] = "stale" => note[p] = "stale"
    PROVE  IvyInv'
BY DEF IvyInv, WorksOnHandoff, AcceptedAtP5, StaleByRewriting

\* A run that goes on with its handoff, and rewrites only under a rewriting one.
LEMMA RunWithHandoffKeeps ==
    ASSUME IvyInv, IvyTyped', handoff' = handoff,
           run.at \notin {"idle", "handoff", "lifecycle", "republish", "refresh"},
           run'.h = run.h, run'.p = run.p, run'.at # "apply",
           run'.at \in RewritingSteps => Work \in Rewriting,
           run'.at \in {"bundle", "stop"} => Work \notin Rewriting,
           run'.at = "mark" /\ Work \in Rewriting => note'[run.p] # "stale",
           run'.at = "p5" => draft'[run.p] = "accepted",
           \A p \in Projects : note'[p] = "stale" =>
               note[p] = "stale" \/ (p = run.p /\ Work \in Rewriting)
    PROVE  IvyInv'
<1>1. WorksOnHandoff'
  BY DEF IvyInv, WorksOnHandoff, Work
<1>2. StaleByRewriting'
  BY DEF IvyInv, WorksOnHandoff, StaleByRewriting, Work
<1> QED BY <1>1, <1>2 DEF IvyInv, AcceptedAtP5

\* A project that is moved is at the gate it is moved to.
LEMMA MovedIsTyped ==
    ASSUME NEW q \in ProjectStates, NEW gate \in {"P2", "P3", "P4", "P5"}
    PROVE  /\ MovedTo(q, gate) \in ProjectStates
           /\ MovedTo(q, gate).gate = gate
<1>1. PICK status \in {"active", "needs_suman"} :
          MovedTo(q, gate) = [q EXCEPT !.gate = gate, !.status = status]
  BY DEF MovedTo
<1> QED BY <1>1 DEF ProjectStates

\* What the run is when it has ended.
LEMMA NoRunIsTyped ==
    NoRun \in [at : Steps, h : HandoffNos \cup {0}, p : Projects] /\ NoRun.at = "idle"
BY ProjectsExist DEF NoRun, Steps

\* Audit, the choice of a handoff and the steps that have none.
LEMMA QuietRunKeeps ==
    ASSUME IvyInv,
           \/ Audit \/ PickHandoff \/ RepublishHumanGate \/ RefreshBlackboard \/ RunDies
           \/ AdvanceLifecycle
    PROVE  IvyInv'
<1>0. IvyTyped
  BY DEF IvyInv
<1>1. CASE Audit \/ RefreshBlackboard \/ RunDies
  <2>1. run' = NoRun \/ run' = [NoRun EXCEPT !.at = "handoff"]
    BY <1>1 DEF Audit, RefreshBlackboard, RunDies
  <2>2. UNCHANGED <<project, draft, note, handoff>>
    BY <1>1 DEF Audit, RefreshBlackboard, RunDies
  <2>3. IvyTyped' /\ run'.at \in {"idle", "handoff"}
    BY <1>0, <2>1, <2>2, NoRunIsTyped DEF IvyTyped, Steps
  <2> QED BY <2>2, <2>3, RunWithoutHandoffKeeps
<1>2. CASE PickHandoff
  <2>1. UNCHANGED <<project, draft, note, handoff>>
    BY <1>2 DEF PickHandoff
  <2>2. CASE Claimable = {}
    <3>1. run' = [run EXCEPT !.at = "lifecycle"]
      BY <1>2, <2>2 DEF PickHandoff, Step
    <3>2. IvyTyped' /\ run'.at = "lifecycle"
      BY <1>0, <2>1, <3>1 DEF IvyTyped, Steps
    <3> QED BY <2>1, <3>2, RunWithoutHandoffKeeps
  <2>3. ASSUME NEW h \in Claimable,
               run' = [at |-> IF handoff[h].action = "other" THEN "block" ELSE "apply",
                       h |-> h, p |-> handoff[h].p]
        PROVE  IvyInv'
    <3>1. h \in HandoffNos /\ handoff[h].status = "pending" /\ handoff[h].p \in Projects
      BY <1>0, <2>3 DEF Claimable, IvyTyped
    <3>2. IvyTyped'
      BY <1>0, <2>1, <2>3, <3>1 DEF IvyTyped, Steps
    <3>3. /\ run'.h = h /\ run'.p = handoff[h].p /\ run'.at \in {"block", "apply"}
          /\ run'.at = "apply" => handoff[h].action # "other"
      BY <2>3
    <3>4. handoff[h].action \in Actions
      BY <1>0, <3>1 DEF IvyTyped
    <3> QED BY <2>1, <3>1, <3>2, <3>3, <3>4
            DEF IvyInv, WorksOnHandoff, AcceptedAtP5, StaleByRewriting, Work, RewritingSteps
  <2> QED BY <1>2, <2>2, <2>3 DEF PickHandoff
<1>3. CASE RepublishHumanGate
  <2>1. /\ UNCHANGED <<project, draft, handoff>>
        /\ note' = note \/ note' = [note EXCEPT ![run.p] = "current"]
        /\ run' = NoRun \/ run' = [run EXCEPT !.at = "refresh"]
    BY <1>3 DEF RepublishHumanGate, Step
  <2>2. IvyTyped' /\ run'.at \in {"idle", "refresh"}
    BY <1>0, <2>1, NoRunIsTyped DEF IvyTyped, Steps
  <2>3. \A p \in Projects : note'[p] = "stale" => note[p] = "stale"
    BY <1>0, <2>1 DEF IvyTyped
  <2> QED BY <2>1, <2>2, <2>3, RunWithoutHandoffKeeps
<1>4. CASE AdvanceLifecycle
  <2>1. UNCHANGED <<draft, note, handoff>>
    BY <1>4 DEF AdvanceLifecycle
  <2>2. run' = NoRun \/ \E p \in Projects : run' = [run EXCEPT !.at = "republish", !.p = p]
    BY <1>4 DEF AdvanceLifecycle, Selected, Selectable
  <2>3. \/ project' = project
        \/ \E p \in Projects : /\ project[p].gate # "P5"
                               /\ project' = [project EXCEPT ![p] = MovedTo(@, NextGate[@.gate])]
    BY <1>0, <1>4 DEF AdvanceLifecycle, Selected, Selectable, IvyTyped
  <2>4. IvyTyped' /\ run'.at \in {"idle", "republish"}
    <3>1. project' \in [Projects -> ProjectStates]
      <4>1. ASSUME NEW p \in Projects, project[p].gate # "P5"
            PROVE  NextGate[project[p].gate] \in {"P2", "P3", "P4", "P5"}
        BY <1>0, <4>1 DEF IvyTyped, ProjectStates, NextGate
      <4>2. ASSUME NEW p \in Projects, project[p].gate # "P5",
                   project' = [project EXCEPT ![p] = MovedTo(@, NextGate[@.gate])]
            PROVE  project' \in [Projects -> ProjectStates]
        <5>1. MovedTo(project[p], NextGate[project[p].gate]) \in ProjectStates
          BY <1>0, <4>1, <4>2, MovedIsTyped DEF IvyTyped
        <5>2. project' = [project EXCEPT ![p] = MovedTo(project[p], NextGate[project[p].gate])]
          BY <4>2
        <5> QED BY <1>0, <5>1, <5>2 DEF IvyTyped
      <4> QED BY <1>0, <2>3, <4>2 DEF IvyTyped
    <3>2. /\ run' \in [at : Steps, h : HandoffNos \cup {0}, p : Projects]
          /\ run'.at \in {"idle", "republish"}
      BY <1>0, <2>2, NoRunIsTyped DEF IvyTyped, Steps
    <3> QED BY <1>0, <2>1, <3>1, <3>2 DEF IvyTyped
  <2> QED BY <2>1, <2>4, RunWithoutHandoffKeeps
<1> QED BY <1>1, <1>2, <1>3, <1>4
\* The steps that work on a handoff.
LEMMA WorkingRunKeeps ==
    ASSUME IvyInv,
           \/ ApplyDecision \/ AdvanceToP4 \/ BuildDraft \/ ReviewDraft \/ AdvanceToP5
           \/ ReplaceArtifact \/ PublishHumanGate \/ PrepareBundle \/ StopProject
    PROVE  IvyInv'
<1>0. IvyTyped /\ WorksOnHandoff /\ run.p \in Projects
  BY DEF IvyInv, IvyTyped
<1>1. ASSUME NEW at \in Steps \ {"apply"}, run' = [run EXCEPT !.at = at]
      PROVE  /\ run' \in [at : Steps, h : HandoffNos \cup {0}, p : Projects]
             /\ run'.at = at /\ run'.h = run.h /\ run'.p = run.p
  BY <1>0, <1>1 DEF IvyTyped
<1>2. CASE ApplyDecision
  <2>1. /\ run.at = "apply" /\ UNCHANGED <<draft, note, handoff>> /\ Work \in Actions \ {"other"}
        /\ \/ project' = project
           \/ project' = [project EXCEPT ![run.p].status =
                              IF @ = "needs_suman" THEN "active" ELSE @]
    BY <1>0, <1>2 DEF ApplyDecision, Running, WorksOnHandoff
  <2>5. project' \in [Projects -> ProjectStates]
    <3>1. project[run.p] \in ProjectStates
      BY <1>0 DEF IvyTyped
    <3>2. \E status \in {"active", "needs_suman", "killed"} :
              project' = project \/ project' = [project EXCEPT ![run.p] =
                                                   [project[run.p] EXCEPT !.status = status]]
      BY <1>0, <2>1, <3>1 DEF IvyTyped, ProjectStates
    <3>3. \A status \in {"active", "needs_suman", "killed"} :
              [project[run.p] EXCEPT !.status = status] \in ProjectStates
      BY <3>1 DEF ProjectStates
    <3> QED BY <1>0, <3>2, <3>3 DEF IvyTyped
  <2>2. CASE run' = NoRun
    <3>1. IvyTyped'
      BY <1>0, <2>1, <2>2, <2>5, NoRunIsTyped DEF IvyTyped
    <3> QED BY <2>1, <2>2, <3>1, NoRunIsTyped, RunWithoutHandoffKeeps
  <2>3. ASSUME NEW at \in {"p4", "replace", "bundle", "stop"}, run' = [run EXCEPT !.at = at],
               at \in {"p4", "replace"} => Work \in Rewriting,
               at \in {"bundle", "stop"} => Work \notin Rewriting
        PROVE  IvyInv'
    <3>1. IvyTyped'
      BY <1>0, <1>1, <2>1, <2>3, <2>5 DEF IvyTyped, Steps
    <3> QED BY <1>1, <2>1, <2>3, <3>1, RunWithHandoffKeeps DEF Steps, RewritingSteps
  <2>4. CASE hostUp
    <3>1. CASE Work = "advance_to_p4"
      BY <1>2, <2>3, <2>4, <3>1 DEF ApplyDecision, Step, Rewriting
    <3>2. CASE Work \in {"revise_p3", "revise_p5"}
      BY <1>2, <2>3, <2>4, <3>2 DEF ApplyDecision, Step, Rewriting
    <3>3. CASE Work = "prepare_publish_bundle"
      BY <1>2, <2>3, <2>4, <3>3 DEF ApplyDecision, Step, Rewriting
    <3>4. CASE Work = "kill"
      BY <1>2, <2>3, <2>4, <3>4 DEF ApplyDecision, Step, Rewriting
    <3> QED BY <2>1, <3>1, <3>2, <3>3, <3>4 DEF Actions
  <2> QED BY <1>2, <2>2, <2>4 DEF ApplyDecision
<1>3. CASE AdvanceToP4 \/ AdvanceToP5 \/ StopProject
  <2>1. /\ run.at \in {"p4", "p5", "stop"} /\ UNCHANGED <<draft, note, handoff>>
        /\ \/ project' = project
           \/ project' = [project EXCEPT ![run.p] = MovedTo(@, "P4")]
           \/ project' = [project EXCEPT ![run.p] = MovedTo(@, "P5")]
           \/ project' = [project EXCEPT ![run.p].status = "killed"]
        /\ \E at \in {"build", "publish", "mark", "block"} :
              /\ run' = [run EXCEPT !.at = at]
              /\ at \in {"build", "publish"} => run.at # "stop"
              /\ at = "mark" => run.at = "stop"
    BY <1>3 DEF AdvanceToP4, AdvanceToP5, StopProject, Running, Step
  <2>2. project' \in [Projects -> ProjectStates]
    <3>1. project[run.p] \in ProjectStates
      BY <1>0 DEF IvyTyped
    <3>2. /\ MovedTo(project[run.p], "P4") \in ProjectStates
          /\ MovedTo(project[run.p], "P5") \in ProjectStates
      BY <3>1, MovedIsTyped
    <3>3. [project[run.p] EXCEPT !.status = "killed"] \in ProjectStates
      BY <3>1 DEF ProjectStates
    <3> QED BY <1>0, <2>1, <3>2, <3>3 DEF IvyTyped
  <2>3. IvyTyped'
    BY <1>0, <1>1, <2>1, <2>2 DEF IvyTyped, Steps
  <2>4. run.at \in {"p4", "p5"} => Work \in Rewriting
    BY <1>0, <2>1 DEF WorksOnHandoff, RewritingSteps
  <2>5. run.at = "stop" => Work \notin Rewriting
    BY <1>0, <2>1 DEF WorksOnHandoff
  <2> QED BY <1>1, <2>1, <2>3, <2>4, <2>5, RunWithHandoffKeeps DEF Steps, RewritingSteps
<1>4. CASE BuildDraft \/ ReplaceArtifact
  <2>1. /\ run.at \in {"build", "rebuild", "replace"} /\ UNCHANGED <<project, handoff>>
        /\ draft' = draft \/ draft' = [draft EXCEPT ![run.p] = "unread"]
        /\ note' = note \/ note' = [note EXCEPT ![run.p] = IF @ = "none" THEN @ ELSE "stale"]
        /\ \E at \in {"review", "rereview", "publish", "block"} : run' = [run EXCEPT !.at = at]
    BY <1>4 DEF BuildDraft, ReplaceArtifact, Overwrite, Running, Step
  <2>2. IvyTyped'
    BY <1>0, <1>1, <2>1 DEF IvyTyped, Steps
  <2>3. Work \in Rewriting
    BY <1>0, <2>1 DEF WorksOnHandoff, RewritingSteps
  <2>4. \A p \in Projects : note'[p] = "stale" => note[p] = "stale" \/ p = run.p
    BY <1>0, <2>1 DEF IvyTyped
  <2> QED BY <1>1, <2>1, <2>2, <2>3, <2>4, RunWithHandoffKeeps DEF Steps
<1>5. CASE ReviewDraft
  <2>1. /\ run.at \in {"review", "rereview"} /\ UNCHANGED <<project, note, handoff>>
    BY <1>5 DEF ReviewDraft
  <2>2. Work \in Rewriting
    BY <1>0, <2>1 DEF WorksOnHandoff, RewritingSteps
  <2>3. ASSUME NEW verdict \in {"accepted", "returned", "refused"},
               NEW at \in {"p5", "rebuild", "block"}, run' = [run EXCEPT !.at = at],
               draft' = [draft EXCEPT ![run.p] = verdict], at = "p5" => verdict = "accepted"
        PROVE  IvyInv'
    <3>1. IvyTyped' /\ draft'[run.p] = verdict
      BY <1>0, <1>1, <2>1, <2>3 DEF IvyTyped, Steps
    <3> QED BY <1>1, <2>1, <2>2, <2>3, <3>1, RunWithHandoffKeeps DEF Steps
  <2>4. CASE draft' = draft /\ run' = [run EXCEPT !.at = "block"]
    <3>1. IvyTyped'
      BY <1>0, <1>1, <2>1, <2>4 DEF IvyTyped, Steps
    <3> QED BY <1>1, <2>1, <2>2, <2>4, <3>1, RunWithHandoffKeeps DEF Steps, RewritingSteps
  <2>5. CASE draft' = draft /\ run' = NoRun
    <3>1. IvyTyped'
      BY <1>0, <2>1, <2>5, NoRunIsTyped DEF IvyTyped
    <3> QED BY <2>1, <2>5, <3>1, NoRunIsTyped, RunWithoutHandoffKeeps
  <2>6. CASE hostUp
    <3>1. PICK verdict \in {"accepted", "returned", "refused"} :
              /\ draft' = [draft EXCEPT ![run.p] = verdict]
              /\ Step(CASE verdict = "accepted" -> "p5"
                        [] verdict = "returned" /\ Running("review") -> "rebuild"
                        [] OTHER -> "block")
      BY <1>5, <2>6 DEF ReviewDraft
    <3>2. CASE verdict = "accepted"
      BY <2>3, <3>1, <3>2 DEF Step
    <3>3. CASE verdict = "returned" /\ Running("review")
      BY <2>3, <3>1, <3>3 DEF Step
    <3>4. CASE verdict # "accepted" /\ ~(verdict = "returned" /\ Running("review"))
      BY <2>3, <3>1, <3>4 DEF Step
    <3> QED BY <3>2, <3>3, <3>4
  <2> QED BY <1>5, <2>4, <2>5, <2>6 DEF ReviewDraft, Step
<1>6. CASE PublishHumanGate \/ PrepareBundle
  <2>1. /\ run.at \in {"publish", "bundle"} /\ UNCHANGED <<project, draft, handoff>>
        /\ \E at \in {"mark", "block"} :
              /\ run' = [run EXCEPT !.at = at]
              /\ \/ note' = note /\ (at = "mark" => run.at = "bundle")
                 \/ note' = [note EXCEPT ![run.p] = "current"]
    BY <1>6 DEF PublishHumanGate, PrepareBundle, Running, Step
  <2>2. IvyTyped'
    BY <1>0, <1>1, <2>1 DEF IvyTyped, Steps
  <2>3. run.at = "bundle" => Work \notin Rewriting
    BY <1>0, <2>1 DEF WorksOnHandoff
  <2>4. \A p \in Projects : note'[p] = "stale" => note[p] = "stale"
    BY <1>0, <2>1 DEF IvyTyped
  <2>5. run'.at = "mark" /\ Work \in Rewriting => note'[run.p] # "stale"
    BY <1>0, <1>1, <2>1, <2>3 DEF IvyTyped, Steps
  <2> QED BY <1>1, <2>1, <2>2, <2>4, <2>5, RunWithHandoffKeeps DEF Steps, RewritingSteps
<1> QED BY <1>2, <1>3, <1>4, <1>5, <1>6

\* A handoff that is processed leaves no stale note that it alone accounts for.
LEMMA MarkKeeps == ASSUME IvyInv, MarkHandoff PROVE IvyInv'
<1>1. /\ run.at \in {"mark", "block"} /\ UNCHANGED <<project, draft, note>>
      /\ handoff' = [handoff EXCEPT ![run.h].status =
                         IF run.at = "mark" THEN "processed" ELSE "blocked"]
      /\ run' = IF run.at = "mark" THEN [run EXCEPT !.at = "refresh"] ELSE NoRun
  BY DEF MarkHandoff, Running
<1>2. run.h \in HandoffNos /\ handoff[run.h].status = "pending" /\ handoff[run.h].p = run.p
  BY <1>1 DEF IvyInv, WorksOnHandoff
<1>3. run' \in [at : Steps, h : HandoffNos \cup {0}, p : Projects] /\ run'.at \in {"refresh", "idle"}
  BY <1>1, NoRunIsTyped DEF IvyInv, IvyTyped, Steps
<1>4. /\ \A h \in HandoffNos : /\ handoff'[h].p = handoff[h].p
                               /\ handoff'[h].action = handoff[h].action
      /\ \A h \in HandoffNos \ {run.h} : handoff'[h] = handoff[h]
      /\ handoff'[run.h].status = IF run.at = "mark" THEN "processed" ELSE "blocked"
  BY <1>1, <1>2 DEF IvyInv, IvyTyped
<1>5. IvyTyped'
  BY <1>1, <1>2, <1>3 DEF IvyInv, IvyTyped
<1>6. StaleByRewriting'
  <2> SUFFICES ASSUME NEW p \in Projects, note[p] = "stale"
               PROVE  \E h \in HandoffNos : /\ handoff'[h].p = p /\ handoff'[h].action \in Rewriting
                                            /\ handoff'[h].status \in {"pending", "blocked"}
    BY <1>1 DEF StaleByRewriting
  <2>1. PICK h \in HandoffNos : /\ handoff[h].p = p /\ handoff[h].action \in Rewriting
                                /\ handoff[h].status \in {"pending", "blocked"}
    BY DEF IvyInv, StaleByRewriting
  <2>2. run.at = "mark" => h # run.h
    BY <1>2, <2>1 DEF IvyInv, WorksOnHandoff, Work
  <2> QED BY <1>1, <1>4, <2>1, <2>2
<1> QED BY <1>3, <1>5, <1>6 DEF IvyInv, WorksOnHandoff, AcceptedAtP5

\* The person's decision fills a handoff that was not there.
LEMMA DecideKeeps ==
    ASSUME IvyInv, NEW h \in HandoffNos, NEW p \in Projects, NEW a \in Actions, Decide(h, p, a)
    PROVE  IvyInv'
<1>1. /\ handoff[h].status = "none" /\ UNCHANGED <<project, draft, note, run>>
      /\ handoff' = [handoff EXCEPT ![h] = [p |-> p, action |-> a, status |-> "pending"]]
  BY DEF Decide
<1>2. \A i \in HandoffNos \ {h} : handoff'[i] = handoff[i]
  BY <1>1 DEF IvyInv, IvyTyped
<1>3. IvyTyped'
  BY <1>1 DEF IvyInv, IvyTyped
<1>4. WorksOnHandoff'
  BY <1>1, <1>2 DEF IvyInv, WorksOnHandoff, Work
<1>5. StaleByRewriting'
  BY <1>1, <1>2 DEF IvyInv, StaleByRewriting
<1> QED BY <1>1, <1>3, <1>4, <1>5 DEF IvyInv, AcceptedAtP5

\* Every step keeps the invariant.
LEMMA IvyStep == IvyInv /\ [IvyNext]_ivyVars => IvyInv'
<1> SUFFICES ASSUME IvyInv, [IvyNext]_ivyVars PROVE IvyInv'
  OBVIOUS
<1>1. CASE HostChanges \/ UNCHANGED ivyVars
  <2>1. UNCHANGED <<project, draft, note, handoff, run>>
    BY <1>1 DEF HostChanges, ivyVars
  <2> QED BY <2>1 DEF IvyInv, IvyTyped, WorksOnHandoff, AcceptedAtP5, StaleByRewriting, Work
<1> QED BY <1>1, QuietRunKeeps, WorkingRunKeeps, MarkKeeps, DecideKeeps DEF IvyNext, RunStep

\* A project for the publication channel moves to the final review only with a
\* draft that Jonah accepted (_agent_gate_required, _run_native_editorial_loop).
THEOREM FinalReviewsHaveAcceptedDrafts == IvySpec => PublishedDraftsAreReviewed
<1> DEFINE Reviewed == \A p \in Projects :
        project[p].channel = "substack_medium" /\ project[p].gate # "P5"
        /\ project'[p].gate = "P5" => draft[p] = "accepted"
<1>1. ASSUME IvyInv, [IvyNext]_ivyVars PROVE Reviewed
  <2> SUFFICES ASSUME NEW p \in Projects, project[p].channel = "substack_medium",
                      project[p].gate # "P5", project'[p].gate = "P5"
               PROVE  draft[p] = "accepted"
    OBVIOUS
  <2>0. IvyTyped /\ run.p \in Projects
    BY <1>1 DEF IvyInv, IvyTyped
  <2>1. CASE AdvanceToP5
    BY <1>1, <2>0, <2>1 DEF AdvanceToP5, Running, IvyInv, AcceptedAtP5, IvyTyped
  <2>2. CASE AdvanceToP4
    <3>1. project' = project \/ project' = [project EXCEPT ![run.p] = MovedTo(project[run.p], "P4")]
      BY <2>2 DEF AdvanceToP4
    <3>2. MovedTo(project[run.p], "P4").gate = "P4"
      BY <2>0, MovedIsTyped DEF IvyTyped
    <3> QED BY <2>0, <3>1, <3>2 DEF IvyTyped
  <2>3. CASE AdvanceLifecycle
    <3>1. PICK q \in Projects : /\ ~AgentGateRequired(q) /\ project[q].gate # "P5"
                                /\ project' = [project EXCEPT ![q] =
                                       MovedTo(project[q], NextGate[project[q].gate])]
      BY <2>3 DEF AdvanceLifecycle, Selected, Selectable
    <3>2. p = q
      BY <2>0, <3>1 DEF IvyTyped
    <3>3. MovedTo(project[p], NextGate[project[p].gate]).gate = NextGate[project[p].gate]
      BY <2>0 DEF MovedTo, IvyTyped, ProjectStates
    <3>4. NextGate[project[p].gate] = "P5"
      BY <2>0, <3>1, <3>2, <3>3 DEF IvyTyped
    <3>5. project[p].gate = "P4"
      BY <2>0, <3>4 DEF NextGate, IvyTyped, ProjectStates
    <3> QED BY <3>1, <3>2, <3>5 DEF AgentGateRequired
  <2>4. CASE ApplyDecision \/ StopProject
    BY <2>0, <2>4 DEF ApplyDecision, StopProject, IvyTyped, ProjectStates
  <2>5. CASE project' = project
    BY <2>5
  <2> QED BY <1>1, <2>1, <2>2, <2>3, <2>4, <2>5
          DEF IvyNext, RunStep, Audit, PickHandoff, BuildDraft, ReviewDraft, ReplaceArtifact,
              PublishHumanGate, PrepareBundle, MarkHandoff, RepublishHumanGate,
              RefreshBlackboard, HostChanges, RunDies, Decide, ivyVars
<1> QED BY IvyStart, IvyStep, <1>1, PTL DEF IvySpec, PublishedDraftsAreReviewed

\* A note that was rewritten has a handoff of its project that is still to be
\* taken up, or says that it is blocked (_mark_handoff).
THEOREM StaleNotesAreAccountedFor == IvySpec => []StaleNoteIsAccountedFor
<1>1. IvyInv => StaleNoteIsAccountedFor
  BY DEF IvyInv, StaleByRewriting, StaleNoteIsAccountedFor
<1> QED BY IvyStart, IvyStep, <1>1, PTL DEF IvySpec
=============================================================================
