------------------------------- MODULE IvyJonah -------------------------------
(***************************************************************************)
(* The owned Ivy/Jonah runner (scripts/openclaw_ivy_jonah_owned_runner.py).*)
(* A run audits, handles the first review handoff that is claimable or     *)
(* else advances one project, and refreshes the Blackboard.  Every run is  *)
(* a workflow instance of its own: what survives a run, or its death, are  *)
(* the host's files: handoffs, projects, drafts and review notes.          *)
(***************************************************************************)
EXTENDS Naturals, FiniteSets

CONSTANTS
    Projects,
    MaxHandoffs,     \* bound: handoffs the person's decisions leave, in file order
    MaxRunDeaths     \* bound: runs that die

ASSUME ProjectsExist == Projects # {}
ASSUME HandoffsBound == MaxHandoffs \in Nat

VARIABLES
    project,     \* gate, status and channel of each project
    draft,       \* what Jonah said of the text that is now in the P4 file
    note,        \* what the published review note of a project shows
    handoff,     \* the handoff files
    hostUp,      \* whether the host's commands and agents answer
    run,         \* the run: its step, and the handoff and project it works on
    runDeaths

ivyVars == <<project, draft, note, handoff, hostUp, run, runDeaths>>

HandoffNos == 1..MaxHandoffs
Actions == {"advance_to_p4", "revise_p3", "revise_p5", "prepare_publish_bundle", "kill", "other"}

NoRun == [at |-> "idle", h |-> 0, p |-> CHOOSE p \in Projects : TRUE]
Unwritten == [p |-> NoRun.p, action |-> "none", status |-> "none"]

IvyInit ==
    /\ project \in [Projects -> [gate : {"P2", "P4"}, status : {"active"},
                                 channel : {"substack_medium", "note"}]]
    /\ draft = [p \in Projects |-> "unread"]
    /\ note = [p \in Projects |-> "none"]
    /\ handoff = [h \in HandoffNos |-> Unwritten]
    /\ hostUp = TRUE
    /\ run = NoRun /\ runDeaths = 0

(***************************************************************************)
(* Selection.                                                              *)
(***************************************************************************)
Claimable == {h \in HandoffNos : handoff[h].status = "pending"}

NextGate == [P1 |-> "P2", P2 |-> "P3", P3 |-> "P4", P4 |-> "P5"]
\* Mutant of AgentGateRequired: the gate is looked for one too early.
AgentGateAtP3(p) ==
    project[p].gate = "P3" /\ project[p].channel = "substack_medium"

AgentGateRequired(p) ==
    project[p].gate = "P4" /\ project[p].channel = "substack_medium"

\* A project that waits for the person comes first, then the furthest one.
Rank(p) == [P1 |-> 1, P2 |-> 2, P3 |-> 3, P4 |-> 4, P5 |-> 5][project[p].gate]
           + (IF project[p].status = "needs_suman" THEN 10 ELSE 0)
Selectable == {p \in Projects : project[p].status \in {"active", "needs_suman"}}
Selected == {p \in Selectable : \A q \in Selectable : Rank(q) <= Rank(p)}

(***************************************************************************)
(* The host's ledger script: gates P3 and P5 wait for the person.          *)
(***************************************************************************)
MovedTo(q, gate) ==
    [q EXCEPT !.gate = gate,
              !.status = IF gate \in {"P3", "P5"} THEN "needs_suman" ELSE "active"]

Running(pc) == run.at = pc
Step(pc) == run' = [run EXCEPT !.at = pc]

-----------------------------------------------------------------------------
(* The run. *)

Audit ==
    /\ Running("idle")
    /\ run' = [NoRun EXCEPT !.at = "handoff"]
    /\ UNCHANGED <<project, draft, note, handoff, hostUp, runDeaths>>

\* The first claimable handoff, which is not marked as taken.
PickHandoff ==
    /\ Running("handoff")
    /\ IF Claimable = {} THEN Step("lifecycle")
       ELSE \E h \in Claimable :
              /\ \A i \in Claimable : h <= i
              /\ run' = [at |-> IF handoff[h].action = "other" THEN "block" ELSE "apply",
                         h |-> h, p |-> handoff[h].p]
    /\ UNCHANGED <<project, draft, note, handoff, hostUp, runDeaths>>

Work == handoff[run.h].action

\* The person's decision is given to the ledger.  A failure raises: the run ends
\* and the handoff stays as it is.
ApplyDecision ==
    /\ Running("apply")
    /\ IF hostUp
       THEN /\ project' = [project EXCEPT ![run.p].status =
                               IF @ = "needs_suman" THEN "active" ELSE @]
            /\ Step(CASE Work = "advance_to_p4" -> "p4"
                      [] Work \in {"revise_p3", "revise_p5"} -> "replace"
                      [] Work = "prepare_publish_bundle" -> "bundle"
                      [] Work = "kill" -> "stop")
       ELSE project' = project /\ run' = NoRun
    /\ UNCHANGED <<draft, note, handoff, hostUp, runDeaths>>

AdvanceToP4 ==
    /\ Running("p4")
    /\ IF project[run.p].gate # "P3" THEN project' = project /\ Step("build")
       ELSE IF hostUp THEN project' = [project EXCEPT ![run.p] = MovedTo(@, "P4")] /\ Step("build")
       ELSE project' = project /\ Step("block")
    /\ UNCHANGED <<draft, note, handoff, hostUp, runDeaths>>

Overwrite(p) == /\ draft' = [draft EXCEPT ![p] = "unread"]
                /\ note' = [note EXCEPT ![p] = IF @ = "none" THEN @ ELSE "stale"]

\* Ivy writes the draft, or returns it revised; she may decline.
BuildDraft ==
    /\ run.at \in {"build", "rebuild"}
    /\ \/ /\ hostUp /\ Overwrite(run.p)
          /\ Step(IF Running("build") THEN "review" ELSE "rereview")
       \/ Step("block") /\ UNCHANGED <<draft, note>>
    /\ UNCHANGED <<project, handoff, hostUp, runDeaths>>

\* Jonah accepts it, returns it, or blocks it; his review goes to the ledger, and
\* that failing raises.  The second review has to accept.
ReviewDraft ==
    /\ run.at \in {"review", "rereview"}
    /\ \/ /\ hostUp
          /\ \E verdict \in {"accepted", "returned", "refused"} :
              /\ draft' = [draft EXCEPT ![run.p] = verdict]
              /\ Step(CASE verdict = "accepted" -> "p5"
                        [] verdict = "returned" /\ Running("review") -> "rebuild"
                        [] OTHER -> "block")
       \/ ~hostUp /\ draft' = draft /\ (Step("block") \/ run' = NoRun)
    /\ UNCHANGED <<project, note, handoff, hostUp, runDeaths>>

AdvanceToP5 ==
    /\ Running("p5")
    /\ IF hostUp THEN project' = [project EXCEPT ![run.p] = MovedTo(@, "P5")] /\ Step("publish")
       ELSE project' = project /\ Step("block")
    /\ UNCHANGED <<draft, note, handoff, hostUp, runDeaths>>

\* Mutant of ReplaceArtifact: the note is not published again.
ReplaceUnpublished ==
    /\ Running("replace")
    /\ \/ /\ hostUp /\ Step("mark")
          /\ IF Work = "revise_p5" THEN Overwrite(run.p)
             ELSE /\ note' = [note EXCEPT ![run.p] = IF @ = "none" THEN @ ELSE "stale"]
                  /\ UNCHANGED draft
       \/ Step("block") /\ UNCHANGED <<draft, note>>
    /\ UNCHANGED <<project, handoff, hostUp, runDeaths>>

\* Ivy's revision of the P3 brief, or of the draft behind a P5 review, which is
\* rendered again.
ReplaceArtifact ==
    /\ Running("replace")
    /\ \/ /\ hostUp /\ Step("publish")
          /\ IF Work = "revise_p5" THEN Overwrite(run.p)
             ELSE /\ note' = [note EXCEPT ![run.p] = IF @ = "none" THEN @ ELSE "stale"]
                  /\ UNCHANGED draft
       \/ Step("block") /\ UNCHANGED <<draft, note>>
       \/ Work = "revise_p5" /\ ~hostUp /\ Overwrite(run.p) /\ Step("block")
    /\ UNCHANGED <<project, handoff, hostUp, runDeaths>>

\* The attention plan and then the review note of the project's gate.
PublishHumanGate ==
    /\ Running("publish")
    /\ IF hostUp THEN note' = [note EXCEPT ![run.p] = "current"] /\ Step("mark")
       ELSE note' = note /\ Step("block")
    /\ UNCHANGED <<project, draft, handoff, hostUp, runDeaths>>

PrepareBundle ==
    /\ Running("bundle")
    /\ Step(IF hostUp THEN "mark" ELSE "block")
    /\ UNCHANGED <<project, draft, note, handoff, hostUp, runDeaths>>

StopProject ==
    /\ Running("stop")
    /\ IF hostUp THEN project' = [project EXCEPT ![run.p].status = "killed"] /\ Step("mark")
       ELSE project' = project /\ Step("block")
    /\ UNCHANGED <<draft, note, handoff, hostUp, runDeaths>>

\* Mutant of MarkHandoff: a blocked handoff is left to be tried again.
MarkProcessed ==
    /\ run.at \in {"mark", "block"}
    /\ handoff' = [handoff EXCEPT ![run.h].status =
                       IF Running("mark") THEN "processed" ELSE @]
    /\ run' = IF Running("mark") THEN [run EXCEPT !.at = "refresh"] ELSE NoRun
    /\ UNCHANGED <<project, draft, note, hostUp, runDeaths>>

MarkHandoff ==
    /\ run.at \in {"mark", "block"}
    /\ handoff' = [handoff EXCEPT ![run.h].status =
                       IF Running("mark") THEN "processed" ELSE "blocked"]
    /\ run' = IF Running("mark") THEN [run EXCEPT !.at = "refresh"] ELSE NoRun
    /\ UNCHANGED <<project, draft, note, hostUp, runDeaths>>

\* One project is published if it waits for the person or is at the last gate,
\* left alone if it waits for Jonah, and advanced otherwise.
AdvanceLifecycle ==
    /\ Running("lifecycle")
    /\ IF Selected = {} THEN run' = NoRun /\ UNCHANGED project
       ELSE \E p \in Selected :
            LET waits == project[p].status = "needs_suman" \/ project[p].gate = "P5"
                moved == MovedTo(project[p], NextGate[project[p].gate])
            IN  IF waits \/ AgentGateRequired(p) \/ ~hostUp
                THEN /\ run' = IF waits THEN [run EXCEPT !.at = "republish", !.p = p] ELSE NoRun
                     /\ UNCHANGED project
                ELSE /\ project' = [project EXCEPT ![p] = moved]
                     /\ run' = IF moved.status = "needs_suman"
                               THEN [run EXCEPT !.at = "republish", !.p = p] ELSE NoRun
    /\ UNCHANGED <<draft, note, handoff, hostUp, runDeaths>>

RepublishHumanGate ==
    /\ Running("republish")
    /\ IF hostUp THEN note' = [note EXCEPT ![run.p] = "current"] /\ Step("refresh")
       ELSE note' = note /\ run' = NoRun
    /\ UNCHANGED <<project, draft, handoff, hostUp, runDeaths>>

RefreshBlackboard ==
    /\ Running("refresh")
    /\ run' = NoRun
    /\ UNCHANGED <<project, draft, note, handoff, hostUp, runDeaths>>

(* Others. *)

\* The person decides on a published note; the host leaves a handoff of it.
Decide(h, p, a) ==
    /\ handoff[h].status = "none" /\ \A i \in HandoffNos : i < h => handoff[i].status # "none"
    /\ note[p] # "none"
    /\ a \in {"advance_to_p4", "revise_p3"} => project[p].gate = "P3"
    /\ a \in {"revise_p5", "prepare_publish_bundle"} => project[p].gate = "P5"
    /\ handoff' = [handoff EXCEPT ![h] = [p |-> p, action |-> a, status |-> "pending"]]
    /\ UNCHANGED <<project, draft, note, hostUp, run, runDeaths>>

HostChanges ==
    /\ hostUp' = ~hostUp
    /\ UNCHANGED <<project, draft, note, handoff, run, runDeaths>>

RunDies ==
    /\ runDeaths < MaxRunDeaths /\ ~Running("idle")
    /\ run' = NoRun /\ runDeaths' = runDeaths + 1
    /\ UNCHANGED <<project, draft, note, handoff, hostUp>>

RunStep ==
    \/ Audit \/ PickHandoff \/ ApplyDecision \/ AdvanceToP4 \/ BuildDraft \/ ReviewDraft
    \/ AdvanceToP5 \/ ReplaceArtifact \/ PublishHumanGate \/ PrepareBundle \/ StopProject
    \/ MarkHandoff \/ AdvanceLifecycle \/ RepublishHumanGate \/ RefreshBlackboard

IvyNext ==
    \/ RunStep \/ HostChanges \/ RunDies
    \/ \E h \in HandoffNos, p \in Projects, a \in Actions : Decide(h, p, a)

\* The scheduler starts a run whenever none runs, and a run runs on.
IvyFairness == WF_ivyVars(RunStep)

IvySpec == IvyInit /\ [][IvyNext]_ivyVars /\ IvyFairness

-----------------------------------------------------------------------------
\* Whatever failed or died before, a project for the publication channel moves to
\* the final review only with a draft on file that Jonah accepted
\* (_agent_gate_required, _run_native_editorial_loop).
PublishedDraftsAreReviewed ==
    [][\A p \in Projects :
        project[p].channel = "substack_medium" /\ project[p].gate # "P5"
        /\ project'[p].gate = "P5" => draft[p] = "accepted"]_ivyVars

\* A review note whose artifact was rewritten under it does not stay so behind a
\* handoff that says it was processed: some handoff of the project is still to be
\* taken up or says it is blocked, or the run that rewrote is still on its way.
StaleNoteIsAccountedFor ==
    \A p \in Projects : note[p] = "stale" =>
        \E h \in HandoffNos : handoff[h].p = p /\ handoff[h].status \in {"pending", "blocked"}

\* Once the host keeps answering, every handoff is taken up and finished or
\* blocked, although each run takes only the first (_pending_handoffs).
HandoffsAreSettled ==
    \A h \in HandoffNos :
        <>[]hostUp /\ <>(handoff[h].status = "pending") =>
            <>(handoff[h].status \in {"processed", "blocked"})
=============================================================================
