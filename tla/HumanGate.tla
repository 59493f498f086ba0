------------------------------ MODULE HumanGate ------------------------------
(***************************************************************************)
(* Human gates through a review surface: the waiting-gate half of          *)
(* run_kernel_until_idle (runner.py), the publish, readback and ingest     *)
(* operations of WorkflowKernel, and the Markdown notes of the surface     *)
(* adapters (local_adapters/live.py, local_adapters/review.py).            *)
(*                                                                         *)
(* Every clerk is a scheduled job calling the loop with its own flags.     *)
(* Each operation looks the waiting attempt up again and goes on with the  *)
(* note found before; between any two of its calls other jobs, operators   *)
(* and the person at the note may act.  A surface operation records its    *)
(* invocation first, which adds nothing here: an attempt that waits has    *)
(* already started.                                                        *)
(***************************************************************************)
EXTENDS WorkflowKernel

CONSTANTS
    Choices,             \* the decisions a gate allows
    NoChoice,
    FlagsOf,             \* [Clerks -> subsets of {"publish", "ingest"}]
    NotePerPublication,  \* a note has its own path per publication (review.py),
                         \* or one path per gate attempt (live.py)
    MaxNotes             \* bound: notes per gate attempt

ASSUME NoChoiceIsNone == NoChoice \notin Choices
ASSUME FlagsAreKnown == FlagsOf \in [Clerks -> SUBSET {"publish", "ingest"}]
ASSUME NotesBound == MaxNotes \in Nat \ {0}

VARIABLES
    notes,   \* the vault: what each note shows and which boxes are checked
    posted,  \* the note of the latest published event of an attempt
    hand,    \* what a clerk holds: a note, an expected print, a choice
    basis    \* history: what the decision of an attempt was read from

surface == <<notes, posted, hand, basis>>
gvars == <<kvars, surface>>

NoteIds == Runs \X (1..MaxNotes)
NoNote  == <<>>
NoPrint == [run |-> <<>>, epoch |-> 0, evidence |-> {}]
Blank   == [print |-> NoPrint, checks |-> {}]
NoHand  == [note |-> NoNote, print |-> NoPrint, choice |-> NoChoice]

Exists(n) == notes[n].print # NoPrint

Waiting(i) == {r \in Runs : InstanceOf(r) = i /\ run[r].status = "waiting_on_human"}

\* The gate's action fingerprint binds the attempt, the recovery epoch and the
\* artifacts of every other attempt of the instance; its gate id is derived.
Fingerprint(r) ==
    [run |-> r, epoch |-> instance[InstanceOf(r)].epoch,
     evidence |-> {x \in artifacts : InstanceOf(x) = InstanceOf(r) /\ x # r}]

\* Clerk c goes on at `to` about attempt r.
About(c, to, r, h) ==
    /\ Goto(c, to, [NoJob EXCEPT !.run = r])
    /\ hand' = [hand EXCEPT ![c] = h]

\* The operation raises or the loop returns.
GiveUp(c) == Stop(c) /\ hand' = [hand EXCEPT ![c] = NoHand]

-----------------------------------------------------------------------------
(* Finding the gate and publishing its note                                *)

\* find_waiting_human_stage_run and _latest_successful_surface_ref.  A job
\* that can do nothing with what it finds returns.
FindGate(c) ==
    /\ pc[c] = "idle"
    /\ \E r \in Runs :
         LET to == CASE posted[r] = NoNote -> "publishing"
                     [] posted[r] # NoNote /\ "publish" \in FlagsOf[c] -> "reading"
                     [] OTHER -> "querying"
         IN  /\ run[r].status = "waiting_on_human"
             /\ FlagsOf[c] # {}
             /\ posted[r] = NoNote => "publish" \in FlagsOf[c]
             /\ About(c, to, r, [NoHand EXCEPT !.note = posted[r]])
    /\ UNCHANGED <<vars, effects, notes, posted, basis>>

\* publish_waiting_human_gate, to record_adapter_invocation_started: the
\* packet carries the fingerprint of now.
PreparePacket(c) ==
    LET found == Waiting(InstanceOf(job[c].run))
    IN  /\ pc[c] = "publishing"
        /\ \/ \E r \in found :
                About(c, "placing", r, [NoHand EXCEPT !.print = Fingerprint(r)])
           \/ found = {} /\ GiveUp(c)
        /\ UNCHANGED <<vars, effects, notes, posted, basis>>

\* The path adapter.publish derives for a note of r.
PathFor(r, n) ==
    /\ n[1] = r
    /\ IF NotePerPublication
       THEN ~Exists(n) /\ \A k \in 1..(n[2] - 1) : Exists(<<r, k>>)
       ELSE n[2] = 1

\* Mutant of PlaceNote: the card is always written.
RewriteNote(c) ==
    /\ pc[c] = "placing"
    /\ \E n \in NoteIds :
         /\ PathFor(job[c].run, n)
         /\ notes' = [notes EXCEPT ![n] = [print |-> hand[c].print, checks |-> {}]]
         /\ About(c, "receipting", job[c].run, [hand[c] EXCEPT !.note = n])
    /\ UNCHANGED <<vars, effects, posted, basis>>

\* Mutant of PlaceNote: success is claimed for a note that was not written.
PlaceNothing(c) ==
    /\ pc[c] = "placing"
    /\ \E n \in NoteIds :
         /\ PathFor(job[c].run, n)
         /\ About(c, "receipting", job[c].run, [hand[c] EXCEPT !.note = n])
    /\ UNCHANGED <<vars, effects, notes, posted, basis>>

\* adapter.publish: a note already at the path is kept if it shows the same
\* action, and refused otherwise ("idempotency_conflict").
PlaceNote(c) ==
    LET r == job[c].run
        print == hand[c].print
    IN  /\ pc[c] = "placing"
        /\ \E n \in NoteIds :
             /\ PathFor(r, n)
             /\ notes' = IF Exists(n) THEN notes
                         ELSE [notes EXCEPT ![n] = [print |-> print, checks |-> {}]]
             /\ IF notes'[n].print = print
                THEN About(c, "receipting", r, [hand[c] EXCEPT !.note = n])
                ELSE GiveUp(c)
        /\ UNCHANGED <<vars, effects, posted, basis>>

\* The receipt of the publication ...
RecordPublish(c) ==
    /\ pc[c] = "receipting"
    /\ RecordPublishReceipt(job[c].run)
    /\ Goto(c, "posting", job[c])
    /\ UNCHANGED <<effects, surface>>

\* Mutant of PostNote: the event is not appended.
PostNothing(c) ==
    /\ pc[c] = "posting"
    /\ Goto(c, "reading", job[c])
    /\ UNCHANGED <<vars, effects, surface>>

\* ... and the human_gate_surface_published event, in a transaction of its own.
PostNote(c) ==
    /\ pc[c] = "posting"
    /\ posted' = [posted EXCEPT ![job[c].run] = hand[c].note]
    /\ Goto(c, "reading", job[c])
    /\ UNCHANGED <<vars, effects, notes, hand, basis>>

\* A succeeded receipt of any surface operation on r, without artifacts.
RecordSurfaceReceipt(r) == RecordPublishReceipt(r) /\ artifacts' = artifacts

\* readback_human_gate_surface of the note in hand, recorded for whichever
\* attempt waits now.
ReadBack(c) ==
    LET found == Waiting(InstanceOf(job[c].run))
    IN  /\ pc[c] = "reading"
        /\ \/ \E r \in found :
                /\ RecordSurfaceReceipt(r)
                /\ IF "ingest" \in FlagsOf[c]
                   THEN About(c, "querying", r, hand[c])
                   ELSE GiveUp(c)
           \/ found = {} /\ GiveUp(c) /\ UNCHANGED vars
        /\ UNCHANGED <<effects, notes, posted, basis>>

-----------------------------------------------------------------------------
(* Ingesting the decision                                                  *)

\* ingest_human_gate_surface_decision, to record_adapter_invocation_started:
\* the query names the attempt that waits now and its fingerprint of now.
PrepareQuery(c) ==
    LET found == Waiting(InstanceOf(job[c].run))
    IN  /\ pc[c] = "querying"
        /\ \/ \E r \in found :
                About(c, "collecting", r, [hand[c] EXCEPT !.print = Fingerprint(r)])
           \/ found = {} /\ GiveUp(c)
        /\ UNCHANGED <<vars, effects, notes, posted, basis>>

\* Mutant of Readable: the note's fingerprint is not compared.
ReadableByChecks(n, print) == Cardinality(notes[n].checks) = 1

\* _decision_from_markdown: the note shows the expected action and exactly one
\* allowed box is checked.
Readable(n, print) ==
    /\ notes[n].print = print
    /\ Cardinality(notes[n].checks) = 1

\* adapter.ingest_decisions and the receipt of its answer; anything but one
\* readable decision is about to block the attempt.
CollectNote(c) ==
    LET h == hand[c]
        r == job[c].run
    IN  /\ pc[c] = "collecting"
        /\ IF Readable(h.note, h.print)
           THEN /\ \E d \in notes[h.note].checks :
                     About(c, "judging", r, [h EXCEPT !.choice = d])
                /\ RecordSurfaceReceipt(r)
           ELSE /\ Goto(c, "deciding", [NoJob EXCEPT !.run = r, !.verdict = "invalid"])
                /\ hand' = [hand EXCEPT ![c] = NoHand]
                /\ UNCHANGED vars
        /\ UNCHANGED <<effects, notes, posted, basis>>

\* ingest_human_decision: the attempt is looked up once more and the decision
\* validated against its fingerprint of now; a decision without a transition
\* is recorded and blocks.
JudgeDecision(c) ==
    LET found == Waiting(InstanceOf(job[c].run))
    IN  /\ pc[c] = "judging"
        /\ \/ \E r \in found :
                IF hand[c].print = Fingerprint(r)
                THEN \E v \in {"accepted", "unrouted"} :
                       /\ Goto(c, "recording", [NoJob EXCEPT !.run = r, !.verdict = v])
                       /\ UNCHANGED hand
                ELSE /\ Goto(c, "deciding", [NoJob EXCEPT !.run = r, !.verdict = "invalid"])
                     /\ hand' = [hand EXCEPT ![c] = NoHand]
           \/ found = {} /\ GiveUp(c)
        /\ UNCHANGED <<vars, effects, notes, posted, basis>>

\* Mutant of RecordAnswer: the attempt is completed first.
CompleteUnrecorded(c) ==
    /\ pc[c] = "recording"
    /\ Goto(c, "deciding", job[c])
    /\ hand' = [hand EXCEPT ![c] = NoHand]
    /\ UNCHANGED <<vars, effects, notes, posted, basis>>

\* record_human_decision: the approval id of a note is derived from the
\* attempt, so a second decision on it is an IntegrityError.
RecordAnswer(c) ==
    LET r == job[c].run
    IN  /\ pc[c] = "recording"
        /\ IF r \in decided
           THEN GiveUp(c) /\ UNCHANGED <<vars, effects, basis>>
           ELSE /\ RecordDecision(c)
                /\ hand' = [hand EXCEPT ![c] = NoHand]
                /\ basis' = [basis EXCEPT ![r] = [hand |-> hand[c], verdict |-> job[c].verdict]]
        /\ UNCHANGED <<notes, posted>>

-----------------------------------------------------------------------------
(* The person at the note, and the rest of the system                      *)

\* A box of a note is checked or unchecked, by a person or a reviewer.
TickBox(n, d) ==
    /\ Exists(n)
    /\ notes' = [notes EXCEPT ![n].checks = IF d \in @ THEN @ \ {d} ELSE @ \cup {d}]
    /\ UNCHANGED <<kvars, posted, hand, basis>>

CrashInGate(p) == /\ Crash(p)
                  /\ hand' = [hand EXCEPT ![p] = NoHand]
                  /\ UNCHANGED <<notes, posted, basis>>

Publishing(c) == \/ FindGate(c) \/ PreparePacket(c) \/ PlaceNote(c)
                 \/ RecordPublish(c) \/ PostNote(c) \/ ReadBack(c)

Ingesting(c) == \/ PrepareQuery(c) \/ CollectNote(c) \/ JudgeDecision(c)
                \/ RecordAnswer(c)
                \/ CompleteGate(c) /\ UNCHANGED surface

Elsewhere == /\ \/ \E w \in Workers, i \in Instances : StartWorkflow(w, i)
                \/ \E w \in Workers : Work(w)
                \/ \E p \in Procs : Finish(p)
                \/ Operate \/ PassTime
             /\ UNCHANGED surface

GInit == /\ KInit
         /\ notes = [n \in NoteIds |-> Blank]
         /\ posted = [r \in Runs |-> NoNote]
         /\ hand = [c \in Procs |-> NoHand]
         /\ basis = [r \in Runs |-> [hand |-> NoHand, verdict |-> "none"]]

GNext == \/ \E c \in Clerks : Publishing(c) \/ Ingesting(c)
         \/ \E n \in NoteIds, d \in Choices : TickBox(n, d)
         \/ \E p \in Procs : CrashInGate(p)
         \/ Elsewhere

GSpec == GInit /\ [][GNext]_gvars

\* The jobs are scheduled again and again, and a call that began goes on.
GFairness == /\ \A c \in Clerks : WF_gvars(Publishing(c) \/ Ingesting(c))
             /\ \A p \in Procs : WF_gvars(Finish(p) /\ UNCHANGED surface)

FairGSpec == GSpec /\ GFairness

-----------------------------------------------------------------------------
(* Properties                                                              *)

Held == [note : NoteIds \cup {NoNote},
         print : [run : Runs \cup {<<>>}, epoch : Nat, evidence : SUBSET Runs],
         choice : Choices \cup {NoChoice}]

\* Notes, events and what the jobs hold have their types; what a job is about
\* to read or post is a note that exists.
GateTypeOK ==
    /\ \A n \in NoteIds : notes[n].checks \subseteq Choices
    /\ posted \in [Runs -> NoteIds \cup {NoNote}]
    /\ hand \in [Procs -> Held]
    /\ \A c \in Clerks : pc[c] \in {"receipting", "posting", "reading", "querying", "collecting"}
                            => hand[c].note # NoNote /\ Exists(hand[c].note)
    /\ \A r \in Runs : posted[r] # NoNote => posted[r][1] = r /\ Exists(posted[r])

\* "An approval governs one immutable workflow attempt": a recorded decision
\* was read from a note published for exactly that attempt, although jobs carry
\* notes across lookups and operators reissue gates meanwhile.
DecisionFitsAttempt == \A r \in decided :
    /\ basis[r].hand.note[1] = r
    /\ basis[r].hand.print.run = r
    /\ notes[basis[r].hand.note].print = basis[r].hand.print
    /\ basis[r].hand.choice \in Choices

\* A note that exists keeps what it shows, and no program touches its boxes:
\* publishing again after a crash or beside another job loses no mark.
NotesAreKept == [][\A n \in NoteIds : Exists(n) =>
    /\ notes'[n].print = notes[n].print
    /\ notes'[n].checks # notes[n].checks => \E d \in Choices : TickBox(n, d)]_gvars

\* "treats waiting human gates as first-class resumable work": a gate that
\* waits is published and collected, or closed.
GateIsSettled == \A r \in Runs :
    run[r].status = "waiting_on_human" ~> run[r].status # "waiting_on_human"

\* The attempts of gates as ReviewGate sees them.
GateRuns == {r \in Runs : StageOf(r) \in Gates}
GatePhase(status) ==
    CASE status \in {"absent", "queued", "claimed", "started"} -> "unopened"
      [] status = "waiting_on_human" -> "open"
      [] status = "succeeded" -> "passed"
      [] OTHER -> "refused"

Review == INSTANCE ReviewGate
    WITH Gates <- GateRuns,
         gate <- [r \in GateRuns |-> GatePhase(run[r].status)],
         answer <- [r \in GateRuns |-> basis[r].hand.choice]

\* The jobs, the kernel and the ledger implement the gate: passed only on a
\* recorded answer, answers final, answered attempts never opened again.
ImplementsReviewGate == Review!Spec

\* "Reruns reuse an already published waiting-gate surface instead of creating
\* duplicate review notes": an attempt has one note.
OneNotePerAttempt == \A r \in Runs :
    Cardinality({n \in NoteIds : n[1] = r /\ Exists(n)}) <= 1

\* "The human decision is the source of truth unless superseded by a newer
\* human decision": a gate whose accepted decision is on record is not blocked.
RecordedDecisionStands == \A r \in Runs :
    basis[r].verdict = "accepted" => run[r].status # "blocked"

\* "must already have a successful human-gate publish receipt": a gate is
\* restored to waiting only if a note was published for it.
RestoredGateWasPublished == [][\A r \in Runs :
    run[r].status = "blocked" /\ run'[r].status = "waiting_on_human"
        => \E n \in NoteIds : n[1] = r /\ Exists(n)]_gvars

\* "Bind the immutable evidence that existed before this human gate": a decision
\* properly checked on the posted note of the waiting attempt is not refused.
CheckedNoteIsAccepted == [][\A c \in Clerks :
    LET r == job[c].run
        n == hand[c].note
    IN  /\ pc[c] = "collecting" /\ pc'[c] = "deciding"
        /\ n = posted[r] /\ n[1] = r
        => Cardinality(notes[n].checks) # 1]_gvars
=============================================================================
