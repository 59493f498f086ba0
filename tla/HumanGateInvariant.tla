-------------------------- MODULE HumanGateInvariant --------------------------
(***************************************************************************)
(* The inductive invariant behind the theorems of HumanGateProofs, beside  *)
(* KernelInv: what the notes show, what the jobs hold between two calls,   *)
(* and what a decision on record was read from.                            *)
(***************************************************************************)
EXTENDS HumanGate, WorkflowKernelInvariant

NotePrint == [run : Runs \cup {<<>>}, epoch : Nat, evidence : SUBSET Runs]
Basis == [hand : Held, verdict : JobVerdicts]

GateTyped ==
    /\ notes \in [NoteIds -> [print : NotePrint, checks : SUBSET Choices]]
    /\ posted \in [Runs -> NoteIds \cup {NoNote}]
    /\ hand \in [Procs -> Held]
    /\ basis \in [Runs -> Basis]

\* A note shows the action of the attempt it was published for, and a posted
\* note is one of its attempt.
NotesShowTheirAttempts ==
    /\ \A n \in NoteIds : Exists(n) => notes[n].print.run = n[1]
    /\ \A r \in Runs : posted[r] # NoNote => posted[r][1] = r /\ Exists(posted[r])

\* Attempt r has waited for a decision, or will not any more.
Opened(r) == run[r].status \notin {"absent", "queued", "claimed", "started"}

\* Choice h was read from a note that shows what it is about.
ReadFromNote(h) == /\ h.note \in NoteIds /\ Exists(h.note)
                   /\ notes[h.note].print = h.print
                   /\ h.choice \in Choices

HasNote == {"receipting", "posting", "reading", "querying", "collecting"}

\* What job c holds fits the attempt it is about.
HandFits(c) ==
    /\ pc[c] \in SurfacePlaces => job[c].run \in Runs
    /\ pc[c] = "placing" => hand[c].print.run = job[c].run
    /\ pc[c] \in HasNote => hand[c].note # NoNote /\ Exists(hand[c].note)
    /\ pc[c] \in {"receipting", "posting"} => hand[c].note[1] = job[c].run
    /\ pc[c] \in {"judging", "recording"} => ReadFromNote(hand[c])
    /\ pc[c] = "recording" => hand[c].print.run = job[c].run /\ Opened(job[c].run)
    /\ pc[c] = "deciding" /\ job[c].verdict = "accepted" => job[c].run \in decided

\* A worker never gets further at a gate than to a verdict short of success.
StopsAtGate(w) ==
    /\ pc[w] \in {"invoking", "reporting"} => StageOf(job[w].run) \notin Gates
    /\ pc[w] = "settling" /\ StageOf(job[w].run) \in Gates =>
         job[w].verdict \in {"waiting", "blocked", "failed"}

\* An attempt is on record as decided exactly if its decision has a basis, it is
\* decided only once it has waited, and a gate succeeds on a decision only.
AnswerFits(r) ==
    /\ r \notin decided => basis[r].hand.choice = NoChoice
    /\ r \in decided => /\ ReadFromNote(basis[r].hand)
                        /\ basis[r].hand.note[1] = r /\ basis[r].hand.print.run = r
                        /\ Opened(r)
    /\ StageOf(r) \in Gates /\ run[r].status = "succeeded" => r \in decided

\* The conjunction the proofs carry through every step beside KernelInv.
GateInv == /\ GateTyped
           /\ NotesShowTheirAttempts
           /\ \A p \in Procs : HandFits(p) /\ StopsAtGate(p)
           /\ \A r \in Runs : AnswerFits(r)
=============================================================================
