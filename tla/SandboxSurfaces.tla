---------------------------- MODULE SandboxSurfaces ----------------------------
(***************************************************************************)
(* The sandbox surfaces (local_adapters/sandbox.py): a review note at one  *)
(* path of a local folder, and one message of a local outbox with the file *)
(* its decision goes to.  Kernels publish and publish again, perhaps for   *)
(* another gate or another action; the person ticks boxes, rewrites or     *)
(* removes the note; a query for decisions says which gate and action are  *)
(* waited for, or leaves one out, and then takes whatever it finds.        *)
(***************************************************************************)
EXTENDS Naturals, FiniteSets

CONSTANTS
    Gates,       \* gate ids
    Prints,      \* action fingerprints
    Msgs         \* idempotency keys that share a file name

Unnamed == "any"      \* left out of a query
Missing == <<>>
Offered == {"approved", "rejected"}
Boxes == Offered \cup {"later"}      \* one box the packet did not offer

VARIABLES
    connector,   \* which of the two a behaviour is about
    sheet,       \* the note
    spool, slip, \* the message, and the file with its decision
    meant,       \* what the person decided last: for which gate and action
    posted,      \* what the last successful publication was to show
    taken        \* the decision that a query accepted last

surfaceVars == <<connector, sheet, spool, slip, meant, posted, taken>>

Nothing   == [on |-> "none", gate |-> Unnamed, print |-> Unnamed]
Undecided == [gate |-> Unnamed, print |-> Unnamed, ticked |-> {}]

SurfacesInit ==
    /\ connector \in {"note", "outbox"}
    /\ sheet = Missing /\ spool = Missing /\ slip = Missing
    /\ meant = Undecided
    /\ posted = Nothing
    /\ taken = [on |-> "none", query |-> Nothing, decision |-> "none", meant |-> Undecided]

Packet == [gate : Gates, print : Prints]
Query  == [gate : Gates \cup {Unnamed}, print : Prints \cup {Unnamed}]

Post(on, p) == posted' = [on |-> on, gate |-> p.gate, print |-> p.print]
Take(on, q, d) == taken' = [on |-> on, query |-> q, decision |-> d, meant |-> meant]

-----------------------------------------------------------------------------
(* The note. *)

Shows(p) == sheet.gate = p.gate /\ sheet.print = p.print

\* A note that is there is kept, with what the person did to it, when it is for
\* the same gate and action; otherwise the publication is refused.
PostSheet(p) ==
    /\ connector = "note"
    /\ sheet' = IF sheet = Missing
                THEN [gate |-> p.gate, print |-> p.print, ticked |-> {}] ELSE sheet
    /\ IF sheet = Missing \/ Shows(p) THEN Post("note", p) ELSE posted' = posted
    /\ UNCHANGED <<connector, spool, slip, meant, taken>>

\* The person ticks boxes, loses the fingerprint, or removes the note.
EditSheet(ticked) ==
    /\ sheet # Missing
    /\ \/ /\ sheet' = [sheet EXCEPT !.ticked = ticked]
          /\ meant' = sheet'
       \/ sheet' = [sheet EXCEPT !.print = "lost"] /\ meant' = meant
       \/ sheet' = Missing /\ meant' = Undecided
    /\ posted' = Nothing
    /\ UNCHANGED <<connector, spool, slip, taken>>

\* Mutant of SheetDecides: the note's gate is not compared.
SheetDecidesForAny(q) ==
    /\ sheet # Missing
    /\ sheet.print # "lost" /\ q.print \in {Unnamed, sheet.print}
    /\ sheet.ticked \subseteq Offered /\ Cardinality(sheet.ticked) = 1

\* What the query leaves out is filled in from the note itself.
SheetDecides(q) ==
    /\ sheet # Missing
    /\ sheet.print # "lost" /\ q.print \in {Unnamed, sheet.print}
    /\ q.gate \in {Unnamed, sheet.gate}
    /\ sheet.ticked \subseteq Offered /\ Cardinality(sheet.ticked) = 1

TakeFromSheet(q) ==
    /\ SheetDecides(q)
    /\ \E d \in sheet.ticked : Take("note", q, d)
    /\ UNCHANGED <<connector, sheet, spool, slip, meant, posted>>

-----------------------------------------------------------------------------
(* The outbox. *)

\* A message that is there is kept under its own idempotency key, whatever the
\* new packet says, and the publication refused under another one.
SpoolMessage(key, p) ==
    /\ connector = "outbox"
    /\ spool' = IF spool = Missing
                THEN [key |-> key, gate |-> p.gate, print |-> p.print] ELSE spool
    /\ IF spool = Missing \/ spool.key = key THEN Post("outbox", p) ELSE posted' = posted
    /\ UNCHANGED <<connector, sheet, slip, meant, taken>>

\* The decision is written for the gate and action of the message, or for those
\* the caller names; without either it says nothing of them.
InjectDecision(d, p) ==
    /\ connector = "outbox"
    /\ p \in Packet \cup (IF spool = Missing THEN {Nothing}
                          ELSE {[gate |-> spool.gate, print |-> spool.print]})
    /\ slip' = [gate |-> p.gate, print |-> p.print, decision |-> d]
    /\ meant' = [gate |-> p.gate, print |-> p.print, ticked |-> {d}]
    /\ UNCHANGED <<connector, sheet, spool, posted, taken>>

SlipDecides(q) ==
    /\ slip # Missing
    /\ slip.decision \in Offered
    /\ slip.print # Unnamed /\ q.print \in {Unnamed, slip.print}
    /\ slip.gate = Unnamed \/ q.gate \in {Unnamed, slip.gate}

TakeFromSlip(q) ==
    /\ SlipDecides(q)
    /\ Take("outbox", q, slip.decision)
    /\ UNCHANGED <<connector, sheet, spool, slip, meant, posted>>

SurfacesNext ==
    \/ \E p \in Packet : PostSheet(p) \/ \E key \in Msgs : SpoolMessage(key, p)
    \/ \E ticked \in SUBSET Boxes : EditSheet(ticked)
    \/ \E d \in Boxes, p \in Packet \cup {Nothing} : InjectDecision(d, p)
    \/ \E q \in Query : TakeFromSheet(q) \/ TakeFromSlip(q)

SurfacesSpec == SurfacesInit /\ [][SurfacesNext]_surfaceVars

-----------------------------------------------------------------------------
\* A decision that is accepted was made on that surface for the gate and the
\* action the query waits for, although notes and files outlive the gates they
\* were published for (_decision_from_markdown, _decision_from_payload).
DecisionWasMeant ==
    taken.on # "none" =>
        /\ taken.meant.ticked = {taken.decision}
        /\ taken.query.print \in {Unnamed, taken.meant.print}
        /\ taken.query.gate = Unnamed \/ taken.meant.gate \in {Unnamed, taken.query.gate}

\* A publication that succeeded shows its gate and action, as the note does.  Not
\* so in the outbox: the old message is replayed for a new packet.
MessageIsShown ==
    posted.on = "outbox" => posted.gate = spool.gate /\ posted.print = spool.print
=============================================================================
