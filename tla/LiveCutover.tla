----------------------------- MODULE LiveCutover -----------------------------
(***************************************************************************)
(* The cutover script (scripts/openclaw_live_cutover.py) and its surfaces: *)
(* one review note per lane in the vault (local_adapters/live.py), one     *)
(* pointer per note on the Blackboard (blackboard.py), and a Telegram      *)
(* message that quotes what was read back (telegram.py).                   *)
(*                                                                         *)
(* Launches may die between two effects and are launched again; between    *)
(* publication and readback a person may edit or remove a note.  Notes and *)
(* send receipts outlive a launch, everything else it clears when it       *)
(* starts.                                                                 *)
(***************************************************************************)
EXTENDS Naturals, FiniteSets

CONSTANTS
    Lanes,
    MaxEdits,          \* bound: edits a person makes
    MaxCutovers        \* bound: launches

ASSUME LanesExist == Lanes # {} /\ IsFiniteSet(Lanes)

VARIABLES
    allowed,        \* what the command line allows: vault, telegram, board
    vault,          \* the note of each lane
    board,          \* lanes whose pointer the Blackboard shows
    sent, resent,   \* texts sent at least once, and more than once
    sendReceipts,   \* texts with a send receipt on disk
    cut,            \* the running launch
    verdict,        \* the cutover receipt
    cutovers, cutDeaths, edits

cutVars == <<allowed, vault, board, sent, resent, sendReceipts, cut, verdict,
             cutovers, cutDeaths, edits>>

\* A note is absent, somebody else's, or ours as edited so many times.
Absent     == [kind |-> "absent", text |-> 0]
Foreign    == [kind |-> "foreign", text |-> 0]
Ours(n)    == [kind |-> "ours", text |-> n]

\* What a launch knows of a lane: publication, hash, readback, hash, pointer.
Unseen == [published |-> "none", hash |-> 0, readback |-> "none", found |-> 0,
           pointer |-> "none"]

NoCut == [at |-> "idle", todo |-> {}, seen |-> [l \in Lanes |-> Unseen],
          decided |-> FALSE, send |-> "not_sent"]
NoVerdict == [status |-> "none", seen |-> [l \in Lanes |-> Unseen],
              decided |-> FALSE, send |-> "not_sent"]

CutInit ==
    /\ allowed \in [vault : BOOLEAN, telegram : BOOLEAN, board : BOOLEAN]
    /\ vault \in [Lanes -> {Absent, Foreign}]
    /\ board = {}
    /\ sent = {} /\ resent = {} /\ sendReceipts = {}
    /\ cut = NoCut /\ verdict = NoVerdict
    /\ cutovers = 0 /\ cutDeaths = 0 /\ edits = 0

BoardEnabled == allowed.vault /\ allowed.board

\* Mutant of NoteTrusted: the hashes are not compared.
NoteTrustedByStatus(s) == s.published = "succeeded" /\ s.readback = "succeeded"

(***************************************************************************)
(* Trust, and what follows from it.                                        *)
(***************************************************************************)
NoteTrusted(s) ==
    s.published = "succeeded" /\ s.readback = "succeeded" /\ s.hash = s.found

PointerTrusted(s) == BoardEnabled => s.pointer = "succeeded"

Blockers(seen) == {l \in Lanes : ~NoteTrusted(seen[l]) \/ ~PointerTrusted(seen[l])}

OverallStatus(c) ==
    IF /\ \A l \in Lanes : c.seen[l].published = "succeeded"
       /\ \A l \in Lanes : c.seen[l].readback = "succeeded"
       /\ c.decided
       /\ BoardEnabled => \A l \in Lanes : c.seen[l].pointer = "succeeded"
       /\ c.send # "blocked"
    THEN "ready" ELSE "blocked"

-----------------------------------------------------------------------------
InPhase(pc) == cut.at = pc

\* The output directory is cleared of what an earlier launch generated, the
\* packet is copied and its gates get their local review decisions.
StartCutover ==
    /\ InPhase("idle") /\ cutovers < MaxCutovers
    /\ cutovers' = cutovers + 1
    /\ verdict' = NoVerdict
    /\ \E d \in BOOLEAN : cut' = [NoCut EXCEPT !.at = "publish", !.todo = Lanes, !.decided = d]
    /\ UNCHANGED <<allowed, vault, board, sent, resent, sendReceipts, cutDeaths, edits>>

\* A live note is written where there is none, and taken over as it stands when
\* it is ours; the sandbox note is always a new one.
PublishNote(l) ==
    /\ InPhase("publish") /\ l \in cut.todo
    /\ LET blocked == allowed.vault /\ vault[l].kind = "foreign"
           note == IF allowed.vault /\ vault[l].kind = "ours" THEN vault[l] ELSE Ours(0)
       IN /\ vault' = IF allowed.vault /\ ~blocked THEN [vault EXCEPT ![l] = note] ELSE vault
          /\ cut' = [cut EXCEPT
                 !.at = IF blocked THEN "noted" ELSE "readback",
                 !.seen[l].published = IF blocked THEN "blocked" ELSE "succeeded",
                 !.seen[l].hash = note.text,
                 !.todo = @ \ {l}]
    /\ UNCHANGED <<allowed, board, sent, resent, sendReceipts, verdict, cutovers, cutDeaths, edits>>

NoteThere(l) == ~allowed.vault \/ vault[l].kind # "absent"

\* The readback succeeds when the note exists, whatever its text.
ReadbackNote(l) ==
    /\ InPhase("readback") /\ cut.seen[l].published = "succeeded" /\ cut.seen[l].readback = "none"
    /\ cut' = [cut EXCEPT
           !.at = "noted",
           !.seen[l].readback = IF NoteThere(l) THEN "succeeded" ELSE "blocked",
           !.seen[l].found = IF allowed.vault THEN vault[l].text ELSE 0]
    /\ UNCHANGED <<allowed, vault, board, sent, resent, sendReceipts, verdict, cutovers, cutDeaths, edits>>

NextNote ==
    /\ InPhase("noted")
    /\ cut' = IF cut.todo # {} THEN [cut EXCEPT !.at = "publish"]
              ELSE IF BoardEnabled THEN [cut EXCEPT !.at = "board", !.todo = Lanes]
              ELSE [cut EXCEPT !.at = "telegram"]
    /\ UNCHANGED <<allowed, vault, board, sent, resent, sendReceipts, verdict, cutovers, cutDeaths, edits>>

\* The record is written and the host's script refreshes the Blackboard, which
\* may fail or leave the pointer out; a missing note is refused at once, one that
\* could not be published over somebody else's is not.
PointerResults(l) ==
    IF vault[l].kind = "absent" THEN {[shown |-> board, status |-> "blocked"]}
    ELSE {[shown |-> shown, status |-> IF refreshed /\ l \in shown THEN "succeeded" ELSE "blocked"] :
             refreshed \in BOOLEAN, shown \in {board, board \cup {l}}}

PublishPointer(l) ==
    /\ InPhase("board") /\ l \in cut.todo
    /\ \E result \in PointerResults(l) :
        /\ board' = result.shown
        /\ cut' = [cut EXCEPT
               !.todo = @ \ {l},
               !.at = IF cut.todo = {l} THEN "telegram" ELSE "board",
               !.seen[l].pointer = result.status]
    /\ UNCHANGED <<allowed, vault, sent, resent, sendReceipts, verdict, cutovers, cutDeaths, edits>>

\* The text quotes every lane's status, readback hash and pointer.
Text == cut.seen

\* Whether it is to be sent: the command line has to allow it, and nothing that
\* it quotes may be untrusted.
SendPlan == IF ~allowed.telegram THEN "not_sent"
            ELSE IF Blockers(cut.seen) # {} THEN "blocked" ELSE "send"

\* A text with a receipt is not sent again; a send may fail.
SendPointer ==
    /\ InPhase("telegram")
    /\ IF SendPlan # "send"
       THEN cut' = [cut EXCEPT !.at = "finish", !.send = SendPlan] /\ UNCHANGED <<sent, resent>>
       ELSE IF Text \in sendReceipts
       THEN cut' = [cut EXCEPT !.at = "finish", !.send = "sent"] /\ UNCHANGED <<sent, resent>>
       ELSE \/ /\ cut' = [cut EXCEPT !.at = "filed", !.send = "sent"]
               /\ sent' = sent \cup {Text}
               /\ resent' = IF Text \in sent THEN resent \cup {Text} ELSE resent
            \/ /\ cut' = [cut EXCEPT !.at = "finish", !.send = "blocked"]
               /\ UNCHANGED <<sent, resent>>
    /\ UNCHANGED <<allowed, vault, board, sendReceipts, verdict, cutovers, cutDeaths, edits>>

\* Mutant of FileSendReceipt: nothing is kept of the send.
FileNoReceipt ==
    /\ InPhase("filed")
    /\ cut' = [cut EXCEPT !.at = "finish"]
    /\ UNCHANGED <<allowed, vault, board, sent, resent, sendReceipts, verdict, cutovers, cutDeaths, edits>>

FileSendReceipt ==
    /\ InPhase("filed")
    /\ sendReceipts' = sendReceipts \cup {Text}
    /\ cut' = [cut EXCEPT !.at = "finish"]
    /\ UNCHANGED <<allowed, vault, board, sent, resent, verdict, cutovers, cutDeaths, edits>>

WriteVerdict ==
    /\ InPhase("finish")
    /\ verdict' = [status |-> OverallStatus(cut), seen |-> cut.seen,
                   decided |-> cut.decided, send |-> cut.send]
    /\ cut' = NoCut
    /\ UNCHANGED <<allowed, vault, board, sent, resent, sendReceipts, cutovers, cutDeaths, edits>>

CutoverDies ==
    /\ ~InPhase("idle")
    /\ cut' = NoCut /\ cutDeaths' = cutDeaths + 1
    /\ UNCHANGED <<allowed, vault, board, sent, resent, sendReceipts, verdict, cutovers, edits>>

\* The person edits one of our notes, or removes it.
TouchNote(l) ==
    /\ edits < MaxEdits /\ vault[l].kind = "ours"
    /\ vault' \in {[vault EXCEPT ![l].text = @ + 1], [vault EXCEPT ![l] = Absent]}
    /\ edits' = edits + 1
    /\ UNCHANGED <<allowed, board, sent, resent, sendReceipts, cut, verdict, cutovers, cutDeaths>>

CutNext ==
    \/ StartCutover \/ NextNote \/ SendPointer \/ FileSendReceipt \/ WriteVerdict \/ CutoverDies
    \/ \E l \in Lanes : PublishNote(l) \/ ReadbackNote(l) \/ PublishPointer(l) \/ TouchNote(l)

CutSpec == CutInit /\ [][CutNext]_cutVars

-----------------------------------------------------------------------------
\* A message leaves the house only when the command line allows it and it quotes,
\* for every lane, a note that was read back as published and, with a Blackboard,
\* a pointer that was found there (_obsidian_trust_blockers, _blackboard_trust_blockers).
MessagesAreTrusted ==
    \A t \in sent : /\ allowed.telegram
                    /\ \A l \in Lanes : /\ t[l].readback = "succeeded" /\ t[l].found = t[l].hash
                                        /\ BoardEnabled => t[l].pointer = "succeeded" /\ l \in board

\* The same text is sent twice only when a launch died between the send and its
\* receipt (_read_idempotency_receipt, _write_idempotency_receipt).
ResentOnlyAfterDeath == resent # {} => cutDeaths > 0

\* What the message text says of untrusted notes: they are blocked.  Not so.
ReadyIsTrusted == verdict.status = "ready" => Blockers(verdict.seen) = {}
=============================================================================
