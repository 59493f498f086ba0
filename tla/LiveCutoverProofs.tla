--------------------------- MODULE LiveCutoverProofs ---------------------------
(***************************************************************************)
(* What the cutover sends, for all lanes, launches and edits.              *)
(***************************************************************************)
EXTENDS LiveCutover, TLAPS

SeenLane == [published : {"none", "succeeded", "blocked"}, hash : Nat,
             readback : {"none", "succeeded", "blocked"}, found : Nat,
             pointer : {"none", "succeeded", "blocked"}]

NoteText == [kind : {"absent", "foreign", "ours"}, text : Nat]

LaunchState ==
    [at : {"idle", "publish", "readback", "noted", "board", "telegram", "filed", "finish"},
     todo : SUBSET Lanes, seen : [Lanes -> SeenLane], decided : BOOLEAN,
     send : {"not_sent", "blocked", "sent"}]

CutTyped ==
    /\ vault \in [Lanes -> NoteText]
    /\ cut \in LaunchState
    /\ cutDeaths \in Nat

\* A pointer that a launch counts as found is still on the Blackboard.
PointersStay == \A l \in Lanes : cut.seen[l].pointer = "succeeded" => l \in board

\* Without a death, a text that was sent has its receipt or is about to get it.
SentIsFiled ==
    cutDeaths = 0 => \A t \in sent : t \in sendReceipts \/ (cut.at = "filed" /\ t = cut.seen)

CutInv == CutTyped /\ PointersStay /\ SentIsFiled /\ MessagesAreTrusted /\ ResentOnlyAfterDeath

\* An idle launch has seen nothing.
LEMMA NoCutIsState == NoCut \in LaunchState /\ [l \in Lanes |-> Unseen] \in [Lanes -> SeenLane]
BY DEF NoCut, LaunchState, Unseen, SeenLane

\* What a step finds out of one lane leaves the launch a launch.
LEMMA SeenMore ==
    ASSUME NEW c \in LaunchState, NEW l \in Lanes, NEW seen \in SeenLane,
           NEW at \in {"idle", "publish", "readback", "noted", "board", "telegram",
                      "filed", "finish"}, NEW todo \in SUBSET Lanes
    PROVE  [c EXCEPT !.at = at, !.todo = todo, !.seen[l] = seen] \in LaunchState
<1>1. [c.seen EXCEPT ![l] = seen] \in [Lanes -> SeenLane]
  BY DEF LaunchState
<1> QED BY <1>1 DEF LaunchState

\* Nothing was sent at first.
LEMMA CutStart == CutInit => CutInv
<1> SUFFICES ASSUME CutInit PROVE CutInv
  OBVIOUS
<1>1. CutTyped
  BY NoCutIsState DEF CutInit, CutTyped, NoteText, Absent, Foreign
<1>2. PointersStay
  BY DEF CutInit, PointersStay, NoCut, Unseen
<1> QED BY <1>1, <1>2 DEF CutInit, CutInv, SentIsFiled, MessagesAreTrusted, ResentOnlyAfterDeath

\* A launch that begins has seen nothing.
LEMMA StartKeeps == ASSUME CutInv, StartCutover PROVE CutInv'
<1>1. CutTyped'
  <2>1. PICK d \in BOOLEAN :
           cut' = [NoCut EXCEPT !.at = "publish", !.todo = Lanes, !.decided = d]
    BY DEF StartCutover
  <2>2. cut' \in LaunchState
    BY <2>1, NoCutIsState DEF LaunchState
  <2> QED BY <2>2 DEF CutInv, CutTyped, StartCutover
<1>2. PointersStay'
  BY DEF CutInv, PointersStay, StartCutover, NoCut, Unseen
<1> QED BY <1>1, <1>2 DEF CutInv, CutTyped, LaunchState, StartCutover, InPhase, SentIsFiled, MessagesAreTrusted,
                          ResentOnlyAfterDeath, BoardEnabled

\* Steps of a launch that send nothing and take nothing off the Blackboard.
Quiet ==
    /\ UNCHANGED <<allowed, sent, resent, sendReceipts, cutDeaths>>
    /\ board \subseteq board'
    /\ cut.at # "filed"

\* A step that sends and files nothing keeps what is said of the messages.
LEMMA QuietKeeps ==
    ASSUME CutInv, Quiet
    PROVE  SentIsFiled' /\ MessagesAreTrusted' /\ ResentOnlyAfterDeath'
<1>1. SentIsFiled'
  BY DEF CutInv, Quiet, SentIsFiled
<1>2. MessagesAreTrusted'
  BY DEF CutInv, Quiet, MessagesAreTrusted, BoardEnabled
<1>3. ResentOnlyAfterDeath'
  BY DEF CutInv, Quiet, ResentOnlyAfterDeath
<1> QED BY <1>1, <1>2, <1>3

\* A note is published before the launch sends anything.
LEMMA PublishNoteKeeps == ASSUME CutInv, NEW l \in Lanes, PublishNote(l) PROVE CutInv'
<1> DEFINE note == IF allowed.vault /\ vault[l].kind = "ours" THEN vault[l] ELSE Ours(0)
<1>1. note \in NoteText
  BY DEF CutInv, CutTyped, LaunchState, NoteText, Ours
<1>2. CutTyped'
  <2>1. vault' \in [Lanes -> NoteText]
    BY <1>1 DEF CutInv, CutTyped, LaunchState, PublishNote
  <2>2. note.text \in Nat
    BY <1>1 DEF NoteText
  <2>3. cut' \in LaunchState
    <3> DEFINE blocked == allowed.vault /\ vault[l].kind = "foreign"
               result  == IF blocked THEN "blocked" ELSE "succeeded"
               seen    == [cut.seen[l] EXCEPT !.published = result, !.hash = note.text]
               at      == IF blocked THEN "noted" ELSE "readback"
    <3>1. cut.seen[l] \in SeenLane /\ cut.todo \ {l} \in SUBSET Lanes
      BY DEF CutInv, CutTyped, LaunchState
    <3>2. seen \in SeenLane
      <4> HIDE DEF note
      <4> QED BY <2>2, <3>1 DEF SeenLane
    <3>3. [cut EXCEPT !.at = at, !.todo = cut.todo \ {l}, !.seen[l] = seen] \in LaunchState
      <4> HIDE DEF seen
      <4> QED BY <3>1, <3>2, SeenMore DEF CutInv, CutTyped
    <3>4. cut' = [cut EXCEPT !.at = at, !.todo = cut.todo \ {l}, !.seen[l] = seen]
      <4>1. cut' = [cut EXCEPT !.at = at, !.seen[l].published = result,
                               !.seen[l].hash = note.text, !.todo = @ \ {l}]
        BY DEF PublishNote
      <4>2. seen = [[cut.seen[l] EXCEPT !.published = result] EXCEPT !.hash = note.text]
        OBVIOUS
      <4> HIDE DEF note, result, at, seen
      <4> QED BY <4>1, <4>2 DEF CutInv, CutTyped, LaunchState
    <3> QED BY <3>3, <3>4
  <2> QED BY <2>1, <2>3 DEF CutInv, CutTyped, PublishNote
<1>3. PointersStay'
  BY DEF CutInv, CutTyped, LaunchState, SeenLane, PointersStay, PublishNote
<1>4. Quiet
  BY DEF Quiet, PublishNote, InPhase
<1> QED BY <1>2, <1>3, <1>4, QuietKeeps DEF CutInv

\* Reading a note back changes what the launch has seen, and nothing else.
LEMMA ReadbackKeeps == ASSUME CutInv, NEW l \in Lanes, ReadbackNote(l) PROVE CutInv'
<1>1. CutTyped'
  <2>1. (IF allowed.vault THEN vault[l].text ELSE 0) \in Nat
    BY DEF CutInv, CutTyped, LaunchState, NoteText
  <2> DEFINE found == IF allowed.vault THEN vault[l].text ELSE 0
             result == IF NoteThere(l) THEN "succeeded" ELSE "blocked"
             seen == [cut.seen[l] EXCEPT !.readback = result, !.found = found]
  <2>2. seen \in SeenLane
    <3> HIDE DEF found
    <3> QED BY <2>1 DEF found, CutInv, CutTyped, LaunchState, SeenLane
  <2>3. cut.todo \in SUBSET Lanes
    BY DEF CutInv, CutTyped, LaunchState
  <2>4. [cut EXCEPT !.at = "noted", !.todo = cut.todo, !.seen[l] = seen] \in LaunchState
    <3> HIDE DEF seen
    <3> QED BY <2>2, <2>3, SeenMore DEF CutInv, CutTyped
  <2>5. cut' = [cut EXCEPT !.at = "noted", !.todo = cut.todo, !.seen[l] = seen]
    BY DEF CutInv, CutTyped, LaunchState, SeenLane, ReadbackNote
  <2> QED BY <2>4, <2>5 DEF CutInv, CutTyped, ReadbackNote
<1>2. PointersStay'
  BY DEF CutInv, CutTyped, LaunchState, SeenLane, PointersStay, ReadbackNote
<1>3. Quiet
  BY DEF Quiet, ReadbackNote, InPhase
<1> QED BY <1>1, <1>2, <1>3, QuietKeeps DEF CutInv

\* The launch goes on to its next note.
LEMMA NextNoteKeeps == ASSUME CutInv, NextNote PROVE CutInv'
<1>1. CutTyped'
  BY DEF CutInv, CutTyped, LaunchState, NextNote
<1>2. PointersStay'
  BY DEF CutInv, CutTyped, LaunchState, PointersStay, NextNote
<1>3. Quiet
  BY DEF Quiet, NextNote, InPhase
<1> QED BY <1>1, <1>2, <1>3, QuietKeeps DEF CutInv

\* A pointer that is published or found is on the Blackboard.
LEMMA PointerKeeps == ASSUME CutInv, NEW l \in Lanes, PublishPointer(l) PROVE CutInv'
<1>1. PICK result \in PointerResults(l) :
        /\ board' = result.shown
        /\ cut' = [cut EXCEPT
               !.todo = @ \ {l},
               !.at = IF cut.todo = {l} THEN "telegram" ELSE "board",
               !.seen[l].pointer = result.status]
  BY DEF PublishPointer
<1>2. /\ board \subseteq result.shown
      /\ result.status \in {"succeeded", "blocked"}
      /\ result.status = "succeeded" => l \in result.shown
  BY DEF PointerResults
<1>3. CutTyped'
  <2> DEFINE seen == [cut.seen[l] EXCEPT !.pointer = result.status]
             at == IF cut.todo = {l} THEN "telegram" ELSE "board"
  <2>1. seen \in SeenLane /\ cut.todo \ {l} \in SUBSET Lanes
    BY <1>2 DEF CutInv, CutTyped, LaunchState, SeenLane
  <2>2. [cut EXCEPT !.at = at, !.todo = cut.todo \ {l}, !.seen[l] = seen] \in LaunchState
    <3> HIDE DEF seen
    <3> QED BY <2>1, SeenMore DEF CutInv, CutTyped
  <2>3. cut' = [cut EXCEPT !.at = at, !.todo = cut.todo \ {l}, !.seen[l] = seen]
    BY <1>1 DEF CutInv, CutTyped, LaunchState, SeenLane
  <2> QED BY <2>2, <2>3 DEF CutInv, CutTyped, PublishPointer
<1>4. PointersStay'
  BY <1>1, <1>2 DEF CutInv, CutTyped, LaunchState, SeenLane, PointersStay
<1>5. Quiet
  BY <1>1, <1>2 DEF Quiet, PublishPointer, InPhase
<1> QED BY <1>3, <1>4, <1>5, QuietKeeps DEF CutInv

\* A message goes out only when nothing it quotes blocks it.
LEMMA SendKeeps == ASSUME CutInv, SendPointer PROVE CutInv'
<1>1. CutTyped'
  BY DEF CutInv, CutTyped, LaunchState, SendPointer, SendPlan
<1>2. PointersStay'
  BY DEF CutInv, CutTyped, LaunchState, PointersStay, SendPointer
<1>3. CASE UNCHANGED <<sent, resent>>
  <2>1. Quiet
    BY <1>3 DEF Quiet, SendPointer, InPhase
  <2> QED BY <1>1, <1>2, <2>1, QuietKeeps DEF CutInv
<1>4. CASE /\ SendPlan = "send" /\ Text \notin sendReceipts
           /\ cut' = [cut EXCEPT !.at = "filed", !.send = "sent"]
           /\ sent' = sent \cup {Text}
           /\ resent' = IF Text \in sent THEN resent \cup {Text} ELSE resent
  <2>0. cut.at = "telegram" /\ UNCHANGED <<allowed, board, sendReceipts, cutDeaths>>
    BY DEF SendPointer, InPhase
  <2>1. cut'.at = "filed" /\ cut'.seen = cut.seen
    BY <1>4 DEF CutInv, CutTyped, LaunchState
  <2>2. allowed.telegram /\ Blockers(cut.seen) = {}
    BY <1>4 DEF SendPlan
  <2>3. MessagesAreTrusted'
    <3>1. \A l \in Lanes : /\ cut.seen[l].readback = "succeeded"
                           /\ cut.seen[l].found = cut.seen[l].hash
                           /\ BoardEnabled => cut.seen[l].pointer = "succeeded" /\ l \in board
      BY <2>2 DEF Blockers, NoteTrusted, PointerTrusted, CutInv, PointersStay
    <3> QED BY <1>4, <2>0, <2>2, <3>1 DEF CutInv, MessagesAreTrusted, Text, BoardEnabled
  <2>4. SentIsFiled'
    BY <1>4, <2>0, <2>1 DEF CutInv, SentIsFiled, Text
  <2>5. ResentOnlyAfterDeath'
    BY <1>4, <2>0 DEF CutInv, CutTyped, LaunchState, SentIsFiled, ResentOnlyAfterDeath, Text
  <2> QED BY <1>1, <1>2, <2>3, <2>4, <2>5 DEF CutInv
<1> QED BY <1>3, <1>4 DEF SendPointer

\* The receipt of what was sent is filed.
LEMMA FileKeeps == ASSUME CutInv, FileSendReceipt PROVE CutInv'
<1>1. CutTyped'
  BY DEF CutInv, CutTyped, LaunchState, FileSendReceipt
<1>2. PointersStay'
  BY DEF CutInv, CutTyped, LaunchState, PointersStay, FileSendReceipt
<1>3. SentIsFiled'
  BY DEF CutInv, SentIsFiled, FileSendReceipt, Text
<1>4. MessagesAreTrusted' /\ ResentOnlyAfterDeath'
  BY DEF CutInv, MessagesAreTrusted, ResentOnlyAfterDeath, FileSendReceipt, BoardEnabled
<1> QED BY <1>1, <1>2, <1>3, <1>4 DEF CutInv

\* The verdict ends the launch.
LEMMA VerdictKeeps == ASSUME CutInv, WriteVerdict PROVE CutInv'
<1>1. CutTyped'
  BY NoCutIsState DEF CutInv, CutTyped, WriteVerdict
<1>2. PointersStay'
  BY DEF CutInv, PointersStay, WriteVerdict, NoCut, Unseen
<1>3. Quiet
  BY DEF Quiet, WriteVerdict, InPhase
<1> QED BY <1>1, <1>2, <1>3, QuietKeeps DEF CutInv

\* A death may lose the receipt of what was sent.
LEMMA DeathKeeps == ASSUME CutInv, CutoverDies PROVE CutInv'
<1>1. CutTyped'
  BY NoCutIsState DEF CutInv, CutTyped, CutoverDies
<1>2. PointersStay'
  BY DEF CutInv, PointersStay, CutoverDies, NoCut, Unseen
<1>3. cutDeaths' > 0
  BY DEF CutInv, CutTyped, LaunchState, CutoverDies
<1>4. MessagesAreTrusted'
  BY DEF CutInv, MessagesAreTrusted, CutoverDies, BoardEnabled
<1> QED BY <1>1, <1>2, <1>3, <1>4 DEF CutInv, CutTyped, LaunchState, SentIsFiled, ResentOnlyAfterDeath

\* An edit of a note leaves what was sent and filed.
LEMMA EditKeeps == ASSUME CutInv, NEW l \in Lanes, TouchNote(l) PROVE CutInv'
<1>1. CutTyped'
  BY DEF CutInv, CutTyped, LaunchState, TouchNote, NoteText, Absent
<1>2. UNCHANGED <<allowed, board, sent, resent, sendReceipts, cut, cutDeaths>>
  BY DEF TouchNote
<1> QED BY <1>1, <1>2 DEF CutInv, PointersStay, SentIsFiled, MessagesAreTrusted,
                          ResentOnlyAfterDeath, BoardEnabled

\* Every step keeps the invariant.
LEMMA CutStep == CutInv /\ [CutNext]_cutVars => CutInv'
<1>1. ASSUME CutInv, UNCHANGED cutVars PROVE CutInv'
  BY <1>1 DEF cutVars, CutInv, CutTyped, LaunchState, PointersStay, SentIsFiled, MessagesAreTrusted,
              ResentOnlyAfterDeath, BoardEnabled
<1> QED BY <1>1, StartKeeps, PublishNoteKeeps, ReadbackKeeps, NextNoteKeeps, PointerKeeps,
           SendKeeps, FileKeeps, VerdictKeeps, DeathKeeps, EditKeeps DEF CutNext

\* A message quotes, for every lane, a note that was read back as published and a
\* pointer that was found (_obsidian_trust_blockers, _blackboard_trust_blockers).
THEOREM SentMessagesAreTrusted == CutSpec => []MessagesAreTrusted
<1>1. CutInv => MessagesAreTrusted
  BY DEF CutInv
<1> QED BY CutStart, CutStep, <1>1, PTL DEF CutSpec

\* Only a death between a send and its receipt repeats a message
\* (_read_idempotency_receipt, _write_idempotency_receipt).
THEOREM OnlyDeathsRepeatMessages == CutSpec => []ResentOnlyAfterDeath
<1>1. CutInv => ResentOnlyAfterDeath
  BY DEF CutInv
<1> QED BY CutStart, CutStep, <1>1, PTL DEF CutSpec
=============================================================================
