---------------------------- MODULE PublishAuthority ---------------------------
(***************************************************************************)
(* Who may cause an effect: the policy layers that a stage is declared     *)
(* with, the policy engine that turns them into allow, ask or deny, and    *)
(* the approval of a human gate that is bound to the contents of a packet  *)
(* and so carries over to the stage that publishes the packet (policy.py,  *)
(* _helpers.py, kernel.py).                                                *)
(*                                                                         *)
(* A workflow prepares a packet, a person decides at a gate, a stage       *)
(* publishes.  The workflow may send the packet back to be prepared again, *)
(* with other contents or the same; a publisher may fail after its effect; *)
(* approvals expire.                                                       *)
(***************************************************************************)
EXTENDS Integers, Sequences

CONSTANTS
    Contents,        \* hashes of the packets that can be prepared
    MaxGates,        \* bound: gate attempts
    LastDay          \* bound on the clock

ASSUME GatesBound == MaxGates \in Nat \ {0} /\ LastDay \in Nat

VARIABLES
    layers,      \* what the definition and the registration declare
    stand,       \* the stage that is queued or waits, or where it blocked
    packet,      \* contents of the latest packet in the ledger
    answers,     \* the decisions on record, oldest first
    effects,     \* what was published: contents, the policy's verdict, the day
    day

authVars == <<layers, stand, packet, answers, effects, day>>

-----------------------------------------------------------------------------
(* The layers.                                                             *)

\* The classes for reading, drafts and reviews all come to the same: local_draft.
Classes == {"local_draft", "public_publish", "forbidden", "misspelt"}

\* A policy mapping: its class, whether it asks for an approval, whether it
\* calls itself a dry run, and whether it forbids to publish.
Mapping == [class : Classes, asks : BOOLEAN, dry : BOOLEAN, closed : BOOLEAN]
Plain == [class |-> "local_draft", asks |-> FALSE, dry |-> FALSE, closed |-> FALSE]

Component == [risks : SUBSET {"draft", "external", "forbidden"}, gates : BOOLEAN,
              forbids : BOOLEAN, unclear : BOOLEAN]
Inert == [risks |-> {}, gates |-> FALSE, forbids |-> FALSE, unclear |-> FALSE]

\* A class nobody knows makes the side effects unknown.
ClassComponents(class) ==
    CASE class = "local_draft" -> [Inert EXCEPT !.risks = {"draft"}]
      [] class = "public_publish" ->
           [Inert EXCEPT !.risks = {"external"}, !.gates = TRUE]
      [] class = "forbidden" -> [Inert EXCEPT !.risks = {"forbidden"}]
      [] OTHER -> [Inert EXCEPT !.unclear = TRUE]

\* To ask for an approval makes a mapping ambiguous, unless it is hard-gated
\* already or calls itself a dry run.
PolicyComponents(m) ==
    LET c == ClassComponents(m.class) IN
    [c EXCEPT !.forbids = m.closed,
              !.unclear = \/ @
                          \/ /\ m.asks /\ ~m.dry
                             /\ ~c.gates /\ c.risks \cap {"external", "forbidden"} = {}]

\* What the adapter's surface contract says of its effects.
ContractComponents(contract) ==
    CASE contract \in {"none", "dry"} -> Inert
      [] contract = "listed" -> [Inert EXCEPT !.risks = {"external"}, !.gates = TRUE]
      [] contract = "live" ->
           [Inert EXCEPT !.risks = {"external"}, !.gates = TRUE, !.unclear = TRUE]

Registered(external) == IF external THEN [Inert EXCEPT !.risks = {"external"}] ELSE Inert

\* Mutant of EffectivePolicy: the stage's mapping takes the workflow's place.
OverridingPolicy(l) ==
    LET parts == {PolicyComponents(IF l.stage = Plain THEN l.workflow ELSE l.stage),
                  Registered(l.external), ContractComponents(l.contract)}
    IN  [risks   |-> UNION {p.risks : p \in parts},
         gates   |-> \E p \in parts : p.gates,
         forbids |-> \E p \in parts : p.forbids,
         unclear |-> \E p \in parts : p.unclear]

\* Layers add up; none takes anything back.
EffectivePolicy(l) ==
    LET parts == {PolicyComponents(l.workflow), PolicyComponents(l.stage),
                  Registered(l.external), ContractComponents(l.contract)}
    IN  [risks   |-> UNION {p.risks : p \in parts},
         gates   |-> \E p \in parts : p.gates,
         forbids |-> \E p \in parts : p.forbids,
         unclear |-> \E p \in parts : p.unclear]

-----------------------------------------------------------------------------
(* The engine.                                                             *)

NoApproval == [word |-> "none", hash |-> "none", test |-> FALSE, until |-> 0]

Approving == {"approved", "approve"}     \* two of the seven words

\* An approval must be real, an approval, for this very action, and in force.
\* The fingerprint and the action's name are those of the request: the only
\* approvals that get here were made out to it (ContentBound).  A word that is
\* no ApprovalDecision has no .value to put into the refusal.
ValidApproval(a) ==
    IF a = NoApproval \/ a.test THEN "no"
    ELSE IF a.word # "approved" THEN "raises"
    ELSE IF a.until > day THEN "yes" ELSE "no"

HardGated(p) == p.gates \/ "external" \in p.risks

\* To forbid publishing forbids the actions named so, whatever others do.
Verdict(p, operation, a) ==
    IF (p.forbids /\ operation = "publish") \/ "forbidden" \in p.risks THEN "deny"
    ELSE IF p.unclear \/ HardGated(p)
         THEN CASE ValidApproval(a) = "yes" -> "allow"
                [] ValidApproval(a) = "no" -> "require_human"
                [] OTHER -> "raises"
    ELSE "allow_with_receipt"

\* Mutant of ContentBound: the latest approval counts, whatever it is for.
LatestApproval(hash) ==
    LET fits == {i \in DOMAIN answers : /\ answers[i].word \in Approving
                                        /\ ~answers[i].test
                                        /\ answers[i].until > day}
    IN  IF fits = {} THEN NoApproval
        ELSE answers[CHOOSE i \in fits : \A j \in fits : j <= i]

\* The latest decision that approves these contents and stands; a fixture's
\* does not count.
ContentBound(hash) ==
    LET fits == {i \in DOMAIN answers : /\ answers[i].word \in Approving
                                        /\ ~answers[i].test
                                        /\ answers[i].hash = hash
                                        /\ answers[i].until > day}
    IN  IF fits = {} THEN NoApproval
        ELSE answers[CHOOSE i \in fits : \A j \in fits : j <= i]

\* Policy is asked without an approval, and if it wants one, again with the
\* approval that is bound to the contents, where the stage says what it binds to.
Preflight ==
    LET p     == EffectivePolicy(layers)
        first == Verdict(p, layers.operation, NoApproval)
    IN  IF first = "require_human" /\ layers.binds
        THEN Verdict(p, layers.operation, ContentBound(packet)) ELSE first

-----------------------------------------------------------------------------
(* The workflow.                                                           *)

AuthInit ==
    /\ layers \in {l \in [workflow : {Plain, [Plain EXCEPT !.closed = TRUE]},
                          stage : {m \in Mapping : m.dry => m.asks}, external : BOOLEAN,
                          contract : {"dry", "listed", "live"},
                          operation : {"publish", "invoke"}, binds : BOOLEAN] :
                     /\ l.contract # "dry" => l.external
                     /\ l.operation = "invoke" => l.binds
                     /\ l.workflow.closed => ~l.stage.closed}
    /\ stand = "prepare" /\ packet = "none"
    /\ answers = <<>> /\ effects = {} /\ day = 0

PreparePacket ==
    /\ stand = "prepare" /\ Len(answers) < MaxGates
    /\ packet' \in Contents
    /\ stand' = "gate"
    /\ UNCHANGED <<layers, answers, effects, day>>

\* The contents of an approval are those of the packet that the gate binds to
\* when the decision is taken in.
Bound(a) == IF a.word \in Approving THEN [a EXCEPT !.hash = packet] ELSE a

\* A word that the workflow routes like an approval need not be one to the kernel.
AnswerGate ==
    /\ stand = "gate"
    /\ \/ \E word \in Approving, test \in BOOLEAN, until \in (day + 1)..(LastDay + 1) :
            /\ answers' = Append(answers, Bound([word |-> word, hash |-> "none",
                                                 test |-> test, until |-> until]))
            /\ stand' = "publish"
       \/ \E word \in {"approve_publish", "revise", "rejected"} :
            /\ answers' = Append(answers, Bound([NoApproval EXCEPT !.word = word]))
            /\ stand' = CASE word = "approve_publish" -> "publish"
                          [] word = "revise" -> "prepare"
                          [] word = "rejected" -> "denied"
    /\ UNCHANGED <<layers, packet, effects, day>>

\* An adapter that was let through may fail after its effect, or report an
\* outcome that sends the packet back.
RunPublish ==
    /\ stand = "publish"
    /\ IF Preflight \in {"allow", "allow_with_receipt"}
       THEN /\ effects' = effects \cup {[hash |-> packet, verdict |-> Preflight, day |-> day]}
            /\ stand' \in {"ended", "prepare"}
       ELSE /\ effects' = effects
            /\ stand' = IF Preflight = "raises" THEN "failed" ELSE "refused"
    /\ UNCHANGED <<layers, packet, answers, day>>

DayPasses ==
    /\ day < LastDay /\ day' = day + 1
    /\ UNCHANGED <<layers, stand, packet, answers, effects>>

AuthNext == PreparePacket \/ AnswerGate \/ RunPublish \/ DayPasses

AuthSpec == AuthInit /\ [][AuthNext]_authVars

-----------------------------------------------------------------------------
\* Whatever goes out under a policy that asks for a person was approved by one,
\* for these very bytes, not in a test, and the approval had not run out
\* (_content_bound_human_approval, validate_approval).
EffectsWereApproved ==
    LET p == EffectivePolicy(layers) IN
    p.unclear \/ HardGated(p) => \A e \in effects :
        \E i \in DOMAIN answers : /\ answers[i].word \in Approving /\ ~answers[i].test
                                  /\ answers[i].hash = e.hash
                                  /\ answers[i].until > e.day

\* To declare more never loosens: with a layer taken away the engine is at most
\* as strict as with it, approval or not (_effective_policy_for_stage).
Strictness(verdict) ==
    CASE verdict = "deny" -> 2 [] verdict \in {"require_human", "raises"} -> 1
      [] OTHER -> 0

LayersOnlyTighten ==
    LET with == EffectivePolicy(layers) IN
    \A less \in {[layers EXCEPT !.workflow = Plain], [layers EXCEPT !.stage = Plain],
                 [layers EXCEPT !.external = FALSE], [layers EXCEPT !.contract = "none"]},
       a \in {NoApproval, ContentBound(packet)} :
        Strictness(Verdict(EffectivePolicy(less), layers.operation, a))
            <= Strictness(Verdict(with, layers.operation, a))

\* An approval that is bound to the contents is "re-stamped onto this action's
\* fingerprint so the policy engine allows it".  Not so: an approval in any word
\* but the engine's own makes it raise.
ApprovalsAreUnderstood == stand = "publish" => Preflight # "raises"
=============================================================================
