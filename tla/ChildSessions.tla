----------------------------- MODULE ChildSessions -----------------------------
(***************************************************************************)
(* A delegated conversation: the budget that stops its loop (sessions.py)  *)
(* and the row that the ledger keeps of it (storage.py).  The loop is its  *)
(* caller's: it asks for a cap before every turn and pauses at one.  The   *)
(* provider may report no tokens, and the row is updated in any order.     *)
(***************************************************************************)
EXTENDS Integers

CONSTANTS
    Cap,             \* bound: the caps that are declared
    BackstopTurns    \* default_max_turns of the caller

ASSUME BackstopIsPositive == Cap \in Nat \ {0} /\ BackstopTurns \in 1..Cap

VARIABLES
    mapping,     \* the budget mapping as written: what each axis' two aliases hold
    caps,        \* the budget that the loop runs under
    reports,     \* whether the provider reports the tokens it uses
    convo,       \* status of the session's row
    tally        \* turns, tokens and seconds so far

childVars == <<mapping, caps, reports, convo, tally>>

Axes == {"turns", "tokens", "seconds"}
NoCap == -1        \* null, or a key that is not there
Bad == -2          \* a boolean, a negative number, no number
NotThere == -3

-----------------------------------------------------------------------------
(* Budgets.                                                                *)

\* The first alias that is there counts, even when it holds a null.
CoerceSessionLimit(m, axis) ==
    LET picked == IF m[axis][1] # NotThere THEN m[axis][1] ELSE m[axis][2]
    IN  IF picked = NotThere THEN NoCap ELSE picked

BudgetFrom(m) == [axis \in Axes |-> CoerceSessionLimit(m, axis)]

Accepted(b) == /\ \A axis \in Axes : b[axis] # Bad
               /\ \E axis \in Axes : b[axis] # NoCap

\* Mutant of HasHardBackstop: any cap counts.
HasAnyCap(b) == \E axis \in Axes : b[axis] # NoCap

\* Tokens are no backstop: a provider may never report any.
HasHardBackstop(b) == b["turns"] # NoCap \/ b["seconds"] # NoCap

WithHardBackstop(b) ==
    IF HasHardBackstop(b) THEN b ELSE [b EXCEPT !["turns"] = BackstopTurns]

CapHit == \E axis \in Axes : caps[axis] # NoCap /\ tally[axis] >= caps[axis]

-----------------------------------------------------------------------------
ChildInit ==
    /\ mapping \in [Axes -> {NotThere, NoCap, Bad, 0, Cap} \X {NotThere, 1}]
    /\ caps = [axis \in Axes |-> NoCap]
    /\ reports \in BOOLEAN
    /\ convo = "none"
    /\ tally = [axis \in Axes |-> 0]

\* A malformed mapping raises and a budget without caps is refused; the rest
\* runs under a backstop.
OpenSession ==
    /\ convo = "none" /\ Accepted(BudgetFrom(mapping))
    /\ caps' = WithHardBackstop(BudgetFrom(mapping))
    /\ convo' = "open"
    /\ UNCHANGED <<mapping, reports, tally>>

\* A turn counts as one, whatever the provider says it used.  Without a cap the
\* count stands still at its bound.
Counted(n) == IF n > Cap THEN n ELSE n + 1

TakeTurn ==
    /\ convo = "open" /\ ~CapHit
    /\ \E used \in {FALSE, reports} :
        tally' = [tally EXCEPT !["turns"] = Counted(@),
                               !["tokens"] = IF used THEN Counted(@) ELSE @]
    /\ UNCHANGED <<mapping, caps, reports, convo>>

SecondsPass ==
    /\ convo = "open"
    /\ tally' = [tally EXCEPT !["seconds"] = Counted(@)]
    /\ UNCHANGED <<mapping, caps, reports, convo>>

PauseAtCap ==
    /\ convo = "open" /\ CapHit
    /\ convo' = "paused"
    /\ UNCHANGED <<mapping, caps, reports, tally>>

\* The row takes any status at any time: what was closed may be open again.
UpdateChildSession ==
    /\ convo # "none"
    /\ convo' \in {"open", "closed"}
    /\ UNCHANGED <<mapping, caps, reports, tally>>

ChildNext == OpenSession \/ TakeTurn \/ SecondsPass \/ PauseAtCap \/ UpdateChildSession

\* The loop takes its turns, and time passes.
ChildFairness == WF_childVars(TakeTurn) /\ WF_childVars(SecondsPass)

ChildSpec == ChildInit /\ [][ChildNext]_childVars /\ ChildFairness

-----------------------------------------------------------------------------
\* Every loop that was let in meets a cap after finitely many turns, even if the
\* provider never reports a token (SessionBudget.has_hard_backstop).
LoopMeetsCap == convo = "open" ~> CapHit \/ convo # "open"
=============================================================================
