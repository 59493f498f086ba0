----------------------------- MODULE EditorialLoop -----------------------------
(***************************************************************************)
(* The review loop of the editorial workflows (ivy_jonah_editorial and     *)
(* x_digest_post_review): a writer builds a draft, a reviewer accepts it,  *)
(* returns it or blocks it, a validator compares what was reviewed with    *)
(* the current draft, and a person decides.  The stages' adapters are      *)
(* a2a/runtime.py, artifact_validation/lane.py and x_digest/tracer.py; the *)
(* kernel guards the transitions that ask for a revision with a budget.    *)
(*                                                                         *)
(* A runner may die between queueing the next stage and recording the      *)
(* transition, which is also the budget's only account.                    *)
(***************************************************************************)
EXTENDS Integers

CONSTANTS
    MaxTexts,        \* bound: texts written, above what the budgets allow
    MaxLoopDeaths    \* bound: runners that die between the two transactions

ASSUME TextsBound == MaxTexts \in Nat \ {0}

VARIABLES
    budget,      \* max_revision_turns as the workflow declares it, by place
    loopAt,      \* the stage that is queued, or the end that was reached
    texts,       \* the draft in the build slot, in the revision slot, the newest
    attempts,    \* stage runs of each stage
    spent,       \* transition events with budget metadata, and with consumption
    opinion,     \* the latest verdict: the text it names, and its outcome
    shown,       \* the packet the validator passed on
    approved,    \* the text the person's approval is bound to
    published,
    loopDeaths

loopVars == <<budget, loopAt, texts, attempts, spent, opinion, shown, approved,
              published, loopDeaths>>

Ends == {"done", "blocked", "denied"}
NoLimit == -1     \* no valid budget: a negative one, or no integer
Unset   == -2     \* the place declares none

\* The workflows give the reviewer and the reviser a budget; the final gate and
\* the builder fall back on the workflow's defaults, which may be no integer.
LoopInit ==
    /\ budget \in [review : {Unset, 1, 2}, revise : {Unset, 1}, build : {Unset},
                   gate : {Unset}, defaults : {Unset, NoLimit, 1, 2}]
    /\ loopAt = "build"
    /\ texts = [built |-> 0, revised |-> 0, newest |-> 0]
    /\ attempts = [build |-> 0, review |-> 0, revise |-> 0]
    /\ spent = [seen |-> FALSE, used |-> 0]
    /\ opinion = [text |-> 0, outcome |-> "none"]
    /\ shown = 0 /\ approved = 0 /\ published = 0
    /\ loopDeaths = 0

(***************************************************************************)
(* The budget guard: the first place that declares a budget settles it, an *)
(* invalid one for good.  Consumption is counted from the transition       *)
(* events; as long as none has metadata, stage runs stand in for them.     *)
(***************************************************************************)
Coerced(b) == IF b >= 0 THEN b ELSE NoLimit

Limit(from, to) ==
    IF budget[from] # Unset THEN Coerced(budget[from])
    ELSE IF budget[to] # Unset THEN Coerced(budget[to])
    ELSE Coerced(budget.defaults)

Used(standIn) == IF spent.seen THEN spent.used ELSE attempts[standIn]

\* Mutant of WithinBudget: what is already used up is compared.
WithinBudgetByUse(from, to, consumes) ==
    Limit(from, to) # NoLimit /\ Used(IF consumes THEN to ELSE from) <= Limit(from, to)

\* Mutant of WithinBudget: there is a limit, and that is enough.
WithinAnyBudget(from, to, consumes) == Limit(from, to) # NoLimit

WithinBudget(from, to, consumes) ==
    /\ Limit(from, to) # NoLimit
    /\ IF consumes THEN Used(to) + 1 <= Limit(from, to)
                   ELSE Used(from) <= Limit(from, to)

\* A denied transition blocks the instance.  A granted one queues the stage and
\* then records the event; a runner that dies in between leaves the stage queued.
Guarded(from, to, consumes) ==
    IF WithinBudget(from, to, consumes)
    THEN /\ loopAt' = to
         /\ \/ /\ spent' = [seen |-> TRUE, used |-> spent.used + (IF consumes THEN 1 ELSE 0)]
               /\ UNCHANGED loopDeaths
            \/ /\ from # "gate" /\ loopDeaths < MaxLoopDeaths
               /\ loopDeaths' = loopDeaths + 1
               /\ UNCHANGED spent
    ELSE loopAt' = "blocked" /\ UNCHANGED <<spent, loopDeaths>>

Unguarded(to) == loopAt' = to /\ UNCHANGED <<spent, loopDeaths>>

\* Every adapter of the loop takes the revision, once there is one.
CurrentDraft == IF texts.revised # 0 THEN texts.revised ELSE texts.built

-----------------------------------------------------------------------------
Attempt(s) == attempts' = [attempts EXCEPT ![s] = @ + 1]

BuildText ==
    /\ loopAt = "build" /\ texts.newest < MaxTexts
    /\ Attempt("build")
    /\ \/ /\ texts' = [texts EXCEPT !.newest = @ + 1, !.built = texts.newest + 1]
          /\ Unguarded("review")
       \/ texts' = texts /\ Unguarded("blocked")
    /\ UNCHANGED <<budget, opinion, shown, approved, published>>

\* The reviewer's own packet may name the text it reviewed.  Too many turns or
\* questions turn its outcome into a block, and so does asking for a revision
\* once the attempts have outrun the stage's own budget.
ReviewVerdict(asked, overrun, attempt) ==
    IF \/ overrun
       \/ asked = "needs_revision" /\ budget.review # Unset /\ attempt > budget.review + 1
    THEN "block" ELSE asked

ReviewText ==
    /\ loopAt = "review"
    /\ Attempt("review")
    /\ \E asked \in {"accepted", "needs_revision", "block"}, overrun \in BOOLEAN,
          named \in {CurrentDraft} \cup {texts.built} :
        LET outcome == ReviewVerdict(asked, overrun, attempts.review + 1) IN
        /\ opinion' = [text |-> named, outcome |-> outcome]
        /\ CASE outcome = "accepted" -> Unguarded("validate")
             [] outcome = "needs_revision" -> Guarded("review", "revise", TRUE)
             [] outcome = "block" -> Unguarded("blocked")
    /\ UNCHANGED <<budget, texts, shown, approved, published>>

ReviseText ==
    /\ loopAt = "revise" /\ texts.newest < MaxTexts
    /\ Attempt("revise")
    /\ \/ /\ texts' = [texts EXCEPT !.newest = @ + 1, !.revised = texts.newest + 1]
          /\ Guarded("revise", "review", FALSE)
       \/ texts' = texts /\ Unguarded("blocked")
    /\ UNCHANGED <<budget, opinion, shown, approved, published>>

\* Mutant of ValidateText: the current draft passes on any verdict.
ValidateAny ==
    /\ loopAt = "validate"
    /\ shown' = CurrentDraft /\ Unguarded("gate")
    /\ UNCHANGED <<budget, texts, attempts, opinion, approved, published>>

ValidateText ==
    /\ loopAt = "validate"
    /\ IF opinion.text = CurrentDraft
       THEN shown' = CurrentDraft /\ Unguarded("gate")
       ELSE shown' = shown /\ Unguarded("blocked")
    /\ UNCHANGED <<budget, texts, attempts, opinion, approved, published>>

\* An approval is bound to the packet of the latest validation.  One workflow
\* ends there, the other goes on to publish.
DecideOnText ==
    /\ loopAt = "gate"
    /\ \/ approved' = shown /\ (Unguarded("done") \/ Unguarded("publish"))
       \/ approved' = approved /\ Guarded("gate", "build", TRUE)
       \/ approved' = approved /\ (Unguarded("blocked") \/ Unguarded("denied"))
    /\ UNCHANGED <<budget, texts, attempts, opinion, shown, published>>

PublishText ==
    /\ loopAt = "publish"
    /\ published' = shown
    /\ Unguarded("done")
    /\ UNCHANGED <<budget, texts, attempts, opinion, shown, approved>>

LoopNext ==
    \/ BuildText \/ ReviewText \/ ReviseText \/ ValidateText \/ PublishText
    \/ DecideOnText

\* A runner keeps running queued stages; nobody makes the person decide.
LoopStages == BuildText \/ ReviewText \/ ReviseText \/ ValidateText \/ PublishText
LoopFairness == WF_loopVars(LoopStages)

LoopSpec == LoopInit /\ [][LoopNext]_loopVars /\ LoopFairness

-----------------------------------------------------------------------------
\* Texts are rewritten no more often than the largest budget says, plus once for
\* each runner that died before it recorded the transition (_guard_within_budget,
\* _budget_iteration_usage).
RewritesWithinBudget ==
    LET limits == {Coerced(budget[b]) : b \in DOMAIN budget} \cap Nat
        rewrites == attempts.revise + (IF attempts.build = 0 THEN 0 ELSE attempts.build - 1)
    IN  \A n \in 0..MaxTexts : (\A l \in limits : l <= n) => rewrites <= n + loopDeaths

\* What is approved or published is a text that the latest verdict names and
\* accepts, whatever was rewritten in between (build_stage_input,
\* _resolve_bound_content_hash).
ApprovedIsReviewed ==
    /\ approved # 0 => opinion = [text |-> approved, outcome |-> "accepted"]
    /\ published # 0 => published = approved

\* The adapters' promise, that the person is shown the newest text.  Not so: a
\* revision outlives the draft that was built after it (_current_draft_artifact).
ShownIsNewest == loopAt = "gate" => shown = texts.newest

\* A loop that has begun does not go on for ever: its stages run until the person
\* is asked or the instance has ended.
LoopComesToRest == attempts.build > 0 ~> loopAt \in {"gate"} \cup Ends
=============================================================================
