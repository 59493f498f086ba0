------------------------------ MODULE AdapterProofs ------------------------------
(***************************************************************************)
(* What the adapters guarantee, whatever the budgets, rounds, session      *)
(* keys, gates, fingerprints, contents and clocks: the editorial loop      *)
(* publishes what its reviewer accepted and rewrites within its budget, a  *)
(* runtime's success ran on the session its table shows, a decision that   *)
(* is accepted was meant, and what goes out under a policy that asks for a *)
(* person was approved.                                                    *)
(***************************************************************************)
EXTENDS EditorialLoop, RuntimeSessions, SandboxSurfaces, PublishAuthority,
        FiniteSetTheorems, TLAPS

-----------------------------------------------------------------------------
(* The editorial loop                                                      *)

Accepts(text) == opinion = [text |-> text, outcome |-> "accepted"]

\* From the validation on, the verdict stands that let the text through; an
\* approval is given only at the gate, which the text leaves with it for good.
ReviewedInv ==
    /\ loopAt = "validate" => opinion = [text |-> opinion.text, outcome |-> "accepted"]
    /\ loopAt \in {"gate", "publish"} => Accepts(shown)
    /\ approved # 0 => loopAt \in {"publish"} \cup Ends
    /\ loopAt = "publish" => approved = shown
    /\ published # 0 => loopAt \in Ends
    /\ ApprovedIsReviewed

\* No text is there at first.
LEMMA ReviewedInit == LoopInit => ReviewedInv
BY DEF LoopInit, ReviewedInv, ApprovedIsReviewed, Ends

\* The stages before the gate run only while nothing is approved.
LEMMA BuildKeepsReviewed ==
    ASSUME ReviewedInv, BuildText \/ ReviseText
    PROVE  ReviewedInv'
<1>1. /\ loopAt \in {"build", "revise"}
      /\ loopAt' \in {"review", "blocked"}
      /\ UNCHANGED <<opinion, shown, approved, published>>
  BY DEF BuildText, ReviseText, Guarded, Unguarded
<1> QED BY <1>1 DEF ReviewedInv, Ends, ApprovedIsReviewed, Accepts

\* A verdict names the text that it accepts.
LEMMA ReviewKeepsReviewed ==
    ASSUME ReviewedInv, ReviewText
    PROVE  ReviewedInv'
<1>1. PICK wanted \in {"accepted", "needs_revision", "block"}, overrun \in BOOLEAN,
           named \in {CurrentDraft} \cup {texts.built} :
        LET outcome == ReviewVerdict(wanted, overrun, attempts.review + 1) IN
        /\ opinion' = [text |-> named, outcome |-> outcome]
        /\ CASE outcome = "accepted" -> Unguarded("validate")
             [] outcome = "needs_revision" -> Guarded("review", "revise", TRUE)
             [] outcome = "block" -> Unguarded("blocked")
  BY DEF ReviewText
<1> DEFINE outcome == ReviewVerdict(wanted, overrun, attempts.review + 1)
<1>2. outcome \in {"accepted", "needs_revision", "block"}
  BY DEF ReviewVerdict
<1>3. \/ outcome = "accepted" /\ loopAt' = "validate"
      \/ loopAt' \in {"revise", "blocked"}
  <2>1. CASE outcome = "accepted"
    BY <1>1, <2>1 DEF Unguarded
  <2>2. CASE outcome = "needs_revision"
    BY <1>1, <2>2 DEF Guarded
  <2>3. CASE outcome = "block"
    BY <1>1, <2>3 DEF Unguarded
  <2> QED BY <1>2, <2>1, <2>2, <2>3
<1>4. approved = 0 /\ published = 0 /\ approved' = 0 /\ published' = 0
  BY DEF ReviewedInv, ReviewText, Ends
<1>5. opinion' = [text |-> named, outcome |-> outcome]
  BY <1>1
<1> HIDE DEF outcome
<1> QED BY <1>3, <1>4, <1>5 DEF ReviewedInv, Ends, ApprovedIsReviewed, Accepts

\* The validation lets the current draft through only if the verdict names it.
LEMMA ValidateKeepsReviewed ==
    ASSUME ReviewedInv, ValidateText
    PROVE  ReviewedInv'
<1>1. \/ opinion.text = CurrentDraft /\ shown' = CurrentDraft /\ loopAt' = "gate"
      \/ loopAt' = "blocked"
  BY DEF ValidateText, Unguarded
<1>2. loopAt = "validate" /\ UNCHANGED <<opinion, approved, published>>
  BY DEF ValidateText
<1> QED BY <1>1, <1>2 DEF ReviewedInv, Ends, ApprovedIsReviewed, Accepts

\* The person approves what the gate shows.
LEMMA DecideKeepsReviewed ==
    ASSUME ReviewedInv, DecideOnText
    PROVE  ReviewedInv'
<1>1. \/ approved' = shown /\ loopAt' \in {"done", "publish"}
      \/ approved' = approved /\ loopAt' \in {"build", "blocked", "denied"}
  BY DEF DecideOnText, Guarded, Unguarded
<1>2. loopAt = "gate" /\ UNCHANGED <<opinion, shown, published>>
  BY DEF DecideOnText
<1> QED BY <1>1, <1>2 DEF ReviewedInv, Ends, ApprovedIsReviewed, Accepts

\* What is published is what was approved.
LEMMA PublishKeepsReviewed ==
    ASSUME ReviewedInv, PublishText
    PROVE  ReviewedInv'
BY DEF ReviewedInv, PublishText, Unguarded, Ends, ApprovedIsReviewed, Accepts

\* Every step keeps the invariant.
LEMMA ReviewedStep == ReviewedInv /\ [LoopNext]_loopVars => ReviewedInv'
<1>1. ASSUME ReviewedInv, UNCHANGED loopVars PROVE ReviewedInv'
  BY <1>1 DEF loopVars, ReviewedInv, Ends, ApprovedIsReviewed, Accepts
<1> QED BY <1>1, BuildKeepsReviewed, ReviewKeepsReviewed, ValidateKeepsReviewed,
           DecideKeepsReviewed, PublishKeepsReviewed DEF LoopNext

\* What is approved or published is a text that the latest verdict names and
\* accepts (build_stage_input, _resolve_bound_content_hash).
THEOREM ApprovedTextsWereReviewed == LoopSpec => []ApprovedIsReviewed
<1>1. ReviewedInv => ApprovedIsReviewed
  BY DEF ReviewedInv
<1> QED BY ReviewedInit, ReviewedStep, <1>1, PTL DEF LoopSpec

-----------------------------------------------------------------------------
(* The editorial loop: the budget                                          *)

BudgetTyped ==
    /\ budget \in [{"review", "revise", "build", "gate", "defaults"} -> Int]
    /\ loopAt \in {"build", "review", "revise", "validate", "gate", "publish"} \cup Ends
    /\ attempts \in [{"build", "review", "revise"} -> Nat]
    /\ spent \in [seen : BOOLEAN, used : Nat]
    /\ loopDeaths \in Nat

\* A bound on the budgets that the workflow declares.
Allows(n) == \A b \in DOMAIN budget : Coerced(budget[b]) \in Nat => Coerced(budget[b]) <= n

\* The rewrites that were granted: those that ran, and the one that is queued.  The
\* first build is nobody's rewrite.
Granted == attempts.revise + attempts.build - 1
           + (IF loopAt \in {"revise", "build"} THEN 1 ELSE 0)

\* A grant is on the account of the transition events, unless the runner died
\* before it wrote the event, and the account stays within every budget.
BudgetInv ==
    /\ BudgetTyped
    /\ attempts.build = 0 => loopAt = "build" /\ attempts.revise = 0
    /\ ~spent.seen => spent.used = 0
    /\ Granted <= spent.used + loopDeaths
    /\ \A n \in Nat : Allows(n) => spent.used <= n

\* Nothing is granted at first.
LEMMA BudgetInit == LoopInit => BudgetInv
<1> SUFFICES ASSUME LoopInit PROVE BudgetInv
  OBVIOUS
<1>1. BudgetTyped
  BY DEF LoopInit, BudgetTyped, Ends, Unset, NoLimit
<1>2. Granted = 0
  BY DEF LoopInit, Granted
<1> QED BY <1>1, <1>2 DEF BudgetInv, LoopInit

\* What limits a transition is one of the declared budgets.
LEMMA LimitIsDeclared ==
    ASSUME BudgetTyped, NEW n \in Nat, Allows(n),
           NEW from \in {"review", "revise", "gate"}, NEW to \in {"review", "revise", "build"},
           Limit(from, to) # NoLimit
    PROVE  Limit(from, to) \in Nat /\ Limit(from, to) <= n
<1>1. PICK b \in DOMAIN budget : Limit(from, to) = Coerced(budget[b])
  BY DEF BudgetTyped, Limit
<1>2. Coerced(budget[b]) \in Nat \cup {NoLimit}
  BY DEF BudgetTyped, Coerced
<1> QED BY <1>1, <1>2 DEF Allows

\* What a guarded transition costs: an entry of the account, or a runner.
Charged(to, consumes) ==
    /\ loopAt' \in {to, "blocked"}
    /\ loopDeaths' \in Nat /\ spent' \in [seen : BOOLEAN, used : Nat]
    /\ ~spent'.seen => spent'.used = 0
    /\ spent.used + loopDeaths + (IF consumes /\ loopAt' = to THEN 1 ELSE 0)
         <= spent'.used + loopDeaths'
    /\ \A n \in Nat : Allows(n) => spent'.used <= n

\* A guarded transition that rewrites is charged or costs a runner.
LEMMA GuardedCharges ==
    ASSUME BudgetInv, UNCHANGED budget, NEW from \in {"review", "revise", "gate"},
           NEW to \in {"review", "revise", "build"}, NEW consumes \in BOOLEAN,
           Guarded(from, to, consumes)
    PROVE  Charged(to, consumes)
<1> USE DEF Charged
<1>1. CASE ~WithinBudget(from, to, consumes)
  BY <1>1 DEF Guarded, BudgetInv, BudgetTyped
<1>2. CASE WithinBudget(from, to, consumes)
  <2>1. CASE UNCHANGED spent /\ loopDeaths' = loopDeaths + 1
    BY <1>2, <2>1 DEF Guarded, BudgetInv, BudgetTyped
  <2>2. CASE /\ spent' = [seen |-> TRUE,
                          used |-> spent.used + (IF consumes THEN 1 ELSE 0)]
             /\ UNCHANGED loopDeaths
    <3>1. ASSUME NEW n \in Nat, Allows(n)
          PROVE  spent'.used <= n
      <4>1. CASE ~consumes
        BY <2>2, <3>1, <4>1 DEF BudgetInv, BudgetTyped
      <4>2. CASE consumes
        <5>1. Limit(from, to) \in Nat /\ Limit(from, to) <= n
          BY <1>2, <3>1, LimitIsDeclared DEF WithinBudget, BudgetInv
        <5>2. Used(to) + 1 <= Limit(from, to)
          BY <1>2, <4>2 DEF WithinBudget
        <5>3. Used(to) \in Nat /\ spent.used <= Used(to)
          BY <1>2, <4>2, <2>2 DEF Used, BudgetInv, BudgetTyped, Guarded
        <5> QED BY <2>2, <4>2, <5>1, <5>2, <5>3 DEF BudgetInv, BudgetTyped
      <4> QED BY <4>1, <4>2
    <3> QED BY <1>2, <2>2, <3>1 DEF Guarded, BudgetInv, BudgetTyped
  <2> QED BY <1>2, <2>1, <2>2 DEF Guarded
<1> QED BY <1>1, <1>2

\* Every step of the loop keeps the account.
LEMMA BudgetStep == BudgetInv /\ [LoopNext]_loopVars => BudgetInv'
<1> SUFFICES ASSUME BudgetInv, [LoopNext]_loopVars PROVE BudgetInv'
  OBVIOUS
<1>1. UNCHANGED budget
  BY DEF LoopNext, loopVars, BuildText, ReviewText, ReviseText, ValidateText, PublishText,
     DecideOnText
<1>2. \A n \in Nat : Allows(n)' <=> Allows(n)
  BY <1>1 DEF Allows, Coerced
<1>3. CASE UNCHANGED loopVars
  BY <1>2, <1>3 DEF loopVars, BudgetInv, BudgetTyped, Granted
<1>4. CASE BuildText
  <2>1. /\ loopAt = "build" /\ loopAt' \in {"review", "blocked"}
        /\ attempts' = [attempts EXCEPT !.build = @ + 1] /\ UNCHANGED <<spent, loopDeaths>>
    BY <1>4 DEF BuildText, Attempt, Unguarded
  <2> QED BY <1>1, <1>2, <2>1 DEF BudgetInv, BudgetTyped, Granted, Ends
<1>5. CASE ReviewText
  <2>1. PICK wanted \in {"accepted", "needs_revision", "block"}, overrun \in BOOLEAN :
           LET outcome == ReviewVerdict(wanted, overrun, attempts.review + 1) IN
           CASE outcome = "accepted" -> Unguarded("validate")
             [] outcome = "needs_revision" -> Guarded("review", "revise", TRUE)
             [] outcome = "block" -> Unguarded("blocked")
    BY <1>5 DEF ReviewText
  <2>2. ReviewVerdict(wanted, overrun, attempts.review + 1)
          \in {"accepted", "needs_revision", "block"}
    BY DEF ReviewVerdict
  <2>3. \/ Unguarded("validate") \/ Unguarded("blocked")
        \/ Guarded("review", "revise", TRUE)
    BY <2>1, <2>2
  <2>4. loopAt = "review" /\ attempts' = [attempts EXCEPT !.review = @ + 1]
    BY <1>5 DEF ReviewText, Attempt
  <2>5. CASE Unguarded("validate") \/ Unguarded("blocked")
    BY <1>1, <1>2, <2>4, <2>5 DEF Unguarded, BudgetInv, BudgetTyped, Granted, Ends
  <2>6. CASE Guarded("review", "revise", TRUE)
    <3>1. Charged("revise", TRUE)
      BY <1>1, <2>6, GuardedCharges, BudgetInv
    <3> QED BY <1>1, <1>2, <2>4, <3>1 DEF Charged, BudgetInv, BudgetTyped, Granted, Ends
  <2> QED BY <2>3, <2>5, <2>6
<1>6. CASE ReviseText
  <2>1. loopAt = "revise" /\ attempts' = [attempts EXCEPT !.revise = @ + 1]
    BY <1>6 DEF ReviseText, Attempt
  <2>2. CASE Unguarded("blocked")
    BY <1>1, <1>2, <2>1, <2>2 DEF Unguarded, BudgetInv, BudgetTyped, Granted, Ends
  <2>3. CASE Guarded("revise", "review", FALSE)
    <3>1. Charged("review", FALSE)
      BY <1>1, <2>3, GuardedCharges, BudgetInv
    <3> QED BY <1>1, <1>2, <2>1, <3>1 DEF Charged, BudgetInv, BudgetTyped, Granted, Ends
  <2> QED BY <1>6, <2>2, <2>3 DEF ReviseText
<1>7. CASE ValidateText \/ PublishText
  <2>1. /\ loopAt \in {"validate", "publish"} /\ loopAt' \in {"gate", "blocked", "done"}
        /\ UNCHANGED <<attempts, spent, loopDeaths>>
    BY <1>7 DEF ValidateText, PublishText, Unguarded
  <2> QED BY <1>1, <1>2, <2>1 DEF BudgetInv, BudgetTyped, Granted, Ends
<1>8. CASE DecideOnText
  <2>1. loopAt = "gate" /\ UNCHANGED attempts
    BY <1>8 DEF DecideOnText
  <2>2. CASE \E to \in {"done", "publish", "blocked", "denied"} : Unguarded(to)
    BY <1>1, <1>2, <2>1, <2>2 DEF Unguarded, BudgetInv, BudgetTyped, Granted, Ends
  <2>3. CASE Guarded("gate", "build", TRUE)
    <3>1. Charged("build", TRUE)
      BY <1>1, <2>3, GuardedCharges, BudgetInv
    <3> QED BY <1>1, <1>2, <2>1, <3>1 DEF Charged, BudgetInv, BudgetTyped, Granted, Ends
  <2> QED BY <1>8, <2>2, <2>3 DEF DecideOnText
<1> QED BY <1>3, <1>4, <1>5, <1>6, <1>7, <1>8 DEF LoopNext

\* Texts are rewritten no more often than the largest budget says, plus once for
\* each runner that died before it recorded the transition (_guard_within_budget).
THEOREM RewritesStayWithinBudget == LoopSpec => []RewritesWithinBudget
<1>1. BudgetInv => RewritesWithinBudget
  <2> SUFFICES ASSUME BudgetInv, NEW n \in 0..MaxTexts,
                      \A l \in {Coerced(budget[b]) : b \in DOMAIN budget} \cap Nat : l <= n
               PROVE  attempts.revise + (IF attempts.build = 0 THEN 0 ELSE attempts.build - 1)
                        <= n + loopDeaths
    BY DEF RewritesWithinBudget
  <2>1. n \in Nat /\ Allows(n)
    BY TextsBound DEF Allows
  <2>2. Granted <= n + loopDeaths
    BY <2>1 DEF BudgetInv, BudgetTyped, Granted
  <2> QED BY <2>2 DEF BudgetInv, BudgetTyped, Granted
<1> QED BY BudgetInit, BudgetStep, <1>1, PTL DEF LoopSpec

-----------------------------------------------------------------------------
(* The session tables of the runtime adapters                              *)

Session == [id : Nat, turns : Nat, mode : {"none", "session", "agent"}]

SessionsTyped ==
    /\ adapter \in [kind : {"cli_exec", "cli", "sdk", "openclaw"},
                    mode : {"none", "session", "agent"}]
    /\ table \in [Keys -> Session]
    /\ outside \in [DOMAIN outside -> [turns : Nat, missed : Nat]]
    /\ \E n \in Nat : DOMAIN outside = 1..n
    /\ last \in [Keys -> [status : {"none", "succeeded", "failed"}, id : Nat]]
    /\ remote \in [Keys -> [live : BOOLEAN, mode : {"none", "session", "agent"},
                            known : BOOLEAN]]
    /\ adapter.kind # "openclaw" => remote = [k \in Keys |-> NoRemote]

\* Ids are given once: the table knows only sessions that are there.
TableIsKnown == \A k \in Keys : table[k].id \in {0} \cup DOMAIN outside

\* The last turn that succeeded ran on the session of its key.
LastIsTabled ==
    \A k \in Keys : last[k].status = "succeeded" /\ adapter.kind # "cli_exec" =>
        table[k].id # 0 /\ table[k].id = last[k].id

\* A session nobody asked for is the session of one key at most, and the key's
\* count is not behind, but for the turns that went uncounted.
CountsKeepUp ==
    \A i \in DOMAIN outside \ asked :
        /\ outside[i].turns <= MaxTurns + outside[i].missed
        /\ \A k \in Keys : table[k].id = i =>
              /\ outside[i].turns <= table[k].turns + outside[i].missed
              /\ \A j \in Keys : table[j].id = i => j = k

\* A session that was started for a key and is tracked is tracked in its mode.
ModesAgree ==
    \A k \in Keys : remote[k].live /\ remote[k].known /\ table[k].id # 0 =>
        table[k].mode = remote[k].mode

SessionsInv ==
    SessionsTyped /\ TableIsKnown /\ LastIsTabled /\ CountsKeepUp /\ ModesAgree

\* No session is there at first.
LEMMA SessionsStart == SessionsInit => SessionsInv
<1> SUFFICES ASSUME SessionsInit PROVE SessionsInv
  OBVIOUS
<1>1. DOMAIN outside = 1..0
  BY DEF SessionsInit
<1>2. adapter \in [kind : {"cli_exec", "cli", "sdk", "openclaw"},
                   mode : {"none", "session", "agent"}]
  BY DEF SessionsInit
<1> QED BY <1>1, <1>2 DEF SessionsInit, SessionsInv, SessionsTyped, Session, NoSession, NoTurn,
          NoRemote, TableIsKnown, LastIsTabled, CountsKeepUp, ModesAgree

\* A new id is one that was not given before.
LEMMA NewestIsLast ==
    ASSUME SessionsTyped
    PROVE  /\ Newest \in Nat /\ DOMAIN outside = 1..Newest
           /\ Newest + 1 \notin DOMAIN outside
<1>1. PICK n \in Nat : DOMAIN outside = 1..n
  BY DEF SessionsTyped
<1>2. Newest = n
  BY <1>1, FS_Interval DEF Newest
<1> QED BY <1>1, <1>2

\* A turn on a session that is there, or on the newest, is counted outside.
Counted(id, missed) ==
    /\ DOMAIN outside' = DOMAIN outside \cup {id}
    /\ \A i \in DOMAIN outside \ {id} : outside'[i] = outside[i]
    /\ outside'[id] = IF id \in DOMAIN outside
                      THEN [turns  |-> outside[id].turns + 1,
                            missed |-> outside[id].missed + missed]
                      ELSE [turns |-> 1, missed |-> missed]
    /\ outside' \in [DOMAIN outside' -> [turns : Nat, missed : Nat]]
    /\ \E n \in Nat : DOMAIN outside' = 1..n

\* Counting is what Count does.
LEMMA CountCounts ==
    ASSUME SessionsTyped, NEW id \in DOMAIN outside \cup {Newest + 1},
           NEW missed \in {0, 1}, Count(id, missed)
    PROVE  Counted(id, missed)
<1>1. /\ Newest \in Nat /\ DOMAIN outside = 1..Newest /\ Newest + 1 \notin DOMAIN outside
  BY NewestIsLast
<1> DEFINE old == IF id \in DOMAIN outside THEN outside[id] ELSE [turns |-> 0, missed |-> 0]
           new == [turns |-> old.turns + 1, missed |-> old.missed + missed]
<1>2. outside' = [i \in DOMAIN outside \cup {id} |-> IF i = id THEN new ELSE outside[i]]
  BY DEF Count
<1>3. old \in [turns : Nat, missed : Nat]
  BY DEF SessionsTyped
<1>4. new \in [turns : Nat, missed : Nat]
  BY <1>3
<1>5. id \in DOMAIN outside => new = [turns  |-> outside[id].turns + 1,
                                      missed |-> outside[id].missed + missed]
  OBVIOUS
<1>6. id \notin DOMAIN outside => new = [turns |-> 1, missed |-> missed]
  OBVIOUS
<1>7. \E n \in Nat : DOMAIN outside \cup {id} = 1..n
  <2>1. CASE id \in DOMAIN outside
    BY <1>1, <2>1
  <2>2. CASE id = Newest + 1
    <3>1. DOMAIN outside \cup {id} = 1..(Newest + 1)
      BY <1>1, <2>2
    <3> QED BY <1>1, <3>1
  <2> QED BY <2>1, <2>2
<1> HIDE DEF new
<1> QED BY <1>2, <1>4, <1>5, <1>6, <1>7 DEF Counted, SessionsTyped

\* The session of a turn is a new one, the one asked for, or the key's own while it
\* has turns left.
OwnSession(k, wish, id) ==
    /\ id \in DOMAIN outside \cup {Newest + 1} /\ id # 0
    /\ \/ id = Newest + 1
       \/ wish # 0 /\ id = wish
       \/ id = table[k].id /\ table[k].turns < MaxTurns

\* What a turn resumes is such a session.
LEMMA ThreadIsOwn ==
    ASSUME SessionsInv, NEW k \in Keys, NEW wish \in {0} \cup DOMAIN outside
    PROVE  /\ OwnSession(k, wish, Thread(k, wish))
           /\ ToResume(k, wish) # 0 => Thread(k, wish) = ToResume(k, wish)
           /\ ToResume(k, wish) = 0 => Thread(k, wish) = Newest + 1
<1>1. /\ Newest \in Nat /\ DOMAIN outside = 1..Newest /\ Newest + 1 \notin DOMAIN outside
  BY NewestIsLast DEF SessionsInv
<1>2. table[k].id \in {0} \cup DOMAIN outside /\ table[k].turns \in Nat
  BY DEF SessionsInv, TableIsKnown, SessionsTyped, Session
<1> QED BY <1>1, <1>2, TurnsAllowed DEF Thread, ToResume, OwnSession

\* A turn that the table counts, on the key's new, own or wished-for session.
LEMMA CountedTurnKeepsUp ==
    ASSUME SessionsInv, NEW k \in Keys, NEW wish \in {0} \cup DOMAIN outside, NEW id,
           OwnSession(k, wish, id), Counted(id, 0), NEW s \in Session, s.id = id,
           s.turns = 1 \/ s.turns = table[k].turns + 1,
           id = table[k].id => s.turns = table[k].turns + 1,
           table' = [table EXCEPT ![k] = s],
           asked' = IF wish = 0 THEN asked ELSE asked \cup {wish}
    PROVE  TableIsKnown' /\ CountsKeepUp'
<1> USE DEF SessionsInv
<1>1. /\ Newest \in Nat /\ DOMAIN outside = 1..Newest /\ Newest + 1 \notin DOMAIN outside
  BY NewestIsLast
<1>2. \A j \in Keys : table'[j] = IF j = k THEN s ELSE table[j]
  BY DEF SessionsTyped
<1>3. TableIsKnown'
  BY <1>2 DEF TableIsKnown, Counted
<1>4. table \in [Keys -> Session]
  BY DEF SessionsTyped
<1>5. ASSUME NEW i \in DOMAIN outside' \ asked', i # id
      PROVE  /\ outside'[i].turns <= MaxTurns + outside'[i].missed
             /\ \A j \in Keys : table'[j].id = i =>
                  /\ outside'[i].turns <= table'[j].turns + outside'[i].missed
                  /\ \A l \in Keys : table'[l].id = i => l = j
  <2>1. i \in DOMAIN outside \ asked /\ outside'[i] = outside[i]
    BY <1>5 DEF Counted
  <2> QED BY <1>2, <1>5, <2>1 DEF CountsKeepUp
<1>6. ASSUME id \in DOMAIN outside' \ asked'
      PROVE  /\ outside'[id].turns <= MaxTurns + outside'[id].missed
             /\ \A j \in Keys : table'[j].id = id =>
                  /\ outside'[id].turns <= table'[j].turns + outside'[id].missed
                  /\ \A l \in Keys : table'[l].id = id => l = j
  <2>1. CASE id = Newest + 1
    <3>1. outside'[id] = [turns |-> 1, missed |-> 0]
      BY <1>1, <2>1 DEF Counted
    <3>2. \A j \in Keys : j # k => table'[j].id # id
      BY <1>1, <1>2, <2>1 DEF TableIsKnown
    <3>3. table'[k].turns >= 1 /\ table'[k].turns \in Nat
      BY <1>2, <1>4 DEF Session
    <3> QED BY <3>1, <3>2, <3>3, TurnsAllowed
  <2>2. CASE id \in DOMAIN outside
    <3>1. id \notin asked /\ (wish = 0 \/ id # wish)
      BY <1>6
    <3>2. id = table[k].id /\ table[k].turns < MaxTurns
      BY <1>1, <2>2, <3>1 DEF OwnSession
    <3>3. /\ outside'[id].turns = outside[id].turns + 1
          /\ outside'[id].missed = outside[id].missed + 0
      BY <2>2 DEF Counted
    <3>4. /\ outside[id].turns <= table[k].turns + outside[id].missed
          /\ \A j \in Keys : table[j].id = id => j = k
      BY <2>2, <3>1, <3>2 DEF CountsKeepUp
    <3>5. /\ outside[id].turns \in Nat /\ outside[id].missed \in Nat
          /\ table[k].turns \in Nat /\ MaxTurns \in Nat
      BY <2>2, <1>4, TurnsAllowed DEF SessionsTyped, Session
    <3>6. table'[k].turns = table[k].turns + 1
      BY <1>2, <3>2
    <3>7. \A j \in Keys : table'[j].id = id => j = k
      BY <1>2, <3>4
    <3>8. /\ outside'[id].turns <= MaxTurns + outside'[id].missed
          /\ outside'[id].turns <= table'[k].turns + outside'[id].missed
      BY <3>2, <3>3, <3>4, <3>5, <3>6
    <3> QED BY <3>7, <3>8
  <2> QED BY <2>1, <2>2 DEF OwnSession
<1> QED BY <1>3, <1>5, <1>6 DEF CountsKeepUp

\* A turn that the table does not count: it is missed, or on a new session.
LEMMA UncountedTurnKeepsUp ==
    ASSUME SessionsInv, NEW k \in Keys, NEW wish \in {0} \cup DOMAIN outside, NEW id,
           OwnSession(k, wish, id), NEW missed \in {0, 1}, Counted(id, missed),
           missed = 1 \/ id = Newest + 1, UNCHANGED table,
           asked' = IF wish = 0 THEN asked ELSE asked \cup {wish}
    PROVE  TableIsKnown' /\ CountsKeepUp'
<1> USE DEF SessionsInv
<1>1. /\ Newest \in Nat /\ DOMAIN outside = 1..Newest /\ Newest + 1 \notin DOMAIN outside
  BY NewestIsLast
<1>2. TableIsKnown'
  BY DEF TableIsKnown, Counted
<1>3. ASSUME NEW i \in DOMAIN outside' \ asked', i # id
      PROVE  /\ outside'[i].turns <= MaxTurns + outside'[i].missed
             /\ \A j \in Keys : table'[j].id = i =>
                  /\ outside'[i].turns <= table'[j].turns + outside'[i].missed
                  /\ \A l \in Keys : table'[l].id = i => l = j
  <2>1. i \in DOMAIN outside \ asked /\ outside'[i] = outside[i]
    BY <1>3 DEF Counted
  <2> QED BY <2>1 DEF CountsKeepUp
<1>4. ASSUME id \in DOMAIN outside' \ asked'
      PROVE  /\ outside'[id].turns <= MaxTurns + outside'[id].missed
             /\ \A j \in Keys : table'[j].id = id =>
                  /\ outside'[id].turns <= table'[j].turns + outside'[id].missed
                  /\ \A l \in Keys : table'[l].id = id => l = j
  <2>1. CASE id = Newest + 1
    <3>1. outside'[id] = [turns |-> 1, missed |-> missed]
      BY <1>1, <2>1 DEF Counted
    <3>2. \A j \in Keys : table'[j].id # id
      BY <1>1, <2>1 DEF TableIsKnown
    <3> QED BY <3>1, <3>2, TurnsAllowed
  <2>2. CASE id \in DOMAIN outside
    <3>1. /\ outside'[id].turns = outside[id].turns + 1
          /\ outside'[id].missed = outside[id].missed + 1
      BY <1>1, <2>2 DEF Counted
    <3>2. /\ outside[id].turns <= MaxTurns + outside[id].missed
          /\ \A j \in Keys : table[j].id = id =>
                /\ outside[id].turns <= table[j].turns + outside[id].missed
                /\ \A l \in Keys : table[l].id = id => l = j
      BY <1>4, <2>2 DEF CountsKeepUp
    <3>3. /\ outside[id].turns \in Nat /\ outside[id].missed \in Nat /\ MaxTurns \in Nat
          /\ \A j \in Keys : table[j].turns \in Nat
      BY <2>2, TurnsAllowed DEF SessionsTyped, Session
    <3> QED BY <3>1, <3>2, <3>3
  <2> QED BY <2>1, <2>2 DEF OwnSession
<1> QED BY <1>2, <1>3, <1>4 DEF CountsKeepUp

\* The parts of the invariant that a turn on the Codex side does not touch.
LEMMA CodexKeepsTheRest ==
    ASSUME SessionsInv, adapter.kind \in {"cli_exec", "cli", "sdk"},
           UNCHANGED <<adapter, remote>>,
           table' \in [Keys -> Session],
           outside' \in [DOMAIN outside' -> [turns : Nat, missed : Nat]],
           \E n \in Nat : DOMAIN outside' = 1..n,
           last' \in [Keys -> [status : {"none", "succeeded", "failed"}, id : Nat]],
           TableIsKnown', CountsKeepUp', LastIsTabled'
    PROVE  SessionsInv'
<1>1. \A k \in Keys : ~remote'[k].live
  BY DEF SessionsInv, SessionsTyped, NoRemote
<1> QED BY <1>1 DEF SessionsInv, SessionsTyped, ModesAgree

\* A turn of the CLI is counted if its session is known, and succeeds only then.
LEMMA TurnCliKeeps ==
    ASSUME SessionsInv, NEW k \in Keys, NEW wish \in {0} \cup DOMAIN outside, TurnCli(k, wish)
    PROVE  SessionsInv'
<1> DEFINE id == Thread(k, wish)
<1>1. PICK result \in {"ok", "failed", "timed_out"}, named \in BOOLEAN :
        LET tracked == ToResume(k, wish) # 0 \/ named
        IN  /\ table' = IF tracked
                        THEN [table EXCEPT ![k].id = id, ![k].turns = @ + 1] ELSE table
            /\ Count(id, 0)
            /\ last' = [last EXCEPT ![k] =
                   [status |-> IF result = "ok" /\ tracked THEN "succeeded" ELSE "failed",
                    id |-> id]]
  BY DEF TurnCli, Thread
<1>2. /\ OwnSession(k, wish, id) /\ (ToResume(k, wish) = 0 => id = Newest + 1)
      /\ id \in Nat /\ id # 0
  BY ThreadIsOwn, NewestIsLast DEF SessionsInv, OwnSession
<1> HIDE DEF id
<1>3. Counted(id, 0)
  BY <1>1, <1>2, CountCounts DEF OwnSession, SessionsInv
<1>4. /\ asked' = IF wish = 0 THEN asked ELSE asked \cup {wish}
      /\ UNCHANGED <<adapter, remote>> /\ adapter.kind = "cli"
  BY DEF TurnCli
<1>5. /\ table \in [Keys -> Session]
      /\ last \in [Keys -> [status : {"none", "succeeded", "failed"}, id : Nat]]
  BY DEF SessionsInv, SessionsTyped
<1>6. CASE ToResume(k, wish) # 0 \/ named
  <2> DEFINE s == [id |-> id, turns |-> table[k].turns + 1, mode |-> table[k].mode]
  <2>1. s \in Session /\ s.id = id /\ s.turns = table[k].turns + 1
    BY <1>2, <1>5 DEF Session
  <2>2. table' = [table EXCEPT ![k] = s]
    BY <1>1, <1>5, <1>6 DEF Session
  <2> HIDE DEF s
  <2>3. table' \in [Keys -> Session]
    BY <1>5, <2>1, <2>2
  <2>4. TableIsKnown' /\ CountsKeepUp'
    BY <1>2, <1>3, <1>4, <2>1, <2>2, CountedTurnKeepsUp
  <2>5. PICK status \in {"succeeded", "failed"} :
            last' = [last EXCEPT ![k] = [status |-> status, id |-> id]]
    BY <1>1
  <2>6. LastIsTabled'
    BY <1>2, <1>4, <1>5, <2>1, <2>2, <2>5 DEF SessionsInv, LastIsTabled
  <2>7. last' \in [Keys -> [status : {"none", "succeeded", "failed"}, id : Nat]]
    BY <1>2, <1>5, <2>5
  <2> QED BY <1>3, <1>4, <2>3, <2>4, <2>6, <2>7, CodexKeepsTheRest DEF Counted
<1>7. CASE ~(ToResume(k, wish) # 0 \/ named)
  <2>1. UNCHANGED table /\ id = Newest + 1
    BY <1>1, <1>2, <1>7
  <2>2. TableIsKnown' /\ CountsKeepUp'
    BY <1>2, <1>3, <1>4, <2>1, UncountedTurnKeepsUp
  <2>3. last' = [last EXCEPT ![k] = [status |-> "failed", id |-> id]]
    BY <1>1, <1>7
  <2>4. LastIsTabled'
    BY <1>4, <1>5, <2>1, <2>3 DEF SessionsInv, LastIsTabled
  <2>5. last' \in [Keys -> [status : {"none", "succeeded", "failed"}, id : Nat]]
    BY <1>2, <1>5, <2>3
  <2> QED BY <1>3, <1>4, <1>5, <2>1, <2>2, <2>4, <2>5, CodexKeepsTheRest DEF Counted
<1> QED BY <1>6, <1>7

\* A turn of the SDK is counted if it completed, and is missed otherwise.
LEMMA TurnSdkKeeps ==
    ASSUME SessionsInv, NEW k \in Keys, NEW wish \in {0} \cup DOMAIN outside, TurnSdk(k, wish)
    PROVE  SessionsInv'
<1> DEFINE id == Thread(k, wish)
<1>1. PICK completed \in BOOLEAN :
        /\ table' = IF completed
                    THEN [table EXCEPT ![k].id = id, ![k].turns = @ + 1] ELSE table
        /\ Count(id, IF completed THEN 0 ELSE 1)
        /\ last' = [last EXCEPT ![k] = [status |-> IF completed THEN "succeeded" ELSE "failed",
                                       id |-> id]]
  BY DEF TurnSdk
<1>2. OwnSession(k, wish, id) /\ id \in Nat /\ id # 0
  BY ThreadIsOwn, NewestIsLast DEF SessionsInv, OwnSession
<1> HIDE DEF id
<1>4. /\ asked' = IF wish = 0 THEN asked ELSE asked \cup {wish}
      /\ UNCHANGED <<adapter, remote>> /\ adapter.kind = "sdk"
  BY DEF TurnSdk
<1>5. /\ table \in [Keys -> Session]
      /\ last \in [Keys -> [status : {"none", "succeeded", "failed"}, id : Nat]]
  BY DEF SessionsInv, SessionsTyped
<1>6. CASE completed
  <2>3. Counted(id, 0)
    BY <1>1, <1>2, <1>6, CountCounts DEF OwnSession, SessionsInv
  <2> DEFINE s == [id |-> id, turns |-> table[k].turns + 1, mode |-> table[k].mode]
  <2>1. s \in Session /\ s.id = id /\ s.turns = table[k].turns + 1
    BY <1>2, <1>5 DEF Session
  <2>2. table' = [table EXCEPT ![k] = s]
    BY <1>1, <1>5, <1>6 DEF Session
  <2> HIDE DEF s
  <2>4. table' \in [Keys -> Session]
    BY <1>5, <2>1, <2>2
  <2>5. TableIsKnown' /\ CountsKeepUp'
    BY <1>2, <1>4, <2>1, <2>2, <2>3, CountedTurnKeepsUp
  <2>6. last' = [last EXCEPT ![k] = [status |-> "succeeded", id |-> id]]
    BY <1>1, <1>6
  <2>7. LastIsTabled'
    BY <1>2, <1>4, <1>5, <2>1, <2>2, <2>6 DEF SessionsInv, LastIsTabled
  <2>8. last' \in [Keys -> [status : {"none", "succeeded", "failed"}, id : Nat]]
    BY <1>2, <1>5, <2>6
  <2> QED BY <1>4, <2>3, <2>4, <2>5, <2>7, <2>8, CodexKeepsTheRest DEF Counted
<1>7. CASE ~completed
  <2>1. UNCHANGED table /\ Counted(id, 1)
    BY <1>1, <1>2, <1>7, CountCounts DEF OwnSession, SessionsInv
  <2>2. TableIsKnown' /\ CountsKeepUp'
    BY <1>2, <1>4, <2>1, UncountedTurnKeepsUp
  <2>3. last' = [last EXCEPT ![k] = [status |-> "failed", id |-> id]]
    BY <1>1, <1>7
  <2>4. LastIsTabled'
    BY <1>4, <1>5, <2>1, <2>3 DEF SessionsInv, LastIsTabled
  <2>5. last' \in [Keys -> [status : {"none", "succeeded", "failed"}, id : Nat]]
    BY <1>2, <1>5, <2>3
  <2> QED BY <1>4, <1>5, <2>1, <2>2, <2>4, <2>5, CodexKeepsTheRest DEF Counted
<1> QED BY <1>6, <1>7

\* A turn of the SDK that raised is missed, if there was a turn at all.
LEMMA FailSdkKeeps ==
    ASSUME SessionsInv, NEW k \in Keys, NEW wish \in {0} \cup DOMAIN outside, FailSdk(k, wish)
    PROVE  SessionsInv'
<1> DEFINE id == Thread(k, wish)
<1>1. OwnSession(k, wish, id) /\ ToResume(k, wish) \in Nat
  BY ThreadIsOwn, NewestIsLast DEF SessionsInv, OwnSession
<1>2. /\ Count(id, 1) \/ UNCHANGED outside
      /\ last' = [last EXCEPT ![k] = [status |-> "failed", id |-> ToResume(k, wish)]]
      /\ asked' = IF wish = 0 THEN asked ELSE asked \cup {wish}
      /\ UNCHANGED <<adapter, remote, table>> /\ adapter.kind = "sdk"
  BY DEF FailSdk
<1> HIDE DEF id
<1>3. /\ table \in [Keys -> Session]
      /\ last \in [Keys -> [status : {"none", "succeeded", "failed"}, id : Nat]]
      /\ outside \in [DOMAIN outside -> [turns : Nat, missed : Nat]]
      /\ \E n \in Nat : DOMAIN outside = 1..n
  BY DEF SessionsInv, SessionsTyped
<1>4. /\ LastIsTabled'
      /\ last' \in [Keys -> [status : {"none", "succeeded", "failed"}, id : Nat]]
  BY <1>1, <1>2, <1>3 DEF SessionsInv, LastIsTabled
<1>5. CASE Count(id, 1)
  <2>1. Counted(id, 1)
    BY <1>1, <1>5, CountCounts DEF OwnSession, SessionsInv
  <2>2. TableIsKnown' /\ CountsKeepUp'
    BY <1>1, <1>2, <2>1, UncountedTurnKeepsUp
  <2> QED BY <1>2, <1>3, <1>4, <2>1, <2>2, CodexKeepsTheRest DEF Counted
<1>6. CASE UNCHANGED outside
  <2>1. TableIsKnown' /\ CountsKeepUp'
    BY <1>2, <1>6 DEF SessionsInv, TableIsKnown, CountsKeepUp
  <2> QED BY <1>2, <1>3, <1>4, <1>6, <2>1, CodexKeepsTheRest
<1> QED BY <1>2, <1>5, <1>6

\* A new session is nobody's: it may be counted without a wish.
LEMMA NewSessionIsOwn ==
    ASSUME SessionsInv, NEW k \in Keys, Count(Newest + 1, 0)
    PROVE  /\ OwnSession(k, 0, Newest + 1) /\ Counted(Newest + 1, 0)
           /\ Newest + 1 \in Nat \ {0} /\ table[k].id # Newest + 1
<1>1. /\ Newest \in Nat /\ Newest + 1 \notin DOMAIN outside /\ DOMAIN outside = 1..Newest
  BY NewestIsLast DEF SessionsInv
<1>2. Counted(Newest + 1, 0)
  BY CountCounts DEF SessionsInv
<1>3. table[k].id # Newest + 1
  BY <1>1 DEF SessionsInv, TableIsKnown
<1> QED BY <1>1, <1>2, <1>3 DEF OwnSession

\* The one-shot adapter keeps no table.
LEMMA TurnExecKeeps ==
    ASSUME SessionsInv, NEW k \in Keys, TurnExec(k)
    PROVE  SessionsInv'
<1>1. PICK status \in {"succeeded", "failed"} :
         last' = [last EXCEPT ![k] = [status |-> status, id |-> Newest + 1]]
  BY DEF TurnExec
<1>2. /\ OwnSession(k, 0, Newest + 1) /\ Counted(Newest + 1, 0) /\ Newest + 1 \in Nat
  BY NewSessionIsOwn DEF TurnExec
<1>3. adapter.kind = "cli_exec" /\ UNCHANGED <<adapter, table, asked, remote>>
  BY DEF TurnExec
<1>4. TableIsKnown' /\ CountsKeepUp'
  BY <1>2, <1>3, UncountedTurnKeepsUp
<1>5. /\ LastIsTabled' /\ table' \in [Keys -> Session]
      /\ last' \in [Keys -> [status : {"none", "succeeded", "failed"}, id : Nat]]
  BY <1>1, <1>2, <1>3 DEF SessionsInv, SessionsTyped, LastIsTabled
<1> QED BY <1>2, <1>3, <1>4, <1>5, CodexKeepsTheRest DEF Counted

\* A key whose entry is dropped has no session and no turn.
LEMMA DroppingKeeps ==
    ASSUME SessionsInv, NEW k \in Keys, UNCHANGED <<adapter, outside, asked>>,
           table' = [table EXCEPT ![k] = NoSession], last' = [last EXCEPT ![k] = NoTurn],
           \/ UNCHANGED remote
           \/ adapter.kind = "openclaw" /\ remote' = [remote EXCEPT ![k] = NoRemote]
    PROVE  SessionsInv'
<1>1. /\ NoSession \in Session /\ NoSession.id = 0
      /\ NoTurn \in [status : {"none", "succeeded", "failed"}, id : Nat]
      /\ NoTurn.status = "none"
      /\ NoRemote \in [live : BOOLEAN, mode : {"none", "session", "agent"}, known : BOOLEAN]
      /\ ~NoRemote.live
  BY DEF NoSession, Session, NoTurn, NoRemote
<1>2. SessionsTyped'
  <2>1. adapter.kind # "openclaw" => UNCHANGED remote
    OBVIOUS
  <2>2. /\ table' \in [Keys -> Session]
        /\ last' \in [Keys -> [status : {"none", "succeeded", "failed"}, id : Nat]]
    BY <1>1 DEF SessionsInv, SessionsTyped
  <2>3. remote' \in [Keys -> [live : BOOLEAN, mode : {"none", "session", "agent"},
                              known : BOOLEAN]]
    BY <1>1 DEF SessionsInv, SessionsTyped
  <2> QED BY <2>1, <2>2, <2>3 DEF SessionsInv, SessionsTyped
<1>3. \A j \in Keys : /\ table'[j] = IF j = k THEN NoSession ELSE table[j]
                      /\ last'[j] = IF j = k THEN NoTurn ELSE last[j]
  BY DEF SessionsInv, SessionsTyped
<1>4. TableIsKnown' /\ LastIsTabled'
  BY <1>1, <1>3 DEF SessionsInv, TableIsKnown, LastIsTabled
<1>5. 0 \notin DOMAIN outside
  BY DEF SessionsInv, SessionsTyped
<1>6. CountsKeepUp'
  BY <1>1, <1>3, <1>5 DEF SessionsInv, CountsKeepUp
<1>7. ModesAgree'
  BY <1>1, <1>3 DEF SessionsInv, SessionsTyped, ModesAgree
<1> QED BY <1>2, <1>4, <1>6, <1>7 DEF SessionsInv

\* A session that may have been started on the host without an answer is not known.
LEMMA MaybeStartedKeeps ==
    ASSUME SessionsInv, NEW k \in Keys, NEW mode \in {"session", "agent"},
           remote' \in MaybeStarted(k, mode), UNCHANGED table
    PROVE  /\ remote' \in [Keys -> [live : BOOLEAN, mode : {"none", "session", "agent"},
                                    known : BOOLEAN]]
           /\ ModesAgree'
<1>1. CASE UNCHANGED remote
  BY <1>1 DEF SessionsInv, SessionsTyped, ModesAgree
<1>2. CASE remote' # remote
  <2> DEFINE fresh == [live |-> TRUE, mode |-> mode, known |-> FALSE]
             new == IF remote[k].live THEN remote[k] ELSE fresh
  <2>1. remote' = [remote EXCEPT ![k] = new]
    BY <1>2 DEF MaybeStarted
  <2>2. /\ new \in [live : BOOLEAN, mode : {"none", "session", "agent"}, known : BOOLEAN]
        /\ new = remote[k] \/ ~new.known
    BY DEF SessionsInv, SessionsTyped
  <2> HIDE DEF new
  <2> QED BY <2>1, <2>2 DEF SessionsInv, SessionsTyped, ModesAgree
<1> QED BY <1>1, <1>2

\* A session that OpenClaw confirms is tracked in the mode it was started in.
LEMMA StartOpenClawKeeps ==
    ASSUME SessionsInv, NEW k \in Keys, NEW mode \in {"session", "agent"},
           StartOpenClaw(k, mode)
    PROVE  SessionsInv'
<1>1. /\ OwnSession(k, 0, Newest + 1) /\ Counted(Newest + 1, 0)
      /\ Newest + 1 \in Nat \ {0} /\ table[k].id # Newest + 1
  BY NewSessionIsOwn DEF StartOpenClaw
<1>2. adapter.kind = "openclaw" /\ UNCHANGED <<adapter, asked>>
  BY DEF StartOpenClaw
<1> DEFINE id == Newest + 1
<1>3. /\ id = Newest + 1 /\ id \in Nat /\ id # 0 /\ OwnSession(k, 0, id)
      /\ Counted(id, 0) /\ table[k].id # id
  BY <1>1
<1>4. \/ /\ remote' = [remote EXCEPT ![k] = [live |-> TRUE, mode |-> mode, known |-> TRUE]]
         /\ table' = [table EXCEPT ![k] = [id |-> id, turns |-> 1, mode |-> mode]]
         /\ last' = [last EXCEPT ![k] = [status |-> "succeeded", id |-> id]]
      \/ /\ remote' \in MaybeStarted(k, mode)
         /\ table' = table
         /\ last' = [last EXCEPT ![k] = [status |-> "failed", id |-> id]]
  BY DEF StartOpenClaw
<1> HIDE DEF id
<1>5. CASE /\ remote' = [remote EXCEPT ![k] = [live |-> TRUE, mode |-> mode, known |-> TRUE]]
           /\ table' = [table EXCEPT ![k] = [id |-> id, turns |-> 1, mode |-> mode]]
           /\ last' = [last EXCEPT ![k] = [status |-> "succeeded", id |-> id]]
  <2> DEFINE s == [id |-> id, turns |-> 1, mode |-> mode]
  <2>1. s \in Session /\ s.id = id /\ s.turns = 1 /\ s.mode = mode
    BY <1>3 DEF Session
  <2>2. table' = [table EXCEPT ![k] = s]
    BY <1>5
  <2> HIDE DEF s
  <2>3. TableIsKnown' /\ CountsKeepUp'
    BY <1>2, <1>3, <2>1, <2>2, CountedTurnKeepsUp
  <2>4. SessionsTyped'
    BY <1>2, <1>3, <1>5, <2>1, <2>2 DEF SessionsInv, SessionsTyped, Counted
  <2>5. LastIsTabled' /\ ModesAgree'
    BY <1>2, <1>3, <1>5, <2>1, <2>2 DEF SessionsInv, SessionsTyped, LastIsTabled, ModesAgree
  <2> QED BY <2>3, <2>4, <2>5 DEF SessionsInv
<1>6. CASE /\ remote' \in MaybeStarted(k, mode)
           /\ table' = table
           /\ last' = [last EXCEPT ![k] = [status |-> "failed", id |-> id]]
  <2>1. TableIsKnown' /\ CountsKeepUp'
    BY <1>2, <1>3, <1>6, UncountedTurnKeepsUp
  <2>2. SessionsTyped' /\ ModesAgree'
    BY <1>2, <1>3, <1>6, MaybeStartedKeeps DEF SessionsInv, SessionsTyped, Counted
  <2>3. LastIsTabled'
    BY <1>2, <1>6 DEF SessionsInv, SessionsTyped, LastIsTabled
  <2> QED BY <2>1, <2>2, <2>3 DEF SessionsInv
<1> QED BY <1>4, <1>5, <1>6

\* A command that could not be run leaves the table as it was.
LEMMA FailOpenClawKeeps ==
    ASSUME SessionsInv, NEW k \in Keys, NEW mode \in {"session", "agent"},
           FailOpenClaw(k, mode)
    PROVE  SessionsInv'
<1>1. /\ OwnSession(k, 0, Newest + 1) /\ Counted(Newest + 1, 0)
  BY NewSessionIsOwn DEF FailOpenClaw
<1>2. /\ adapter.kind = "openclaw" /\ UNCHANGED <<adapter, table, asked>>
      /\ remote' \in MaybeStarted(k, mode)
      /\ last' = [last EXCEPT ![k] = [status |-> "failed", id |-> 0]]
  BY DEF FailOpenClaw
<1>3. TableIsKnown' /\ CountsKeepUp'
  BY <1>1, <1>2, UncountedTurnKeepsUp
<1>4. SessionsTyped' /\ ModesAgree'
  BY <1>1, <1>2, MaybeStartedKeeps DEF SessionsInv, SessionsTyped, Counted
<1>5. LastIsTabled'
  BY <1>2 DEF SessionsInv, SessionsTyped, LastIsTabled
<1> QED BY <1>3, <1>4, <1>5 DEF SessionsInv

\* Every step keeps the invariant.
LEMMA SessionsStep == SessionsInv /\ [SessionsNext]_sessionVars => SessionsInv'
<1> SUFFICES ASSUME SessionsInv, [SessionsNext]_sessionVars PROVE SessionsInv'
  OBVIOUS
<1>1. CASE UNCHANGED sessionVars
  BY <1>1 DEF sessionVars, SessionsInv, SessionsTyped, TableIsKnown, LastIsTabled,
     CountsKeepUp, ModesAgree
<1>2. CASE AdapterRestarts
  <2>1. SessionsTyped'
    BY <1>2 DEF AdapterRestarts, SessionsInv, SessionsTyped, NoSession, Session, NoTurn
  <2>2. 0 \notin DOMAIN outside
    BY DEF SessionsInv, SessionsTyped
  <2> QED BY <1>2, <2>1, <2>2 DEF AdapterRestarts, SessionsInv, NoSession, NoTurn,
             TableIsKnown, LastIsTabled, CountsKeepUp, ModesAgree
<1>3. ASSUME NEW k \in Keys,
             \/ CancelCodex(k)
             \/ CancelOpenClaw(k)
      PROVE  SessionsInv'
  <2>1. /\ UNCHANGED <<adapter, outside, asked>>
        /\ table' = [table EXCEPT ![k] = NoSession] /\ last' = [last EXCEPT ![k] = NoTurn]
        /\ \/ UNCHANGED remote
           \/ adapter.kind = "openclaw" /\ remote' = [remote EXCEPT ![k] = NoRemote]
    BY <1>3 DEF CancelCodex, CancelOpenClaw
  <2> QED BY <2>1, DroppingKeeps
<1>4. ASSUME NEW k \in Keys, RemoteEnds(k) PROVE SessionsInv'
  <2>1. /\ UNCHANGED <<adapter, table, outside, asked, last>>
        /\ remote' = [remote EXCEPT ![k] = NoRemote]
    BY <1>4 DEF RemoteEnds
  <2>2. ~NoRemote.live
        /\ NoRemote \in [live : BOOLEAN, mode : {"none", "session", "agent"}, known : BOOLEAN]
    BY DEF NoRemote
  <2>3. SessionsTyped'
    BY <2>1, <2>2 DEF SessionsInv, SessionsTyped
  <2>4. ModesAgree'
    BY <2>1, <2>2 DEF SessionsInv, SessionsTyped, ModesAgree
  <2> QED BY <2>1, <2>3, <2>4 DEF SessionsInv, TableIsKnown, LastIsTabled, CountsKeepUp
<1> QED BY <1>1, <1>2, <1>3, <1>4, TurnCliKeeps, TurnSdkKeeps, FailSdkKeeps, TurnExecKeeps,
           StartOpenClawKeeps, FailOpenClawKeeps DEF SessionsNext

\* A turn that is reported as succeeded ran on the session that poll, proof and
\* recover find under its key (the adapters' run, poll, proof and recover).
THEOREM ContinuityIsNeverPretended == SessionsSpec => []ContinuityIsReal
<1>1. SessionsInv => ContinuityIsReal
  BY DEF SessionsInv, LastIsTabled, ContinuityIsReal, PollAnswer, ProofAsked, Recovered
<1> QED BY SessionsStart, SessionsStep, <1>1, PTL DEF SessionsSpec

\* The table governs the sessions outside: it ends their reuse (max_session_turns)
\* and knows how to end them (_command_mode).
THEOREM TablesGovernSessions == SessionsSpec => []TableGovernsSessions
<1>1. SessionsInv => TurnsAreBounded
  BY DEF SessionsInv, CountsKeepUp, TurnsAreBounded
<1>2. SessionsInv => LiveSessionCanBeCancelled
  BY DEF SessionsInv, ModesAgree, LiveSessionCanBeCancelled, PollAnswer, CommandMode
<1> QED BY SessionsStart, SessionsStep, <1>1, <1>2, PTL DEF SessionsSpec, TableGovernsSessions

-----------------------------------------------------------------------------
(* Decisions on notes and outboxes                                         *)

\* Each behaviour uses one of the two surfaces.
OneConnector ==
    /\ connector \in {"note", "outbox"}
    /\ connector = "note" => slip = Missing
    /\ connector = "outbox" => sheet = Missing

\* What the person decided last is what the surface says, as long as the note
\* still says for which action.
SurfaceSaysWhatWasMeant ==
    /\ sheet # Missing => sheet = [gate |-> sheet.gate, print |-> sheet.print,
                                   ticked |-> sheet.ticked]
    /\ sheet # Missing /\ sheet.print # "lost" /\ sheet.ticked # {} => meant = sheet
    /\ slip # Missing => meant = [gate |-> slip.gate, print |-> slip.print,
                                  ticked |-> {slip.decision}]

MeantInv == OneConnector /\ SurfaceSaysWhatWasMeant /\ DecisionWasMeant

\* A set with one element has no other.
LEMMA OneTick ==
    ASSUME NEW ticked, ticked \subseteq Offered, Cardinality(ticked) = 1, NEW d \in ticked
    PROVE  ticked = {d}
<1>1. IsFiniteSet(ticked)
  <2>1. IsFiniteSet(Offered)
    <3>1. IsFiniteSet({}) BY FS_EmptySet
    <3>2. IsFiniteSet({} \cup {"approved"}) BY <3>1, FS_AddElement
    <3>3. IsFiniteSet(({} \cup {"approved"}) \cup {"rejected"}) BY <3>2, FS_AddElement
    <3> QED BY <3>3 DEF Offered
  <2> QED BY <2>1, FS_Subset
<1> QED BY <1>1, FS_Singleton

\* Nothing is on either surface at first.
LEMMA MeantInit == SurfacesInit => MeantInv
BY DEF SurfacesInit, MeantInv, OneConnector, SurfaceSaysWhatWasMeant, DecisionWasMeant

\* Publication leaves what is there, and a new note has no ticks.
LEMMA PostSheetKeepsMeaning ==
    ASSUME MeantInv, NEW p \in Packet, PostSheet(p)
    PROVE  MeantInv'
<1>1. OneConnector'
  BY DEF MeantInv, OneConnector, PostSheet, Missing
<1>2. SurfaceSaysWhatWasMeant'
  BY DEF MeantInv, SurfaceSaysWhatWasMeant, PostSheet
<1>3. DecisionWasMeant'
  BY DEF MeantInv, DecisionWasMeant, PostSheet
<1> QED BY <1>1, <1>2, <1>3 DEF MeantInv

\* Every edit is either meant, or loses what makes the note count.
LEMMA EditSheetKeepsMeaning ==
    ASSUME MeantInv, NEW ticked \in SUBSET Boxes, EditSheet(ticked)
    PROVE  MeantInv'
<1>1. OneConnector'
  BY DEF MeantInv, OneConnector, EditSheet
<1>2. SurfaceSaysWhatWasMeant'
  <2>1. connector = "note" /\ slip' = Missing
    BY DEF MeantInv, OneConnector, EditSheet
  <2> QED BY <2>1 DEF MeantInv, SurfaceSaysWhatWasMeant, EditSheet
<1>3. DecisionWasMeant'
  BY DEF MeantInv, DecisionWasMeant, EditSheet
<1> QED BY <1>1, <1>2, <1>3 DEF MeantInv

\* A note counts only for the gate and the action it shows.
LEMMA TakeFromSheetIsMeant ==
    ASSUME MeantInv, NEW q \in Query, TakeFromSheet(q)
    PROVE  MeantInv'
<1>1. PICK d \in sheet.ticked : Take("note", q, d)
  BY DEF TakeFromSheet
<1>2. sheet.ticked = {d} /\ meant = sheet
  BY OneTick DEF TakeFromSheet, SheetDecides, MeantInv, SurfaceSaysWhatWasMeant
<1>3. DecisionWasMeant'
  BY <1>1, <1>2 DEF DecisionWasMeant, TakeFromSheet, SheetDecides, Take
<1> QED BY <1>3 DEF MeantInv, OneConnector, SurfaceSaysWhatWasMeant, TakeFromSheet

\* So does the file with a decision.
LEMMA TakeFromSlipIsMeant ==
    ASSUME MeantInv, NEW q \in Query, TakeFromSlip(q)
    PROVE  MeantInv'
<1>1. DecisionWasMeant'
  BY DEF DecisionWasMeant, TakeFromSlip, SlipDecides, Take, MeantInv, SurfaceSaysWhatWasMeant
<1> QED BY <1>1 DEF MeantInv, OneConnector, SurfaceSaysWhatWasMeant, TakeFromSlip

\* The outbox has no note, and the file is what was meant last.
LEMMA OutboxKeepsMeaning ==
    ASSUME MeantInv, NEW p, NEW d, NEW key,
           SpoolMessage(key, p) \/ InjectDecision(d, p)
    PROVE  MeantInv'
<1>1. OneConnector'
  BY DEF MeantInv, OneConnector, SpoolMessage, InjectDecision
<1>2. SurfaceSaysWhatWasMeant'
  <2>1. sheet' = Missing
    BY DEF MeantInv, OneConnector, SpoolMessage, InjectDecision
  <2> QED BY <2>1 DEF MeantInv, SurfaceSaysWhatWasMeant, SpoolMessage, InjectDecision
<1>3. DecisionWasMeant'
  BY DEF MeantInv, DecisionWasMeant, SpoolMessage, InjectDecision
<1> QED BY <1>1, <1>2, <1>3 DEF MeantInv

\* Every step of the surfaces keeps it.
LEMMA MeantStep == MeantInv /\ [SurfacesNext]_surfaceVars => MeantInv'
<1> SUFFICES ASSUME MeantInv, [SurfacesNext]_surfaceVars PROVE MeantInv'
  OBVIOUS
<1>1. ASSUME NEW p \in Packet, PostSheet(p) PROVE MeantInv'
  BY <1>1, PostSheetKeepsMeaning
<1>2. ASSUME NEW p \in Packet, NEW key \in Msgs, SpoolMessage(key, p) PROVE MeantInv'
  BY <1>2, OutboxKeepsMeaning
<1>3. ASSUME NEW ticked \in SUBSET Boxes, EditSheet(ticked) PROVE MeantInv'
  BY <1>3, EditSheetKeepsMeaning
<1>4. ASSUME NEW d \in Boxes, NEW p \in Packet \cup {Nothing}, InjectDecision(d, p)
      PROVE  MeantInv'
  BY <1>4, OutboxKeepsMeaning
<1>5. ASSUME NEW q \in Query, TakeFromSheet(q) \/ TakeFromSlip(q) PROVE MeantInv'
  BY <1>5, TakeFromSheetIsMeant, TakeFromSlipIsMeant
<1>6. CASE UNCHANGED surfaceVars
  BY <1>6 DEF surfaceVars, MeantInv, OneConnector, SurfaceSaysWhatWasMeant, DecisionWasMeant
<1> QED BY <1>1, <1>2, <1>3, <1>4, <1>5, <1>6 DEF SurfacesNext

\* A decision that a sandbox surface accepts was made there, for the gate and the
\* action that the query waits for (_decision_from_markdown, _decision_from_payload).
THEOREM AcceptedDecisionsWereMeant == SurfacesSpec => []DecisionWasMeant
<1>1. MeantInv => DecisionWasMeant
  BY DEF MeantInv
<1> QED BY MeantInit, MeantStep, <1>1, PTL DEF SurfacesSpec

-----------------------------------------------------------------------------
(* Authority to publish                                                    *)

-----------------------------------------------------------------------------
(* Approvals                                                               *)

Words == {"approved", "approve", "approve_publish", "revise", "rejected"}
Answer == [word : Words, hash : Contents \cup {"none"}, test : BOOLEAN, until : Nat]

AuthTyped ==
    /\ answers \in Seq(Answer)
    /\ packet \in Contents \cup {"none"}
    /\ day \in Nat

\* An approval of these contents that stands is on record.
ApprovalStands(hash) ==
    \E i \in DOMAIN answers : /\ answers[i].word \in Approving /\ ~answers[i].test
                              /\ answers[i].hash = hash
                              /\ answers[i].until > day

\* The engine accepts what the ledger hands it only if it is such an approval.
LEMMA BoundApprovalStands ==
    ASSUME AuthTyped, NEW hash, ValidApproval(ContentBound(hash)) = "yes"
    PROVE  ApprovalStands(hash)
<1>1. ContentBound(hash) # NoApproval
  BY DEF ValidApproval
<1>2. {i \in DOMAIN answers : /\ answers[i].word \in Approving
                              /\ ~answers[i].test
                              /\ answers[i].hash = hash
                              /\ answers[i].until > day} # {}
  BY <1>1 DEF ContentBound
<1> QED BY <1>2 DEF ApprovalStands

\* Where a person is needed, nothing else lets the stage through.
LEMMA PreflightAsks ==
    ASSUME LET p == EffectivePolicy(layers) IN p.unclear \/ HardGated(p),
           Preflight \in {"allow", "allow_with_receipt"}
    PROVE  ValidApproval(ContentBound(packet)) = "yes"
<1> DEFINE p     == EffectivePolicy(layers)
           first == Verdict(p, layers.operation, NoApproval)
<1>1. ValidApproval(NoApproval) = "no"
  BY DEF ValidApproval, NoApproval
<1>2. first \in {"deny", "require_human"}
  BY <1>1 DEF Verdict
<1>3. first = "require_human" /\ layers.binds
  BY <1>2 DEF Preflight
<1>4. Verdict(p, layers.operation, ContentBound(packet)) \in {"allow", "allow_with_receipt"}
  BY <1>3 DEF Preflight
<1> QED BY <1>4 DEF Verdict

-----------------------------------------------------------------------------
(* The steps                                                               *)

\* Recorded effects keep the approvals they had: decisions are only added.
LEMMA DecisionsStay ==
    ASSUME AuthTyped, NEW a \in Answer, answers' = Append(answers, a),
           EffectsWereApproved, UNCHANGED <<layers, effects>>
    PROVE  EffectsWereApproved'
<1>1. \A i \in DOMAIN answers : i \in DOMAIN answers' /\ answers'[i] = answers[i]
  BY DEF AuthTyped
<1> QED BY <1>1 DEF EffectsWereApproved

\* To bind an answer to the packet leaves an answer.
LEMMA BoundIsAnswer == ASSUME AuthTyped, NEW a \in Answer PROVE Bound(a) \in Answer
BY DEF AuthTyped, Bound, Answer

\* An answer at the gate is added to the ones there are.
LEMMA AnswerGateKeepsApprovals ==
    ASSUME AuthTyped, EffectsWereApproved, AnswerGate
    PROVE  AuthTyped' /\ EffectsWereApproved'
<1>1. PICK a : a \in Answer /\ answers' = Append(answers, a)
  <2>1. CASE \E word \in Approving, test \in BOOLEAN, until \in (day + 1)..(LastDay + 1) :
                 answers' = Append(answers, Bound([word |-> word, hash |-> "none",
                                                   test |-> test, until |-> until]))
    <3>1. PICK word \in Approving, test \in BOOLEAN, until \in (day + 1)..(LastDay + 1) :
                 answers' = Append(answers, Bound([word |-> word, hash |-> "none",
                                                   test |-> test, until |-> until]))
      BY <2>1
    <3>2. until \in Nat
      BY GatesBound DEF AuthTyped
    <3>3. [word |-> word, hash |-> "none", test |-> test, until |-> until] \in Answer
      BY <3>2 DEF Answer, Words, Approving
    <3> QED BY <3>1, <3>3, BoundIsAnswer
  <2>2. CASE \E word \in {"approve_publish", "revise", "rejected"} :
                 answers' = Append(answers, Bound([NoApproval EXCEPT !.word = word]))
    <3>1. PICK word \in {"approve_publish", "revise", "rejected"} :
                 answers' = Append(answers, Bound([NoApproval EXCEPT !.word = word]))
      BY <2>2
    <3>2. [NoApproval EXCEPT !.word = word] \in Answer
      BY DEF Answer, Words, NoApproval
    <3> QED BY <3>1, <3>2, BoundIsAnswer
  <2> QED BY <2>1, <2>2 DEF AnswerGate
<1>2. EffectsWereApproved'
  BY <1>1, DecisionsStay DEF AnswerGate
<1>3. AuthTyped'
  BY <1>1 DEF AuthTyped, AnswerGate
<1> QED BY <1>2, <1>3

\* What is published under a policy that asks has its approval.
LEMMA RunPublishIsApproved ==
    ASSUME AuthTyped, EffectsWereApproved, RunPublish
    PROVE  AuthTyped' /\ EffectsWereApproved'
<1>1. AuthTyped'
  BY DEF AuthTyped, RunPublish
<1>2. CASE Preflight \in {"allow", "allow_with_receipt"}
  <2>1. effects' = effects \cup {[hash |-> packet, verdict |-> Preflight, day |-> day]}
    BY <1>2 DEF RunPublish
  <2>2. (LET p == EffectivePolicy(layers) IN p.unclear \/ HardGated(p)) =>
            ApprovalStands(packet)
    BY <1>2, PreflightAsks, BoundApprovalStands
  <2>3. layers' = layers /\ answers' = answers
    BY DEF RunPublish
  <2> QED BY <1>1, <2>1, <2>2, <2>3 DEF EffectsWereApproved, ApprovalStands
<1>3. CASE Preflight \notin {"allow", "allow_with_receipt"}
  <2>1. effects' = effects /\ layers' = layers /\ answers' = answers
    BY <1>3 DEF RunPublish
  <2> QED BY <1>1, <2>1 DEF EffectsWereApproved
<1> QED BY <1>1, <1>2, <1>3

\* Every step keeps the types and the approvals.
LEMMA AuthStep ==
    AuthTyped /\ EffectsWereApproved /\ [AuthNext]_authVars =>
        AuthTyped' /\ EffectsWereApproved'
<1> SUFFICES ASSUME AuthTyped, EffectsWereApproved, [AuthNext]_authVars
             PROVE  AuthTyped' /\ EffectsWereApproved'
  OBVIOUS
<1>1. CASE PreparePacket
  BY <1>1 DEF PreparePacket, AuthTyped, EffectsWereApproved
<1>2. CASE AnswerGate
  BY <1>2, AnswerGateKeepsApprovals
<1>3. CASE RunPublish
  BY <1>3, RunPublishIsApproved
<1>4. CASE DayPasses
  BY <1>4 DEF DayPasses, AuthTyped, EffectsWereApproved
<1>5. CASE UNCHANGED authVars
  BY <1>5 DEF authVars, AuthTyped, EffectsWereApproved
<1> QED BY <1>1, <1>2, <1>3, <1>4, <1>5 DEF AuthNext

\* Whatever goes out under a policy that asks for a person was approved by one,
\* for these very contents, and the approval had not run out
\* (_content_bound_human_approval, validate_approval).
THEOREM PublishedEffectsWereApproved == AuthSpec => []EffectsWereApproved
<1>1. AuthInit => AuthTyped /\ EffectsWereApproved
  BY DEF AuthInit, AuthTyped, EffectsWereApproved
<1> QED BY <1>1, AuthStep, PTL DEF AuthSpec

-----------------------------------------------------------------------------
(* Layers                                                                  *)

\* What the engine looks at in a policy that is put together.
Sterner(p, q) ==
    /\ p.forbids => q.forbids
    /\ p.unclear => q.unclear
    /\ HardGated(p) => HardGated(q)
    /\ "forbidden" \in p.risks => "forbidden" \in q.risks

\* A sterner policy never yields a looser verdict.
LEMMA SternerIsStricter ==
    ASSUME NEW p, NEW q, Sterner(p, q), NEW operation, NEW a
    PROVE  Strictness(Verdict(p, operation, a)) <= Strictness(Verdict(q, operation, a))
<1>1. Strictness(Verdict(p, operation, a)) \in {0, 1, 2}
  BY DEF Strictness
<1>2. CASE Strictness(Verdict(p, operation, a)) = 0
  BY <1>2 DEF Strictness
<1>3. CASE (p.forbids /\ operation = "publish") \/ "forbidden" \in p.risks
  BY <1>3 DEF Strictness, Verdict, Sterner
<1>4. CASE /\ ~((p.forbids /\ operation = "publish") \/ "forbidden" \in p.risks)
           /\ Strictness(Verdict(p, operation, a)) # 0
  <2>1. (p.unclear \/ HardGated(p)) /\ ValidApproval(a) # "yes"
    BY <1>4 DEF Strictness, Verdict
  <2> QED BY <1>4, <2>1 DEF Strictness, Verdict, Sterner
<1> QED BY <1>1, <1>2, <1>3, <1>4

Declared == [workflow : Mapping, stage : Mapping, external : BOOLEAN,
             contract : {"dry", "listed", "live"},
             operation : {"publish", "invoke"}, binds : BOOLEAN]

\* A policy put together is as stern as its sternest layer.
LEMMA EffectiveIsUnion ==
    ASSUME NEW l
    PROVE  LET p == EffectivePolicy(l)
               parts == {PolicyComponents(l.workflow), PolicyComponents(l.stage),
                         Registered(l.external), ContractComponents(l.contract)}
           IN  /\ p.forbids <=> \E c \in parts : c.forbids
               /\ p.unclear <=> \E c \in parts : c.unclear
               /\ HardGated(p) <=> \E c \in parts : HardGated(c)
               /\ "forbidden" \in p.risks <=> \E c \in parts : "forbidden" \in c.risks
BY DEF EffectivePolicy, HardGated

\* A layer that says nothing asks for nothing.
Silent(c) == ~c.forbids /\ ~c.unclear /\ ~HardGated(c) /\ "forbidden" \notin c.risks

\* The layers that are left out say nothing.
LEMMA SilentLayers ==
    /\ Silent(PolicyComponents(Plain))
    /\ Silent(Registered(FALSE))
    /\ Silent(ContractComponents("none"))
BY DEF Silent, PolicyComponents, ClassComponents, Plain, Inert, HardGated, Registered,
       ContractComponents

\* No layer that is added loosens the policy (_effective_policy_for_stage).
THEOREM LayersTighten == AuthSpec => []LayersOnlyTighten
<1> DEFINE LayersAreDeclared == layers \in Declared
<1>1. AuthInit => LayersAreDeclared
  <2> SUFFICES ASSUME AuthInit PROVE layers \in Declared
    OBVIOUS
  <2>1. Plain \in Mapping /\ [Plain EXCEPT !.closed = TRUE] \in Mapping
    BY DEF Plain, Mapping, Classes
  <2>2. layers \in [workflow : {Plain, [Plain EXCEPT !.closed = TRUE]},
                    stage : {m \in Mapping : m.dry => m.asks}, external : BOOLEAN,
                    contract : {"dry", "listed", "live"},
                    operation : {"publish", "invoke"}, binds : BOOLEAN]
    BY DEF AuthInit
  <2> QED BY <2>1, <2>2 DEF Declared
<1>2. LayersAreDeclared /\ [AuthNext]_authVars => LayersAreDeclared'
  BY DEF AuthNext, PreparePacket, AnswerGate, RunPublish, DayPasses, authVars
<1>3. LayersAreDeclared => LayersOnlyTighten
  <2> SUFFICES ASSUME layers \in Declared,
                      NEW less \in {[layers EXCEPT !.workflow = Plain],
                                    [layers EXCEPT !.stage = Plain],
                                    [layers EXCEPT !.external = FALSE],
                                    [layers EXCEPT !.contract = "none"]}
               PROVE  Sterner(EffectivePolicy(less), EffectivePolicy(layers))
    BY SternerIsStricter DEF LayersOnlyTighten
  <2>1. /\ less.workflow = layers.workflow \/ less.workflow = Plain
        /\ less.stage = layers.stage \/ less.stage = Plain
        /\ less.external = layers.external \/ less.external = FALSE
        /\ less.contract = layers.contract \/ less.contract = "none"
    BY DEF Declared
  <2>2. ASSUME NEW c \in {PolicyComponents(less.workflow), PolicyComponents(less.stage),
                          Registered(less.external), ContractComponents(less.contract)}
        PROVE  \/ Silent(c)
               \/ c \in {PolicyComponents(layers.workflow), PolicyComponents(layers.stage),
                         Registered(layers.external), ContractComponents(layers.contract)}
    BY <2>1, SilentLayers
  <2> QED BY <2>2, EffectiveIsUnion DEF Sterner, Silent
<1> QED BY <1>1, <1>2, <1>3, PTL DEF AuthSpec
=============================================================================
