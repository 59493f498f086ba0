------------------------- MODULE WorkflowLedgerProofs -------------------------
(***************************************************************************)
(* What the ledger guarantees for every number of instances, stages,       *)
(* owners, attempts and claims, whatever its callers do.                   *)
(*                                                                         *)
(* Every call of the ledger either claims, renews, starts or records an    *)
(* invocation, or it moves rows as RowMoves allows, or it touches no row.  *)
(* The invariant is shown once for each of these.                          *)
(***************************************************************************)
EXTENDS WorkflowLedgerTyping

Settled == {"succeeded", "failed", "invalid_output", "blocked", "superseded"}

\* The status changes a call makes when it neither claims nor starts.
StatusMoves ==
    {<<"absent", "queued">>, <<"claimed", "queued">>, <<"queued", "superseded">>,
     <<"blocked", "waiting_on_human">>}
    \cup (ActiveLease \X (Settled \cup {"waiting_on_human"}))
    \cup ({"waiting_on_human"} \X {"succeeded", "blocked", "superseded"})

Stays(r) == run'[r] = run[r] /\ closer'[r] = closer[r]

\* Row r stays, or it moves and ends up without a lease: settled by its lease
\* holder, or moved by somebody else.
RowMoves(r) ==
    \/ Stays(r)
    \/ /\ <<run[r].status, run'[r].status>> \in StatusMoves
       /\ run'[r].token = 0 /\ run'[r].owner = NoOwner /\ run'[r].expires = 0
       /\ run'[r].status = "queued" =>
            \/ run[r].status = "absent"
            \/ r \notin evidence /\ run[r].expires <= now
       /\ run'[r].status = "waiting_on_human" /\ run[r].status = "blocked" =>
            r \in published \ decided
       /\ \/ /\ run[r].status \in ActiveLease
             /\ run'[r].status # "queued"
             /\ closer'[r] = run[r].token
          \/ /\ closer'[r] = closer[r]
             /\ run[r].status = "started" =>
                  run'[r].status = "superseded" \/ run'[r].approval
             /\ run[r].status \in {"waiting_on_human", "blocked"} /\ run[r].approval =>
                  run'[r].approval

\* The rest of the state the invariant speaks of.
ClaimsKept == UNCHANGED <<evidence, starts, starter, grants, tokens, now>>

\* What the table of moves rules out.
LEMMA MoveFacts ==
    ASSUME NEW from, NEW to, <<from, to>> \in StatusMoves
    PROVE  /\ to \notin {"absent", "claimed", "started"}
           /\ to = "queued" => from \in {"absent", "claimed"}
           /\ from \in {"absent", "queued", "claimed", "started", "waiting_on_human",
                        "blocked"}
           /\ from = "blocked" => to = "waiting_on_human"
           /\ from = "absent" => to = "queued"
           /\ from \in {"started", "waiting_on_human"} => to # "queued"
           /\ from = "waiting_on_human" => to \in {"succeeded", "blocked", "superseded"}
           /\ from = "queued" => to = "superseded"
           /\ to \in Settled \cup {"waiting_on_human", "queued"}
BY DEF StatusMoves, Settled, ActiveLease

-----------------------------------------------------------------------------
(* The invariant under each kind of step                                   *)

\* Nothing has happened yet.
LEMMA InitLedgerInv == Init => LedgerInv
BY DEF Init, LedgerInv, LeaseIffActive, StartHistory, StarterSettles,
       CutOffNeedsApproval, TokensAreUnique, LeaseIsGranted, LatestClaimHolds,
       LostClaimsRanOut, LeasesDoNotOverlap, AbsentRow, ActiveLease

\* A step that touches neither rows nor claims keeps the invariant, also when
\* the clock advances.
LEMMA QuietStep ==
    ASSUME TypeOK, TypeOK', LedgerInv, now' >= now,
           UNCHANGED <<run, evidence, starts, starter, closer, grants, tokens>>
    PROVE  LedgerInv'
<1>1. \A g \in grants : g.expires \in Nat
  BY LeaseIsPositive, BoundsAreNat DEF TypeOK, Grant
<1>2. now \in Nat /\ now' \in Nat
  BY DEF TypeOK
<1>3. (LeaseIffActive /\ StartHistory /\ StarterSettles /\ CutOffNeedsApproval)'
  BY DEF LedgerInv, LeaseIffActive, StartHistory, StarterSettles, CutOffNeedsApproval
<1>4. (TokensAreUnique /\ LeaseIsGranted /\ LatestClaimHolds)'
  BY DEF LedgerInv, TokensAreUnique, LeaseIsGranted, LatestClaimHolds, Present
<1>5. LostClaimsRanOut'
  BY <1>1, <1>2 DEF LedgerInv, LostClaimsRanOut
<1>6. LeasesDoNotOverlap'
  BY <1>1, <1>2 DEF LedgerInv, LeasesDoNotOverlap
<1> QED
  BY <1>3, <1>4, <1>5, <1>6 DEF LedgerInv

\* Moving rows keeps the invariant.
LEMMA RowMovesStep ==
    ASSUME TypeOK, LedgerInv, ClaimsKept, \A r \in Runs : RowMoves(r)
    PROVE  LedgerInv'
<1> USE DEF LedgerInv
<1>0. ASSUME NEW r \in Runs, ~Stays(r)
      PROVE  <<run[r].status, run'[r].status>> \in StatusMoves
  BY <1>0 DEF RowMoves
<1>1. LeaseIffActive'
  <2> SUFFICES ASSUME NEW r \in Runs
               PROVE  /\ (run'[r].token # 0) <=> (run'[r].status \in ActiveLease)
                      /\ (run'[r].owner # NoOwner) <=> (run'[r].token # 0)
                      /\ (run'[r].expires # 0) => (run'[r].token # 0)
    BY DEF LeaseIffActive
  <2>1. CASE Stays(r)
    BY <2>1 DEF Stays, LeaseIffActive
  <2>2. CASE ~Stays(r)
    <3>1. run'[r].status \notin {"absent", "claimed", "started"}
      BY <1>0, <2>2, MoveFacts
    <3>2. run'[r].token = 0 /\ run'[r].owner = NoOwner /\ run'[r].expires = 0
      BY <2>2 DEF RowMoves
    <3> QED BY <3>1, <3>2 DEF ActiveLease
  <2> QED BY <2>1, <2>2
<1>2. StartHistory'
  <2> SUFFICES ASSUME NEW r \in Runs
               PROVE  /\ run'[r].status \in {"absent", "queued"} => r \notin evidence
                      /\ starts[r] = 1 =>
                           /\ run'[r].status \notin {"absent", "queued", "claimed"}
                           /\ r \in evidence
                      /\ run'[r].status = "started" =>
                           starts[r] = 1 /\ starter[r] = run'[r].token
                      /\ closer'[r] # 0 => run'[r].status \notin
                           {"absent", "queued", "claimed", "started"}
    BY DEF StartHistory, ClaimsKept
  <2>1. CASE Stays(r)
    BY <2>1 DEF Stays, StartHistory
  <2>2. CASE ~Stays(r)
    <3>1. /\ run'[r].status \notin {"absent", "claimed", "started"}
          /\ run'[r].status = "queued" => run[r].status \in {"absent", "claimed"}
      BY <1>0, <2>2, MoveFacts
    <3>2. run'[r].status = "queued" => r \notin evidence
      BY <2>2 DEF RowMoves, StartHistory
    <3>3. run'[r].status = "queued" => starts[r] # 1
      BY <3>2 DEF StartHistory
    <3>4. run'[r].status = "queued" => closer'[r] = closer[r]
      BY <2>2 DEF RowMoves
    <3>5. run'[r].status = "queued" => closer'[r] = 0
      BY <3>1, <3>4 DEF StartHistory
    <3>6. starts[r] = 1 => r \in evidence
      BY DEF StartHistory
    <3> QED BY <3>1, <3>2, <3>3, <3>5, <3>6
  <2> QED BY <2>1, <2>2
<1>3. StarterSettles'
  <2> SUFFICES ASSUME NEW r \in Runs, starts[r] # 0, closer'[r] # 0
               PROVE  closer'[r] = starter[r]
    BY DEF StarterSettles, ClaimsKept
  <2>1. CASE closer'[r] = closer[r]
    BY <2>1 DEF StarterSettles
  <2>2. CASE run[r].status \in ActiveLease /\ closer'[r] = run[r].token
    BY <2>2 DEF StartHistory, ActiveLease
  <2> QED BY <2>1, <2>2 DEF RowMoves, Stays
<1>4. CutOffNeedsApproval'
  <2> SUFFICES ASSUME NEW r \in Runs, starts[r] # 0, closer'[r] = 0
               PROVE  \/ run'[r].status \in {"started", "superseded"}
                      \/ run'[r].approval
    BY DEF CutOffNeedsApproval, ClaimsKept
  <2>1. CASE Stays(r)
    BY <2>1 DEF Stays, CutOffNeedsApproval
  <2>2. CASE ~Stays(r)
    <3>1. starts[r] = 1
      BY DEF StartHistory
    <3>2. closer[r] = 0
      BY <2>2, <3>1 DEF RowMoves, LeaseIffActive, StartHistory
    <3>3. run[r].status \in {"started", "waiting_on_human", "blocked"}
      BY <1>0, <2>2, <3>1, MoveFacts DEF StartHistory
    <3>4. run[r].status # "started" => run[r].approval
      BY <3>2, <3>3 DEF CutOffNeedsApproval
    <3>5. \/ run[r].status = "started" /\ closer'[r] = run[r].token
          \/ run[r].status = "started" /\ (run'[r].status = "superseded" \/ run'[r].approval)
          \/ run[r].status # "started" /\ run'[r].approval
      BY <2>2, <3>3, <3>4 DEF RowMoves, ActiveLease
    <3> QED BY <3>5 DEF LeaseIffActive, ActiveLease
  <2> QED BY <2>1, <2>2
<1>5. TokensAreUnique'
  <2> SUFFICES ASSUME NEW g \in grants PROVE Present(g.run)'
    BY DEF TokensAreUnique, ClaimsKept
  <2>1. g.run \in Runs /\ run[g.run].status # "absent"
    BY DEF TypeOK, Grant, TokensAreUnique, Present
  <2> QED
    BY <1>0, <2>1, MoveFacts DEF Stays, Present
<1>6. LeaseIsGranted'
  BY DEF LeaseIsGranted, RowMoves, Stays, ClaimsKept
<1>7. LatestClaimHolds'
  BY DEF LatestClaimHolds, RowMoves, Stays, ClaimsKept, TypeOK, Grant
<1>8. LostClaimsRanOut'
  <2> SUFFICES ASSUME NEW g \in grants,
                      \/ run'[g.run].status = "queued"
                      \/ run'[g.run].token # 0 /\ run'[g.run].token # g.token
               PROVE  g.expires <= now
    BY DEF LostClaimsRanOut, ClaimsKept
  <2>1. g.run \in Runs /\ run[g.run].status # "absent"
    BY DEF TypeOK, Grant, TokensAreUnique, Present
  <2>2. CASE Stays(g.run)
    BY <2>2 DEF Stays, LostClaimsRanOut
  <2>3. CASE ~Stays(g.run)
    <3>1. /\ run'[g.run].status = "queued"
          /\ run[g.run].status = "claimed"
          /\ run[g.run].expires <= now
      BY <1>0, <2>1, <2>3, MoveFacts DEF RowMoves
    <3>2. run[g.run].token # 0
      BY <2>1, <3>1 DEF LeaseIffActive, ActiveLease
    <3>3. CASE run[g.run].token # g.token
      BY <3>2, <3>3 DEF LostClaimsRanOut
    <3>4. CASE run[g.run].token = g.token
      <4>1. [run |-> g.run, owner |-> run[g.run].owner, token |-> run[g.run].token,
             expires |-> run[g.run].expires] = g
        BY <2>1, <3>2, <3>4 DEF LeaseIsGranted, TokensAreUnique
      <4> QED BY <3>1, <4>1
    <3> QED BY <3>3, <3>4
  <2> QED BY <2>2, <2>3
<1>9. LeasesDoNotOverlap'
  BY DEF LeasesDoNotOverlap, ClaimsKept
<1> QED
  BY <1>1, <1>2, <1>3, <1>4, <1>5, <1>6, <1>7, <1>8, <1>9

\* A claim takes a queued row, whose earlier claims had all run out, and mints
\* a token above every other.
LEMMA ClaimStep ==
    ASSUME TypeOK, LedgerInv, NEW r \in Runs, NEW o \in Owners, NEW at \in CallTimes,
           ClaimNextQueuedRun(r, o, at)
    PROVE  LedgerInv'
<1> USE DEF LedgerInv
<1> DEFINE row == [run[r] EXCEPT !.status = "claimed", !.owner = o,
                                 !.token = tokens + 1, !.expires = at + LeaseSeconds]
           new == [run |-> r, owner |-> o, token |-> tokens + 1,
                   expires |-> at + LeaseSeconds]
<1>1. /\ run' = [run EXCEPT ![r] = row]
      /\ grants' = grants \cup {new}
      /\ tokens' = tokens + 1
      /\ UNCHANGED <<evidence, starts, starter, closer, now>>
      /\ run[r].status = "queued"
  BY DEF ClaimNextQueuedRun, history
<1>2. /\ row.status = "claimed" /\ row.owner = o /\ row.token = tokens + 1
      /\ row.expires = at + LeaseSeconds /\ row.approval = run[r].approval
  BY DEF TypeOK, Row
<1>3. tokens \in Nat /\ now \in Nat /\ run \in [Runs -> Row] /\ o # NoOwner
  BY NullsAreNotIds DEF TypeOK
<1>4. \A g \in grants : /\ g.run \in Runs /\ g.token \in Nat /\ g.token > 0
                        /\ g.token <= tokens /\ g.expires \in Nat
  BY LeaseIsPositive, BoundsAreNat DEF TypeOK, Grant, TokensAreUnique
<1>5. new.run = r /\ new.token = tokens + 1 /\ new.expires = at + LeaseSeconds
  OBVIOUS
<1>6. run'[r] = row /\ \A q \in Runs : q # r => run'[q] = run[q]
  BY <1>1, <1>3
<1> HIDE DEF row
<1>7. LeaseIffActive'
  BY <1>2, <1>3, <1>6 DEF LeaseIffActive, ActiveLease
<1>8. StartHistory'
  <2>1. ASSUME NEW q \in Runs, q # r PROVE run'[q] = run[q]
    BY <2>1, <1>6
  <2>2. starts[r] = 0 /\ starter[r] = 0 /\ closer[r] = 0
    BY <1>1 DEF StartHistory
  <2> QED
    BY <1>1, <1>2, <1>6, <2>2 DEF StartHistory
<1>9. StarterSettles'
  BY <1>1 DEF StarterSettles
<1>10. CutOffNeedsApproval'
  <2>1. starts[r] = 0
    BY <1>1 DEF StartHistory
  <2> QED
    BY <1>1, <1>6, <2>1 DEF CutOffNeedsApproval
<1>11. TokensAreUnique'
  <2>1. \A q \in Runs : Present(q) => Present(q)'
    BY <1>2, <1>6 DEF Present
  <2>2. Present(r)'
    BY <1>2, <1>6 DEF Present
  <2>3. \A g \in grants' : g.token <= tokens' /\ Present(g.run)'
    BY <1>1, <1>3, <1>4, <1>5, <2>1, <2>2 DEF TokensAreUnique
  <2>4. \A g, h \in grants' : g.token = h.token => g = h
    BY <1>1, <1>3, <1>4, <1>5 DEF TokensAreUnique
  <2> QED BY <2>3, <2>4 DEF TokensAreUnique
<1>12. LeaseIsGranted'
  <2>1. [run |-> r, owner |-> run'[r].owner, token |-> run'[r].token,
         expires |-> run'[r].expires] \in grants'
    BY <1>1, <1>2, <1>6
  <2> QED
    BY <1>1, <1>6, <2>1 DEF LeaseIsGranted
<1>13. LatestClaimHolds'
  BY <1>1, <1>2, <1>3, <1>4, <1>5, <1>6 DEF LatestClaimHolds
<1>14. \A g \in grants : g.run = r => g.expires <= now
  BY <1>1 DEF LostClaimsRanOut
<1>15. LostClaimsRanOut'
  <2> SUFFICES ASSUME NEW g \in grants',
                      \/ run'[g.run].status = "queued"
                      \/ run'[g.run].token # 0 /\ run'[g.run].token # g.token
               PROVE  g.expires <= now
    BY <1>1 DEF LostClaimsRanOut
  <2>1. CASE g = new
    BY <1>2, <1>5, <1>6, <2>1
  <2>2. CASE g \in grants /\ g.run = r
    BY <1>14, <2>2
  <2>3. CASE g \in grants /\ g.run # r
    BY <1>4, <1>6, <2>3 DEF LostClaimsRanOut
  <2> QED BY <1>1, <2>1, <2>2, <2>3
<1>16. LeasesDoNotOverlap'
  <2> SUFFICES ASSUME NEW g \in grants', NEW h \in grants',
                      g.run = h.run, g.token < h.token
               PROVE  g.expires <= now
    BY <1>1 DEF LeasesDoNotOverlap
  <2>1. g # new
    BY <1>1, <1>3, <1>4, <1>5
  <2>2. CASE h = new
    BY <1>1, <1>5, <1>14, <2>1, <2>2
  <2>3. CASE h # new
    BY <1>1, <2>1, <2>3 DEF LeasesDoNotOverlap
  <2> QED BY <2>2, <2>3
<1> QED
  BY <1>7, <1>8, <1>9, <1>10, <1>11, <1>12, <1>13, <1>15, <1>16

\* A renewal moves the end of the lease on the row and in the memory of its
\* holder, who has the latest claim.
LEMMA RenewStep ==
    ASSUME TypeOK, LedgerInv, NEW g \in grants, NEW at \in CallTimes, RenewLease(g, at)
    PROVE  LedgerInv'
<1> USE DEF LedgerInv
<1> DEFINE row == [run[g.run] EXCEPT !.expires = at + LeaseSeconds]
           new == [g EXCEPT !.expires = at + LeaseSeconds]
<1>1. /\ run' = [run EXCEPT ![g.run] = row]
      /\ grants' = (grants \ {g}) \cup {new}
      /\ UNCHANGED <<evidence, starts, starter, closer, tokens, now>>
  BY DEF RenewLease, history
<1>2. /\ run[g.run].token = g.token /\ run[g.run].owner = g.owner
      /\ run[g.run].status \in ActiveLease
      /\ g \in Grant /\ g.run \in Runs /\ g.token # 0
  BY BoundsAreNat DEF RenewLease, Authorises, TypeOK, Grant
<1>3. run[g.run] \in Row /\ run \in [Runs -> Row]
  BY <1>2 DEF TypeOK
<1>4. /\ row.status = run[g.run].status /\ row.owner = g.owner /\ row.token = g.token
      /\ row.expires = at + LeaseSeconds /\ row.approval = run[g.run].approval
  BY <1>2, <1>3 DEF Row
<1>5. new = [run |-> g.run, owner |-> g.owner, token |-> g.token,
             expires |-> at + LeaseSeconds]
  BY <1>2 DEF Grant
<1>6. run'[g.run] = row /\ \A q \in Runs : q # g.run => run'[q] = run[q]
  BY <1>1, <1>2, <1>3
<1>7. \A q \in Runs : /\ run'[q].status = run[q].status
                      /\ run'[q].token = run[q].token
                      /\ run'[q].owner = run[q].owner
                      /\ run'[q].approval = run[q].approval
  BY <1>2, <1>4, <1>6
<1>8. new.run = g.run /\ new.token = g.token
  BY <1>5
<1> HIDE DEF row, new
<1>9. LeaseIffActive'
  BY <1>2, <1>6, <1>7 DEF LeaseIffActive
<1>10. StartHistory'
  BY <1>1, <1>7 DEF StartHistory
<1>11. StarterSettles' /\ CutOffNeedsApproval'
  BY <1>1, <1>7 DEF StarterSettles, CutOffNeedsApproval
<1>12. \A h \in grants : h.run \in Runs /\ h.token \in Nat
  BY BoundsAreNat DEF TypeOK, Grant
<1>13. TokensAreUnique'
  <2>1. \A h \in grants' : h.token <= tokens' /\ Present(h.run)'
    BY <1>1, <1>7, <1>8, <1>12 DEF TokensAreUnique, Present
  <2>2. \A h, k \in grants' : h.token = k.token => h = k
    BY <1>1, <1>8 DEF TokensAreUnique
  <2> QED BY <2>1, <2>2 DEF TokensAreUnique
<1>14. LeaseIsGranted'
  <2> SUFFICES ASSUME NEW q \in Runs, run'[q].token # 0
               PROVE  [run |-> q, owner |-> run'[q].owner, token |-> run'[q].token,
                       expires |-> run'[q].expires] \in grants'
    BY DEF LeaseIsGranted
  <2>1. CASE q = g.run
    BY <1>1, <1>4, <1>5, <1>6, <2>1
  <2>2. CASE q # g.run
    <3>1. run'[q] = run[q]
      BY <1>6, <2>2
    <3>2. [run |-> q, owner |-> run[q].owner, token |-> run[q].token,
           expires |-> run[q].expires] \in grants \ {g}
      BY <2>2, <3>1 DEF LeaseIsGranted
    <3> QED BY <1>1, <3>1, <3>2
  <2> QED BY <2>1, <2>2
<1>15. LatestClaimHolds'
  BY <1>1, <1>7, <1>8, <1>12 DEF LatestClaimHolds
<1>16. LostClaimsRanOut'
  <2> SUFFICES ASSUME NEW h \in grants',
                      \/ run'[h.run].status = "queued"
                      \/ run'[h.run].token # 0 /\ run'[h.run].token # h.token
               PROVE  h.expires <= now
    BY <1>1 DEF LostClaimsRanOut
  <2>1. h # new
    BY <1>2, <1>7, <1>8 DEF ActiveLease
  <2>2. h \in grants
    BY <1>1, <2>1
  <2> QED
    BY <1>7, <1>12, <2>2 DEF LostClaimsRanOut
<1>17. LeasesDoNotOverlap'
  <2> SUFFICES ASSUME NEW h \in grants', NEW k \in grants',
                      h.run = k.run, h.token < k.token
               PROVE  h.expires <= now
    BY <1>1 DEF LeasesDoNotOverlap
  <2>1. h # new
    <3> SUFFICES ASSUME h = new PROVE FALSE
      OBVIOUS
    <3>1. k \in grants /\ k.run = g.run /\ g.token < k.token
      BY <1>1, <1>8, <1>12
    <3>2. k.token <= g.token
      BY <1>2, <3>1 DEF LatestClaimHolds
    <3> QED BY <1>12, <3>1, <3>2
  <2>2. h \in grants /\ \E m \in grants : h.run = m.run /\ h.token < m.token
    BY <1>1, <1>8, <2>1
  <2> QED BY <2>2 DEF LeasesDoNotOverlap
<1> QED
  BY <1>9, <1>10, <1>11, <1>13, <1>14, <1>15, <1>16, <1>17

\* A start is the first and only one of its attempt.
LEMMA MarkStartedStep ==
    ASSUME TypeOK, LedgerInv, NEW g \in grants, NEW at \in CallTimes,
           MarkStageRunStarted(g, at)
    PROVE  LedgerInv'
<1> USE DEF LedgerInv
<1> DEFINE row == [run[g.run] EXCEPT !.status = "started"]
<1>1. /\ run' = [run EXCEPT ![g.run] = row]
      /\ evidence' = evidence \cup {g.run}
      /\ starts' = [starts EXCEPT ![g.run] = starts[g.run] + 1]
      /\ starter' = [starter EXCEPT ![g.run] = g.token]
      /\ UNCHANGED <<closer, grants, tokens, now>>
  BY DEF MarkStageRunStarted
<1>2. /\ run[g.run].token = g.token /\ run[g.run].status = "claimed"
      /\ g.run \in Runs /\ g.token # 0
  BY BoundsAreNat DEF MarkStageRunStarted, Authorises, TypeOK, Grant
<1>3. run[g.run] \in Row /\ run \in [Runs -> Row]
  BY <1>2 DEF TypeOK
<1>4. /\ row.status = "started" /\ row.owner = run[g.run].owner
      /\ row.token = g.token /\ row.expires = run[g.run].expires
      /\ row.approval = run[g.run].approval
  BY <1>2, <1>3 DEF Row
<1>5. run'[g.run] = row /\ \A q \in Runs : q # g.run => run'[q] = run[q]
  BY <1>1, <1>2, <1>3
<1>6. starts[g.run] = 0 /\ closer[g.run] = 0
  BY <1>2 DEF StartHistory
<1>7. /\ starts'[g.run] = 1 /\ starter'[g.run] = g.token
      /\ \A q \in Runs : q # g.run => starts'[q] = starts[q] /\ starter'[q] = starter[q]
  BY <1>1, <1>2, <1>6 DEF TypeOK
<1> HIDE DEF row
<1>8. LeaseIffActive'
  BY <1>2, <1>4, <1>5 DEF LeaseIffActive, ActiveLease
<1>9. StartHistory'
  <2> SUFFICES ASSUME NEW q \in Runs
               PROVE  /\ starts'[q] \in {0, 1}
                      /\ starts'[q] = 0 <=> starter'[q] = 0
                      /\ run'[q].status \in {"absent", "queued"} => q \notin evidence'
                      /\ starts'[q] = 1 =>
                           /\ run'[q].status \notin {"absent", "queued", "claimed"}
                           /\ q \in evidence'
                      /\ run'[q].status = "started" =>
                           starts'[q] = 1 /\ starter'[q] = run'[q].token
                      /\ closer'[q] # 0 => run'[q].status \notin
                           {"absent", "queued", "claimed", "started"}
    BY DEF StartHistory
  <2>1. CASE q = g.run
    BY <1>1, <1>2, <1>4, <1>5, <1>6, <1>7, <2>1
  <2>2. CASE q # g.run
    BY <1>1, <1>5, <1>7, <2>2 DEF StartHistory
  <2> QED BY <2>1, <2>2
<1>10. StarterSettles'
  BY <1>1, <1>6, <1>7 DEF StarterSettles
<1>11. CutOffNeedsApproval'
  BY <1>1, <1>4, <1>5, <1>7 DEF CutOffNeedsApproval
<1>12. \A h \in grants : h.run \in Runs
  BY DEF TypeOK, Grant
<1>13. TokensAreUnique'
  BY <1>1, <1>4, <1>5, <1>12 DEF TokensAreUnique, Present
<1>14. \A q \in Runs : /\ run'[q].token = run[q].token
                       /\ run'[q].owner = run[q].owner
                       /\ run'[q].expires = run[q].expires
  BY <1>2, <1>4, <1>5
<1>15. LeaseIsGranted' /\ LatestClaimHolds'
  BY <1>1, <1>12, <1>14 DEF LeaseIsGranted, LatestClaimHolds
<1>16. LostClaimsRanOut'
  BY <1>1, <1>4, <1>5, <1>12, <1>14 DEF LostClaimsRanOut
<1>17. LeasesDoNotOverlap'
  BY <1>1 DEF LeasesDoNotOverlap
<1> QED
  BY <1>8, <1>9, <1>10, <1>11, <1>13, <1>15, <1>16, <1>17

\* An invocation is recorded by a claim that still holds its lease or that
\* started the attempt: never for a row on offer.
LEMMA RecordInvocationStep ==
    ASSUME TypeOK, LedgerInv, NEW g \in grants, RecordAdapterInvocation(g)
    PROVE  LedgerInv'
<1> USE DEF LedgerInv
<1>1. /\ evidence' = evidence \cup {g.run}
      /\ UNCHANGED <<run, starts, starter, closer, grants, tokens, now>>
      /\ run[g.run].token = g.token \/ starter[g.run] = g.token
  BY DEF RecordAdapterInvocation, history
<1>2. g.run \in Runs /\ g.token # 0
  BY BoundsAreNat DEF TypeOK, Grant
<1>3. run[g.run].status \notin {"absent", "queued"}
  BY <1>1, <1>2 DEF LeaseIffActive, ActiveLease, StartHistory
<1>4. StartHistory'
  BY <1>1, <1>2, <1>3 DEF StartHistory
<1> QED
  BY <1>1, <1>4 DEF LeaseIffActive, StarterSettles, CutOffNeedsApproval,
     TokensAreUnique, Present, LeaseIsGranted, LatestClaimHolds, LostClaimsRanOut,
     LeasesDoNotOverlap

-----------------------------------------------------------------------------
(* Which calls move rows                                                   *)

\* Cancel and park retire unfinished attempts.
LEMMA SupersededMoves ==
    ASSUME TypeOK, NEW i, run' = Superseded(i), closer' = closer
    PROVE  \A r \in Runs : RowMoves(r)
<1> TAKE r \in Runs
<1>1. CASE InstanceOf(r) = i /\ run[r].status \in Unfinished
  <2>1. run'[r] = Released(run[r], "superseded")
    BY <1>1 DEF Superseded
  <2>2. /\ run'[r].status = "superseded" /\ run'[r].token = 0
        /\ run'[r].owner = NoOwner /\ run'[r].expires = 0
        /\ run'[r].approval = run[r].approval
    BY <2>1, ReleasedRow DEF TypeOK, RunStatus
  <2>3. <<run[r].status, "superseded">> \in StatusMoves
    BY <1>1 DEF Unfinished, ActiveLease, StatusMoves, Settled
  <2> QED
    BY <2>2, <2>3 DEF RowMoves
<1>2. CASE ~(InstanceOf(r) = i /\ run[r].status \in Unfinished)
  BY <1>2 DEF Superseded, RowMoves, Stays
<1> QED BY <1>1, <1>2

\* A row that takes an absent row's place is queued.
LEMMA QueuedMoves ==
    ASSUME TypeOK, NEW r \in Runs, NEW retryAt \in Nat, ~Present(r),
           run'[r] = QueuedRow(retryAt), closer'[r] = closer[r]
    PROVE  RowMoves(r)
<1>1. /\ run'[r].status = "queued" /\ run'[r].token = 0
      /\ run'[r].owner = NoOwner /\ run'[r].expires = 0
  BY QueuedRowIsRow DEF TypeOK
<1> QED
  BY <1>1 DEF RowMoves, StatusMoves, Present, ActiveLease

\* The holder of a lease settles its row.
LEMMA SettledMoves ==
    ASSUME TypeOK, NEW g \in grants, run[g.run].status \in ActiveLease,
           run[g.run].token = g.token, NEW row,
           row.status \in {"succeeded", "failed", "invalid_output", "blocked",
                           "waiting_on_human"},
           row.token = 0, row.owner = NoOwner, row.expires = 0,
           run'[g.run] = row, closer'[g.run] = g.token
    PROVE  RowMoves(g.run)
<1>1. <<run[g.run].status, row.status>> \in StatusMoves
  BY DEF StatusMoves, Settled
<1>2. row.status # "queued" /\ run[g.run].status # "blocked"
  BY DEF ActiveLease
<1> QED
  BY <1>1, <1>2 DEF RowMoves

\* Whoever settles one attempt moves that row and no other.
LEMMA SettleMoves ==
    ASSUME TypeOK, NEW g \in grants, NEW at, Authorises(g, ActiveLease, at), NEW row,
           Settle(g, row),
           row.status \in {"succeeded", "failed", "invalid_output", "blocked",
                           "waiting_on_human"},
           row.token = 0, row.owner = NoOwner, row.expires = 0
    PROVE  ClaimsKept /\ \A r \in Runs : RowMoves(r)
<1>1. /\ g.run \in Runs /\ run[g.run].token = g.token
      /\ run[g.run].status \in ActiveLease
  BY DEF TypeOK, Grant, Authorises
<1>2. run'[g.run] = row /\ closer'[g.run] = g.token
  BY <1>1 DEF Settle, TypeOK
<1>3. RowMoves(g.run)
  BY <1>1, <1>2, SettledMoves
<1>4. \A r \in Runs : r # g.run => Stays(r)
  BY <1>1 DEF Settle, Stays, TypeOK
<1> QED
  BY <1>3, <1>4 DEF RowMoves, Settle, ClaimsKept

\* Completing, failing, blocking and waiting move only the row of the claim.
LEMMA LeaseHolderMoves ==
    ASSUME TypeOK, NEW g \in grants, NEW at \in CallTimes,
           \/ CompleteStageRun(g, at)
           \/ WaitStageRunForHumanDecision(g, at)
           \/ \E f \in HandlerFailures : FailStageRun(g, f, at)
           \/ \E f \in FailureClass, approval \in BOOLEAN :
                BlockStageRun(g, f, approval, at)
    PROVE  ClaimsKept /\ \A r \in Runs : RowMoves(r)
<1>1. run[g.run] \in Row
  BY DEF TypeOK, Grant
<1>2. \A status \in RunStatus :
        LET row == Released(run[g.run], status)
        IN  /\ row \in Row /\ row.status = status
            /\ row.token = 0 /\ row.owner = NoOwner /\ row.expires = 0
  BY <1>1, ReleasedRow
<1>3. CASE CompleteStageRun(g, at)
  BY <1>2, <1>3, SettleMoves DEF CompleteStageRun, RunStatus
<1>4. CASE WaitStageRunForHumanDecision(g, at)
  <2> DEFINE row == [Released(run[g.run], "waiting_on_human")
                       EXCEPT !.failure = "other", !.approval = TRUE]
  <2>1. /\ row.status = "waiting_on_human"
        /\ row.token = 0 /\ row.owner = NoOwner /\ row.expires = 0
    BY <1>2 DEF RunStatus, Row
  <2>2. Authorises(g, ActiveLease, at) /\ Settle(g, row)
    BY <1>4 DEF WaitStageRunForHumanDecision
  <2> HIDE DEF row
  <2> QED BY <2>1, <2>2, SettleMoves
<1>5. ASSUME NEW f \in HandlerFailures, FailStageRun(g, f, at)
      PROVE  ClaimsKept /\ \A r \in Runs : RowMoves(r)
  <2> DEFINE row == [Released(run[g.run], FailedStatus(f))
                       EXCEPT !.failure = f, !.retryAt = 0]
  <2>0. FailedStatus(f) \in RunStatus
    BY FailedStatusIsStatus DEF RunStatus
  <2>1. /\ row.status = FailedStatus(f)
        /\ row.token = 0 /\ row.owner = NoOwner /\ row.expires = 0
    BY <1>2, <2>0 DEF Row
  <2>2. Authorises(g, ActiveLease, at) /\ Settle(g, row)
    BY <1>5 DEF FailStageRun
  <2> HIDE DEF row
  <2> QED BY <2>1, <2>2, FailedStatusIsStatus, SettleMoves
<1>6. ASSUME NEW f \in FailureClass, NEW approval \in BOOLEAN,
             BlockStageRun(g, f, approval, at)
      PROVE  ClaimsKept /\ \A r \in Runs : RowMoves(r)
  <2> DEFINE row == [Released(run[g.run], "blocked")
                       EXCEPT !.failure = f, !.approval = approval]
  <2>1. /\ row.status = "blocked"
        /\ row.token = 0 /\ row.owner = NoOwner /\ row.expires = 0
    BY <1>2 DEF RunStatus, Row
  <2>2. Authorises(g, ActiveLease, at) /\ Settle(g, row)
    BY <1>6 DEF BlockStageRun
  <2> HIDE DEF row
  <2> QED BY <2>1, <2>2, SettleMoves
<1> QED
  BY <1>3, <1>4, <1>5, <1>6

\* A retry settles one row and queues the next attempt, which was absent.
LEMMA ScheduleRetryMoves ==
    ASSUME TypeOK, NEW g \in grants, NEW at \in CallTimes, NEW f \in HandlerFailures,
           NEW d \in RetryDelays, ScheduleRetry(g, f, d, at)
    PROVE  ClaimsKept /\ \A r \in Runs : RowMoves(r)
<1> DEFINE row == [Released(run[g.run], FailedStatus(f))
                     EXCEPT !.failure = f, !.retryAt = at + d]
<1>1. /\ g.run \in Runs /\ run[g.run] \in Row /\ run[g.run].token = g.token
      /\ run[g.run].status \in ActiveLease
  BY DEF TypeOK, Grant, ScheduleRetry, Authorises
<1>2. PICK n \in Attempts :
        /\ IsNextAttempt(<<InstanceOf(g.run), StageOf(g.run), n>>)
        /\ run' = [run EXCEPT ![g.run] = row,
                              ![<<InstanceOf(g.run), StageOf(g.run), n>>] = QueuedRow(at + d)]
  BY DEF ScheduleRetry
<1> DEFINE next == <<InstanceOf(g.run), StageOf(g.run), n>>
<1>3. next \in Runs /\ ~Present(next)
  BY <1>1, <1>2 DEF Runs, InstanceOf, StageOf, AttemptOf, IsNextAttempt, Attempts
<1>4. next # g.run
  BY <1>1, <1>3 DEF Present, ActiveLease
<1>5. at + d \in Nat
  BY CallTimesArePast, DelaysAreNat
<1>6. /\ closer' = [closer EXCEPT ![g.run] = g.token]
      /\ ClaimsKept
  BY DEF ScheduleRetry, ClaimsKept
<1>7. FailedStatus(f) \in RunStatus
  BY FailedStatusIsStatus DEF RunStatus
<1>8. /\ Released(run[g.run], FailedStatus(f)) \in Row
      /\ row.status = FailedStatus(f)
      /\ row.token = 0 /\ row.owner = NoOwner /\ row.expires = 0
  BY <1>1, <1>7, ReleasedRow DEF Row
<1> HIDE DEF row, next
<1>9. run' = [run EXCEPT ![g.run] = row, ![next] = QueuedRow(at + d)]
  BY <1>2 DEF next
<1>10. /\ run'[g.run] = row /\ run'[next] = QueuedRow(at + d)
       /\ closer'[g.run] = g.token /\ closer'[next] = closer[next]
       /\ \A r \in Runs : r # g.run /\ r # next => Stays(r)
  BY <1>1, <1>3, <1>4, <1>6, <1>9 DEF TypeOK, Stays
<1>11. RowMoves(g.run)
  BY <1>1, <1>8, <1>10, FailedStatusIsStatus, SettledMoves
<1>12. RowMoves(next)
  BY <1>3, <1>5, <1>10, QueuedMoves
<1> QED
  BY <1>6, <1>10, <1>11, <1>12 DEF RowMoves

\* The sweep offers a claim again only when nothing shows it began; any other
\* lease it takes ends blocked with approval required.
LEMMA SweepMoves ==
    ASSUME TypeOK, LedgerInv, NEW at \in CallTimes, SweepStaleLeases(at)
    PROVE  ClaimsKept /\ \A r \in Runs : RowMoves(r)
<1>1. ClaimsKept /\ closer' = closer
  BY DEF SweepStaleLeases, ClaimsKept, history
<1>2. ASSUME NEW r \in Runs PROVE RowMoves(r)
  <2>1. CASE ~Expired(r, at)
    BY <1>1, <2>1 DEF SweepStaleLeases, RowMoves, Stays
  <2>2. CASE Expired(r, at) /\ Replayable(r)
    <3>1. run'[r] = [Released(run[r], "queued")
                       EXCEPT !.failure = "stale_lease", !.approval = FALSE]
      BY <2>2 DEF SweepStaleLeases, Recovered
    <3>2. /\ run'[r].status = "queued" /\ run'[r].token = 0
          /\ run'[r].owner = NoOwner /\ run'[r].expires = 0
      BY <3>1, ReleasedRow DEF TypeOK, RunStatus, Row
    <3>3. run[r].status = "claimed" /\ r \notin evidence
      BY <2>2 DEF Replayable
    <3>4. run[r].expires <= now
      <4>1. run[r].expires <= at /\ run[r].expires \in Nat /\ now \in Nat
        BY <2>2, BoundsAreNat, LeaseIsPositive DEF Expired, TypeOK, Row
      <4> QED BY <4>1, CallTimesArePast
    <3>5. <<"claimed", "queued">> \in StatusMoves
      BY DEF StatusMoves
    <3> QED
      BY <1>1, <3>2, <3>3, <3>4, <3>5 DEF RowMoves
  <2>3. CASE Expired(r, at) /\ ~Replayable(r)
    <3>1. run'[r] = [Released(run[r], "blocked")
                       EXCEPT !.failure = "unknown_side_effect_state", !.approval = TRUE]
      BY <2>3 DEF SweepStaleLeases, Recovered
    <3>2. /\ run'[r].status = "blocked" /\ run'[r].token = 0
          /\ run'[r].owner = NoOwner /\ run'[r].expires = 0
          /\ run'[r].approval
      BY <3>1, ReleasedRow DEF TypeOK, RunStatus, Row
    <3>3. run[r].status \in ActiveLease
      BY <2>3 DEF Expired, LedgerInv, LeaseIffActive
    <3>4. <<run[r].status, "blocked">> \in StatusMoves
      BY <3>3 DEF StatusMoves, Settled
    <3> QED
      BY <1>1, <3>2, <3>3, <3>4 DEF RowMoves
  <2> QED BY <2>1, <2>2, <2>3
<1> QED BY <1>1, <1>2

\* A gate decision moves a waiting row.
LEMMA CompleteWaitingMoves ==
    ASSUME TypeOK, LedgerInv, NEW r \in Runs, NEW status \in {"succeeded", "blocked"},
           NEW failure, CompleteWaitingHumanStageRun(r, status, failure)
    PROVE  ClaimsKept /\ \A q \in Runs : RowMoves(q)
<1>1. /\ run[r].status = "waiting_on_human" /\ run[r] \in Row
      /\ run[r].token = 0 /\ run[r].owner = NoOwner /\ run[r].expires = 0
  BY DEF CompleteWaitingHumanStageRun, TypeOK, LedgerInv, LeaseIffActive, ActiveLease
<1>2. /\ run'[r] = [run[r] EXCEPT !.status = status, !.failure = failure]
      /\ closer' = closer /\ ClaimsKept
      /\ \A q \in Runs : q # r => run'[q] = run[q]
  BY DEF CompleteWaitingHumanStageRun, TypeOK, ClaimsKept, history
<1>3. /\ run'[r].status = status /\ run'[r].token = 0 /\ run'[r].owner = NoOwner
      /\ run'[r].expires = 0 /\ run'[r].approval = run[r].approval
  BY <1>1, <1>2 DEF Row
<1>4. <<"waiting_on_human", status>> \in StatusMoves
  BY DEF StatusMoves
<1>5. RowMoves(r)
  BY <1>1, <1>2, <1>3, <1>4 DEF RowMoves
<1> QED
  BY <1>2, <1>5 DEF RowMoves, Stays

\* A fresh attempt goes behind the latest one, which stays as it is or, when a
\* waiting gate is reissued, becomes blocked.
LEMMA AppendMoves ==
    ASSUME TypeOK, NEW r \in Runs, IsLatestAttempt(r), NEW row, AppendAttempt(r, row),
           \/ row = run[r]
           \/ /\ run[r].status = "waiting_on_human" /\ row.status = "blocked"
              /\ row.token = 0 /\ row.owner = NoOwner /\ row.expires = 0
              /\ row.approval = run[r].approval
    PROVE  ClaimsKept /\ \A q \in Runs : RowMoves(q)
<1>1. /\ NextOf(r) \in Runs /\ NextOf(r) # r
      /\ run' = [run EXCEPT ![r] = row, ![NextOf(r)] = QueuedRow(0)]
      /\ closer' = closer /\ ClaimsKept
  BY DEF AppendAttempt, ClaimsKept, history, NextOf, Runs, Attempts
<1>2. ~Present(NextOf(r))
  BY <1>1 DEF IsLatestAttempt, NextOf, Runs, Attempts, AttemptOf
<1>3. /\ run'[r] = row /\ run'[NextOf(r)] = QueuedRow(0)
      /\ \A q \in Runs : q # r /\ q # NextOf(r) => run'[q] = run[q]
  BY <1>1 DEF TypeOK
<1>4. RowMoves(NextOf(r))
  BY <1>1, <1>2, <1>3, QueuedMoves
<1>5. RowMoves(r)
  <2>1. CASE row = run[r]
    BY <1>1, <1>3, <2>1 DEF RowMoves, Stays
  <2>2. CASE row # run[r]
    <3>1. <<"waiting_on_human", "blocked">> \in StatusMoves
      BY DEF StatusMoves
    <3> QED BY <1>1, <1>3, <2>2, <3>1 DEF RowMoves
  <2> QED BY <2>1, <2>2
<1>6. \A q \in Runs : q # r /\ q # NextOf(r) => RowMoves(q)
  BY <1>1, <1>3 DEF RowMoves, Stays
<1> QED
  BY <1>1, <1>4, <1>5, <1>6

\* What each operator repair does to the rows.
LEMMA OperatorMoves ==
    ASSUME TypeOK, LedgerInv, NEW r \in Runs,
           \/ RetryBlockedHumanGate(r)
           \/ ReissueWaitingHumanGate(r)
           \/ RestorePublishedHumanGateWaiting(r)
           \/ \E reauthorised, diagnostic \in BOOLEAN :
                RetryBlockedStageWithoutEffect(r, reauthorised, diagnostic)
           \/ \E c \in Runs : QueueLocalPreparationRepair(r, c)
    PROVE  ClaimsKept /\ \A q \in Runs : RowMoves(q)
<1>0. run[r] \in Row
  BY DEF TypeOK
<1>1. CASE RetryBlockedHumanGate(r)
  BY <1>1, AppendMoves DEF RetryBlockedHumanGate, AtCurrentStage
<1>2. CASE ReissueWaitingHumanGate(r)
  <2> DEFINE row == [run[r] EXCEPT !.status = "blocked", !.failure = "other"]
  <2>1. /\ IsLatestAttempt(r) /\ AppendAttempt(r, row)
        /\ run[r].status = "waiting_on_human"
    BY <1>2 DEF ReissueWaitingHumanGate, AtCurrentStage
  <2>2. run[r].token = 0 /\ run[r].owner = NoOwner /\ run[r].expires = 0
    BY <2>1 DEF LedgerInv, LeaseIffActive, ActiveLease
  <2>3. /\ row.status = "blocked" /\ row.token = 0 /\ row.owner = NoOwner
        /\ row.expires = 0 /\ row.approval = run[r].approval
    BY <1>0, <2>2 DEF Row
  <2> HIDE DEF row
  <2> QED BY <2>1, <2>3, AppendMoves
<1>3. CASE RestorePublishedHumanGateWaiting(r)
  <2>1. /\ run'[r] = [run[r] EXCEPT !.status = "waiting_on_human", !.failure = "none"]
        /\ \A q \in Runs : q # r => run'[q] = run[q]
        /\ closer' = closer /\ ClaimsKept
        /\ run[r].status = "blocked" /\ run[r].approval
        /\ r \in published \ decided
    BY <1>3 DEF RestorePublishedHumanGateWaiting, TypeOK, ClaimsKept, history
  <2>2. run[r].token = 0 /\ run[r].owner = NoOwner /\ run[r].expires = 0
    BY <2>1 DEF LedgerInv, LeaseIffActive, ActiveLease
  <2>3. /\ run'[r].status = "waiting_on_human" /\ run'[r].token = 0
        /\ run'[r].owner = NoOwner /\ run'[r].expires = 0 /\ run'[r].approval
    BY <1>0, <2>1, <2>2 DEF Row
  <2>4. <<"blocked", "waiting_on_human">> \in StatusMoves
    BY DEF StatusMoves
  <2>5. RowMoves(r)
    BY <2>1, <2>3, <2>4 DEF RowMoves
  <2> QED
    BY <2>1, <2>5 DEF RowMoves, Stays
<1>4. ASSUME NEW reauthorised \in BOOLEAN, NEW diagnostic \in BOOLEAN,
             RetryBlockedStageWithoutEffect(r, reauthorised, diagnostic)
      PROVE  ClaimsKept /\ \A q \in Runs : RowMoves(q)
  BY <1>4, AppendMoves DEF RetryBlockedStageWithoutEffect, AtCurrentStage
<1>5. ASSUME NEW c \in Runs, QueueLocalPreparationRepair(r, c)
      PROVE  ClaimsKept /\ \A q \in Runs : RowMoves(q)
  <2>1. PICK n \in Attempts :
          /\ IsNextAttempt(<<InstanceOf(r), StageOf(c), n>>)
          /\ run' = [run EXCEPT ![<<InstanceOf(r), StageOf(c), n>>] = QueuedRow(0)]
    BY <1>5 DEF QueueLocalPreparationRepair
  <2> DEFINE next == <<InstanceOf(r), StageOf(c), n>>
  <2>2. next \in Runs /\ ~Present(next)
    BY <2>1 DEF Runs, InstanceOf, StageOf, AttemptOf, IsNextAttempt, Attempts
  <2>3. closer' = closer /\ ClaimsKept
    BY <1>5 DEF QueueLocalPreparationRepair, ClaimsKept, history
  <2> HIDE DEF next
  <2>4. run' = [run EXCEPT ![next] = QueuedRow(0)]
    BY <2>1 DEF next
  <2>5. RowMoves(next)
    BY <2>2, <2>3, <2>4, QueuedMoves DEF TypeOK
  <2> QED
    BY <2>2, <2>3, <2>4, <2>5 DEF RowMoves, Stays, TypeOK
<1> QED
  BY <1>1, <1>2, <1>3, <1>4, <1>5

-----------------------------------------------------------------------------
(* Every step is of one of these kinds                                     *)

\* No row, claim or history changes; the clock may advance.
Quiet == /\ UNCHANGED <<run, evidence, starts, starter, closer, grants, tokens>>
         /\ now' >= now

\* Every call of the ledger is one of the kinds of step treated above.
LEMMA StepKinds ==
    ASSUME TypeOK, LedgerInv, [Next]_vars
    PROVE  \/ Quiet
           \/ ClaimsKept /\ \A r \in Runs : RowMoves(r)
           \/ \E r \in Runs, o \in Owners, at \in CallTimes : ClaimNextQueuedRun(r, o, at)
           \/ \E g \in grants :
                \/ RecordAdapterInvocation(g)
                \/ \E at \in CallTimes : RenewLease(g, at) \/ MarkStageRunStarted(g, at)
<1> DEFINE Moves == ClaimsKept /\ \A r \in Runs : RowMoves(r)
<1>0. now \in Nat
  BY DEF TypeOK
<1>1. InstanceStep => Quiet \/ Moves
  <2> SUFFICES ASSUME NEW i \in Instances,
                      \/ \E s \in Stages : InsertWorkflowInstance(i, s)
                      \/ \E st \in InstanceStatus, s \in Stages \cup {NoStage} :
                           UpdateWorkflowInstance(i, st, s)
                      \/ \E force \in BOOLEAN : CancelWorkflowInstance(i, force)
                      \/ ParkStaleWorkflowInstance(i)
               PROVE  Quiet \/ Moves
    BY DEF InstanceStep, InstanceStatus, TerminalInstance
  <2>1. CASE \E s \in Stages : InsertWorkflowInstance(i, s)
    BY <1>0, <2>1 DEF InsertWorkflowInstance, Quiet, history
  <2>2. CASE \E st \in InstanceStatus, s \in Stages \cup {NoStage} :
              UpdateWorkflowInstance(i, st, s)
    BY <1>0, <2>2 DEF UpdateWorkflowInstance, Quiet, history
  <2>3. CASE \E force \in BOOLEAN : CancelWorkflowInstance(i, force)
    BY <2>3, SupersededMoves DEF CancelWorkflowInstance, ClaimsKept, history
  <2>4. CASE ParkStaleWorkflowInstance(i)
    BY <2>4, SupersededMoves DEF ParkStaleWorkflowInstance, ClaimsKept, history
  <2> QED BY <2>1, <2>2, <2>3, <2>4
<1>2. ASSUME NEW r \in Runs, InsertStageRun(r) PROVE Moves
  <2>1. /\ run'[r] = QueuedRow(0) /\ closer' = closer /\ ClaimsKept /\ ~Present(r)
        /\ \A q \in Runs : q # r => run'[q] = run[q]
    BY <1>2 DEF InsertStageRun, ClaimsKept, history, TypeOK
  <2> QED
    BY <2>1, QueuedMoves DEF RowMoves, Stays
<1>3. ASSUME NEW g \in grants, RecordHandlerReceipt(g) PROVE Quiet
  BY <1>0, <1>3 DEF RecordHandlerReceipt, Quiet, history
<1>4. RecoveryStep => Quiet \/ Moves
  <2>1. TerminalizeBlockedCurrentStages => Quiet
    BY <1>0 DEF TerminalizeBlockedCurrentStages, Quiet, history
  <2> QED
    BY <2>1, SweepMoves DEF RecoveryStep
<1>5. GateStep => Quiet \/ Moves
  <2>1. ASSUME NEW r \in Runs, RecordPublishReceipt(r) \/ RecordHumanDecision(r)
        PROVE  Quiet
    BY <1>0, <2>1 DEF RecordPublishReceipt, RecordHumanDecision, Quiet, history
  <2> QED
    BY <2>1, CompleteWaitingMoves DEF GateStep
<1>6. OperatorStep => Moves
  BY OperatorMoves DEF OperatorStep
<1>7. Tick => Quiet
  BY <1>0 DEF Tick, Quiet, ledger, history
<1>8. UNCHANGED vars => Quiet
  BY <1>0 DEF vars, ledger, history, Quiet
<1>9. "unknown_side_effect_state" \in FailureClass /\ HandlerFailures \subseteq FailureClass
  BY DEF HandlerFailures, FailureClass
<1>10. LeaseStep => \/ Quiet \/ Moves
                   \/ \E g \in grants :
                        \/ RecordAdapterInvocation(g)
                        \/ \E at \in CallTimes : RenewLease(g, at) \/ MarkStageRunStarted(g, at)
  <2> SUFFICES ASSUME NEW g \in grants,
                      \/ RecordHandlerReceipt(g)
                      \/ \E at \in CallTimes :
                           \/ CompleteStageRun(g, at)
                           \/ WaitStageRunForHumanDecision(g, at)
                           \/ \E f \in HandlerFailures : FailStageRun(g, f, at)
                           \/ \E f \in FailureClass, approval \in BOOLEAN :
                                BlockStageRun(g, f, approval, at)
                           \/ \E f \in HandlerFailures, d \in RetryDelays :
                                ScheduleRetry(g, f, d, at)
               PROVE  Quiet \/ Moves
    BY <1>9 DEF LeaseStep
  <2> QED
    BY <1>3, LeaseHolderMoves, ScheduleRetryMoves
<1>11. QueueStep => \/ Moves
                   \/ \E r \in Runs, o \in Owners, at \in CallTimes :
                        ClaimNextQueuedRun(r, o, at)
  BY <1>2 DEF QueueStep
<1> HIDE DEF Moves
<1>12. \/ Quiet \/ Moves
       \/ \E r \in Runs, o \in Owners, at \in CallTimes : ClaimNextQueuedRun(r, o, at)
       \/ \E g \in grants :
            \/ RecordAdapterInvocation(g)
            \/ \E at \in CallTimes : RenewLease(g, at) \/ MarkStageRunStarted(g, at)
  BY <1>1, <1>4, <1>5, <1>6, <1>7, <1>8, <1>10, <1>11 DEF Next
<1> QED
  BY <1>12 DEF Moves

\* Every call of the ledger keeps the invariant.
LEMMA StepLedgerInv == TypeOK /\ LedgerInv /\ [Next]_vars => LedgerInv'
<1> SUFFICES ASSUME TypeOK, LedgerInv, [Next]_vars PROVE LedgerInv'
  OBVIOUS
<1>1. TypeOK'
  BY StepTypeOK
<1>2. Quiet => LedgerInv'
  BY <1>1, QuietStep DEF Quiet
<1> QED
  BY <1>2, StepKinds, RowMovesStep, ClaimStep, RenewStep, MarkStartedStep,
     RecordInvocationStep

\* Leases, histories of starts and the claims workers remember agree with the
\* rows in every reachable state.
THEOREM LedgerInvariant == Spec => []LedgerInv
BY InitTypeOK, InitLedgerInv, StepTypeOK, StepLedgerInv, PTL DEF Spec

-----------------------------------------------------------------------------
(* The properties                                                          *)

\* Lease columns are set exactly on attempts in a leased status.
THEOREM LeasesMatchStatuses == Spec => []LeaseIffActive
<1>1. LedgerInv => LeaseIffActive
  BY DEF LedgerInv
<1> QED BY <1>1, LedgerInvariant, PTL

\* An attempt on offer shows no sign of a start.
THEOREM QueuedIsUntouchedAlways == Spec => []QueuedIsUntouched
<1>1. LedgerInv => QueuedIsUntouched
  BY DEF LedgerInv, StartHistory, QueuedIsUntouched
<1> QED BY <1>1, LedgerInvariant, PTL

\* A started attempt is settled by the claim that started it.
THEOREM StarterSettlesAlways == Spec => []StarterSettles
<1>1. LedgerInv => StarterSettles
  BY DEF LedgerInv
<1> QED BY <1>1, LedgerInvariant, PTL

\* Leases on one attempt never overlap in time.
THEOREM LeasesAreExclusive == Spec => []LeasesDoNotOverlap
<1>1. LedgerInv => LeasesDoNotOverlap
  BY DEF LedgerInv
<1> QED BY <1>1, LedgerInvariant, PTL

\* An execution that was cut off waits for a person.
THEOREM CutOffWaitsForApproval == Spec => []CutOffNeedsApproval
<1>1. LedgerInv => CutOffNeedsApproval
  BY DEF LedgerInv
<1> QED BY <1>1, LedgerInvariant, PTL

\* What each step does to the status and the starts of one attempt.
LEMMA StatusSteps ==
    ASSUME TypeOK, LedgerInv, [Next]_vars, NEW r \in Runs
    PROVE  \/ run'[r].status = run[r].status /\ starts'[r] = starts[r]
           \/ RowMoves(r) /\ starts'[r] = starts[r]
           \/ /\ run[r].status = "queued" /\ run'[r].status = "claimed"
              /\ starts'[r] = starts[r]
           \/ /\ run[r].status = "claimed" /\ run'[r].status = "started"
              /\ starts'[r] = starts[r] + 1
<1>1. CASE Quiet
  BY <1>1 DEF Quiet
<1>2. CASE ClaimsKept /\ \A q \in Runs : RowMoves(q)
  BY <1>2 DEF ClaimsKept
<1>3. ASSUME NEW q \in Runs, NEW o \in Owners, NEW at \in CallTimes,
             ClaimNextQueuedRun(q, o, at)
      PROVE  /\ starts' = starts
             /\ \/ run'[r].status = run[r].status
                \/ run[r].status = "queued" /\ run'[r].status = "claimed"
  <2>1. CASE r = q
    BY <1>3, <2>1 DEF ClaimNextQueuedRun, TypeOK, Row, history
  <2>2. CASE r # q
    BY <1>3, <2>2 DEF ClaimNextQueuedRun, TypeOK, history
  <2> QED BY <2>1, <2>2
<1>4. ASSUME NEW g \in grants, NEW at \in CallTimes, RenewLease(g, at)
      PROVE  run'[r].status = run[r].status /\ starts' = starts
  <2>1. g.run \in Runs
    BY DEF TypeOK, Grant
  <2> QED
    BY <1>4, <2>1 DEF RenewLease, TypeOK, Row, history
<1>5. ASSUME NEW g \in grants, RecordAdapterInvocation(g)
      PROVE  run'[r].status = run[r].status /\ starts' = starts
  BY <1>5 DEF RecordAdapterInvocation, history
<1>6. ASSUME NEW g \in grants, NEW at \in CallTimes, MarkStageRunStarted(g, at)
      PROVE  \/ run'[r].status = run[r].status /\ starts'[r] = starts[r]
             \/ /\ run[r].status = "claimed" /\ run'[r].status = "started"
                /\ starts'[r] = starts[r] + 1
  <2>1. g.run \in Runs /\ run[g.run].status = "claimed"
    BY <1>6 DEF TypeOK, Grant, MarkStageRunStarted, Authorises
  <2>2. CASE r = g.run
    BY <1>6, <2>1, <2>2 DEF MarkStageRunStarted, TypeOK, Row
  <2>3. CASE r # g.run
    BY <1>6, <2>1, <2>3 DEF MarkStageRunStarted, TypeOK
  <2> QED BY <2>2, <2>3
<1> QED
  BY <1>1, <1>2, <1>3, <1>4, <1>5, <1>6, StepKinds

\* A settled attempt keeps its verdict; only a published and undecided gate
\* attempt returns from blocked to waiting.
THEOREM SettledIsFinal == Spec => SettledRunsAreFinal
<1>1. ASSUME TypeOK, LedgerInv, [Next]_vars, NEW r \in Runs,
             run[r].status \in Settled, run'[r].status # run[r].status
      PROVE  /\ run[r].status = "blocked" /\ run'[r].status = "waiting_on_human"
             /\ r \in published \ decided
  <2>1. RowMoves(r) /\ ~Stays(r)
    BY <1>1, StatusSteps DEF Settled, Stays
  <2>2. <<run[r].status, run'[r].status>> \in StatusMoves
    BY <2>1 DEF RowMoves
  <2>3. run[r].status = "blocked" /\ run'[r].status = "waiting_on_human"
    BY <1>1, <2>2, MoveFacts DEF Settled
  <2> QED
    BY <2>1, <2>3 DEF RowMoves
<1>2. TypeOK /\ LedgerInv /\ [Next]_vars =>
        [\A r \in Runs :
           run[r].status \in {"succeeded", "failed", "invalid_output", "blocked",
                              "superseded"} /\ run'[r].status # run[r].status
           => /\ run[r].status = "blocked" /\ run'[r].status = "waiting_on_human"
              /\ r \in published \ decided]_vars
  BY <1>1 DEF Settled
<1> QED
  BY <1>2, LedgerTypeCorrect, LedgerInvariant, PTL DEF Spec, SettledRunsAreFinal

-----------------------------------------------------------------------------
(* The ledger implements StageExecution                                    *)

\* The phases of an attempt follow its status ...
LEMMA PhaseIsPhase == \A status : PhaseOf(status) \in Execution!Phase
BY DEF PhaseOf, Execution!Phase

\* ... and a status move is a move of the phase, or leaves it alone.
LEMMA PhaseMoves ==
    ASSUME NEW from, NEW to, <<from, to>> \in StatusMoves
    PROVE  /\ \/ PhaseOf(from) = PhaseOf(to)
              \/ <<PhaseOf(from), PhaseOf(to)>> \in Execution!Moves
           /\ PhaseOf(to) # "executing"
<1>1. PhaseOf(to) # "executing"
  BY MoveFacts DEF PhaseOf
<1>2. CASE from = "absent"
  BY <1>2, MoveFacts DEF PhaseOf, Execution!Moves
<1>3. CASE from = "queued"
  BY <1>3, MoveFacts DEF PhaseOf, Execution!Moves
<1>4. CASE from = "claimed"
  BY <1>4, MoveFacts DEF PhaseOf, Settled, Execution!Moves
<1>5. CASE from = "started"
  BY <1>5, MoveFacts DEF PhaseOf, Settled, Execution!Moves
<1>6. CASE from = "waiting_on_human"
  BY <1>6, MoveFacts DEF PhaseOf, Execution!Moves
<1>7. CASE from = "blocked"
  BY <1>7, MoveFacts DEF PhaseOf, Execution!Moves
<1> QED
  BY <1>1, <1>2, <1>3, <1>4, <1>5, <1>6, <1>7, MoveFacts

\* The empty ledger is an initial state of StageExecution.
LEMMA InitRefines == Init => Execution!Init
<1> SUFFICES ASSUME Init PROVE Execution!Init
  OBVIOUS
<1>1. \A r \in Runs : PhaseOf(run[r].status) = "none"
  BY DEF Init, AbsentRow, PhaseOf
<1> QED
  BY <1>1 DEF Init, Execution!Init

\* Every call of the ledger is a step of StageExecution, or none of its business.
LEMMA StepRefines ==
    ASSUME TypeOK, LedgerInv, LedgerInv', [Next]_vars
    PROVE  Execution!Next
<1> DEFINE before == [r \in Runs |-> PhaseOf(run[r].status)]
           after  == [r \in Runs |-> PhaseOf(run'[r].status)]
<1>1. after \in [Runs -> Execution!Phase]
  BY PhaseIsPhase
<1>2. starts' \in [Runs -> 0..1]
  <2>1. \A r \in Runs : starts'[r] \in {0, 1}
    BY DEF LedgerInv, StartHistory
  <2>2. starts' \in [Runs -> Nat]
    BY StepTypeOK DEF TypeOK
  <2> QED BY <2>1, <2>2
<1>3. ASSUME NEW r \in Runs
      PROVE  \/ after[r] = before[r] /\ starts'[r] = starts[r]
             \/ /\ <<before[r], after[r]>> \in Execution!Moves
                /\ starts'[r] = IF after[r] = "executing"
                                THEN starts[r] + 1 ELSE starts[r]
  <2>0. before[r] = PhaseOf(run[r].status) /\ after[r] = PhaseOf(run'[r].status)
    OBVIOUS
  <2> HIDE DEF before, after
  <2>1. CASE run'[r].status = run[r].status /\ starts'[r] = starts[r]
    BY <2>0, <2>1
  <2>2. CASE RowMoves(r) /\ ~Stays(r) /\ starts'[r] = starts[r]
    <3>1. <<run[r].status, run'[r].status>> \in StatusMoves
      BY <2>2 DEF RowMoves
    <3> QED
      BY <2>0, <2>2, <3>1, PhaseMoves
  <2>3. CASE /\ run[r].status = "queued" /\ run'[r].status = "claimed"
             /\ starts'[r] = starts[r]
    BY <2>0, <2>3 DEF PhaseOf
  <2>4. CASE /\ run[r].status = "claimed" /\ run'[r].status = "started"
             /\ starts'[r] = starts[r] + 1
    BY <2>0, <2>4 DEF PhaseOf, Execution!Moves
  <2> QED
    BY <2>1, <2>2, <2>3, <2>4, StatusSteps DEF Stays
<1> QED
  BY <1>1, <1>2, <1>3 DEF Execution!Next, Execution!Moved

\* The ledger executes an attempt at most once and keeps its successes: it
\* implements StageExecution.
THEOREM ImplementsStageExecution == Spec => AtMostOnceExecution
<1>1. TypeOK /\ LedgerInv /\ LedgerInv' /\ [Next]_vars =>
        [Execution!Next]_<<[r \in Runs |-> PhaseOf(run[r].status)], starts>>
  BY StepRefines
<1> QED
  BY <1>1, InitRefines, LedgerTypeCorrect, LedgerInvariant, PTL
     DEF Spec, AtMostOnceExecution, Execution!Spec
=============================================================================
