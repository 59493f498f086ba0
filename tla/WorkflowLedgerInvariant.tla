----------------------- MODULE WorkflowLedgerInvariant ------------------------
(***************************************************************************)
(* The inductive invariant behind the theorems of WorkflowLedgerProofs.    *)
(* LeaseIffActive says what one row looks like; the parts below tie a row  *)
(* to its history and to the claims its workers remember.                  *)
(***************************************************************************)
EXTENDS WorkflowLedger

\* An attempt begins at most once, by the claim it is started under, leaves
\* evidence, and is never offered or claimable afterwards.
StartHistory == \A r \in Runs :
    /\ starts[r] \in {0, 1}
    /\ starts[r] = 0 <=> starter[r] = 0
    /\ run[r].status \in {"absent", "queued"} => r \notin evidence
    /\ starts[r] = 1 => /\ run[r].status \notin {"absent", "queued", "claimed"}
                        /\ r \in evidence
    /\ run[r].status = "started" => starts[r] = 1 /\ starter[r] = run[r].token
    /\ closer[r] # 0 =>
         run[r].status \notin {"absent", "queued", "claimed", "started"}

\* A token is handed out once, and only for a row that exists.
TokensAreUnique == \A g \in grants :
    /\ g.token <= tokens
    /\ Present(g.run)
    /\ \A h \in grants : g.token = h.token => g = h

\* The lease on a row is a claim some worker remembers, and its latest one.
LeaseIsGranted == \A r \in Runs : run[r].token # 0 =>
    [run |-> r, owner |-> run[r].owner, token |-> run[r].token,
     expires |-> run[r].expires] \in grants

LatestClaimHolds == \A g \in grants :
    run[g.run].token # 0 => g.token <= run[g.run].token

\* A claim taken away by the sweep, so that its attempt may be claimed again,
\* had run out.
LostClaimsRanOut == \A g \in grants :
    \/ run[g.run].status = "queued"
    \/ run[g.run].token # 0 /\ run[g.run].token # g.token
    => g.expires <= now

\* The conjunction the proofs carry through every call of the ledger: leases,
\* history of starts, and remembered claims agree with the rows.
LedgerInv == /\ LeaseIffActive
             /\ StartHistory
             /\ StarterSettles
             /\ CutOffNeedsApproval
             /\ TokensAreUnique
             /\ LeaseIsGranted
             /\ LatestClaimHolds
             /\ LostClaimsRanOut
             /\ LeasesDoNotOverlap
=============================================================================
