--------------------------- MODULE MCWorkflowKernel ---------------------------
(* Small instances of the kernel for TLC: a draft stage whose review gate   *)
(* either finishes the workflow or sends it back.                           *)
EXTENDS WorkflowKernelInvariant, TLC

CONSTANTS draft, gate, w1, w2, c1

DraftAndGate == {draft, gate}
DraftFamily == (draft :> "runtime") @@ (gate :> "surface")
ReviewRoutes == (draft :> {gate}) @@ (gate :> {"done", draft})

DraftOnly == {draft}
DraftOnlyFamily == (draft :> "runtime")
DraftOnlyRoutes == (draft :> {"done"})

WorkerSymmetry == Permutations({w1, w2})
=============================================================================
