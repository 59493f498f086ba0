----------------------------- MODULE MCHumanGate -----------------------------
(* Small instances of a review gate for TLC: one gate stage, at most two    *)
(* attempts of it, and jobs that publish, ingest, or do both.               *)
EXTENDS HumanGateInvariant, TLC

CONSTANTS gate, w1, c1, c2, approve, reject

GateOnly == {gate}
GateFamily == (gate :> "surface")
GateRoutes == (gate :> {"done"})

BothDoBoth     == (c1 :> {"publish", "ingest"}) @@ (c2 :> {"publish", "ingest"})
PublishThenAsk == (c1 :> {"publish"}) @@ (c2 :> {"ingest"})
OneDoesBoth    == (c1 :> {"publish", "ingest"})

=============================================================================
