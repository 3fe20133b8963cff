--------------------------- MODULE MCMetricsEndpoint ---------------------------
(* Small instances of ReplayBuffer and MetricsEndpoint for TLC. *)
EXTENDS MetricsEndpoint, TLC

\* One address in two spellings and another one.
Spelt == "0xAaa" :> "0xaaa" @@ "0xaaa" :> "0xaaa" @@ "0xbbb" :> "0xbbb"

SmallRings == {0, 2, 3}

Make(outcome, borrower, profit, latency) ==
  [outcome |-> outcome, borrower |-> borrower, profit |-> profit, latency_ms |-> latency]

FourEvents == { Make("Success", "0xAaa", 2, 1), Make("Success", "0xbbb", 1, 5),
                Make("SimFailed", "0xaaa", 2, 0), Make("Pending", "none", 0, 3) }
=============================================================================
