------------------------------ MODULE MCLedger -------------------------------
(* Ledger on small instances. *)
EXTENDS Ledger, FiniteSetsExt

\* A day's order book of one account: two prices within each other's band, so
\* far apart in divisors that every average of up to six shares is a whole number.
MCPrices == {600, 660}
MCQuantities == {1, 2}

\* Total, defined by counting for the proofs, is the sum.
ASSUME TotalIsTheSum ==
  \A f \in [1..3 -> 0..3] : Total(f) = MapThenSumSet(LAMBDA i : f[i], 1..3)
=============================================================================
