-------------------------- MODULE MCSerialLifecycle --------------------------
EXTENDS SerialLifecycle, TLC

CONSTANTS r1, r2, r3

\* Two data operations, which count on each other's failures, and a setup one.
ThreeRequests == {r1, r2, r3}
Categories == (r1 :> "data") @@ (r2 :> "data") @@ (r3 :> "setup")
=============================================================================
