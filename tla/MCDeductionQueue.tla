-------------------------- MODULE MCDeductionQueue --------------------------
EXTENDS DeductionQueue, TLC

CONSTANTS k1, c1, c2

\* One key: the second report is the chat client's duplicate of the first.
OneKey == {k1}
DuplicateOf == (c1 :> k1) @@ (c2 :> k1)

TwoCalls == {c1, c2}
=============================================================================
