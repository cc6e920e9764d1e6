------------------------- MODULE MCVerificationRun -------------------------
EXTENDS VerificationRun, TLC

CONSTANTS s1, s2, c1

TwoStarters == {s1, s2}
OneClerk    == {c1}
=============================================================================
