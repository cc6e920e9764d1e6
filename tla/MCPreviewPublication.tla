------------------------ MODULE MCPreviewPublication ------------------------
EXTENDS PreviewPublication, TLC

CONSTANTS a, b
TwoSelections == {a, b}
=============================================================================
