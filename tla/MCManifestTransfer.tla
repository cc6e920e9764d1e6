------------------------- MODULE MCManifestTransfer -------------------------
EXTENDS ManifestTransfer, TLC

\* Three members over five chunks: the first window crosses members, and with
\* the second member verified the windows leave the cadence and meet it again.
ThreeMembers == <<1, 2, 3, 3, 3>>
=============================================================================
