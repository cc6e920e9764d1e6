------------------------- MODULE MCDatasetLifecycle -------------------------
EXTENDS DatasetLifecycle, TLC

CONSTANTS d1, d2, d3, w1, w2, e1, e2

\* Uploads, of which the third is an import; or one upload, a batch of one.
Three == {d1, d2, d3}
One == {d1}
OneImported == {d3}
Nobody == {}

TwoWorkers == {w1, w2}
OneWorker == {w1}
TwoEditors == {e1, e2}
=============================================================================
