SPECIFICATION Spec
CONSTANTS
    d1 = d1
    d2 = d2
    d3 = d3
    w1 = w1
    w2 = w2
    e1 = e1
    e2 = e2
    NoDataset = NoDataset
    Datasets <- One
    Imported <- Nobody
    Batch <- One
    Workers <- OneWorker
    Editors <- Nobody
    MaxCrashes = 0
CHECK_DEADLOCK FALSE
PROPERTIES
    DeletedStaysDeleted
