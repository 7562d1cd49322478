SPECIFICATION Spec
CONSTANTS
    NumJobs = 2
    BatchOf <- OneAndOne
    Tabs <- TwoTabs
    Owner <- OneOfEach
    Limit = 1
PROPERTIES
    OverwriteAnsweredForBatch
CHECK_DEADLOCK FALSE
