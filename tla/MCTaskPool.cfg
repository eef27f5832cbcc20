SPECIFICATION Spec
CONSTANTS
    N = 3
    TaskCount = 2
    MaxBatch = 2
    Failing <- AnyFails
INVARIANTS TypeOK RunOnce DoneMeansFinished ExitHoldsMain
PROPERTIES Terminates ImplementsJobBatch
