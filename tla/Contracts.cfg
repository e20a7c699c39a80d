CONSTANTS
    n1 = n1
    n2 = n2
    n3 = n3
    n4 = n4
    Nodes = {n1, n2, n3, n4}
    None = None
    CenterBytes = 1280
    Machine <- MCMachine
    Policy <- MCPolicy
    Configs <- MCConfigs
    Dataset <- MCDataset
SPECIFICATION ContractsSpec
INVARIANT QueuedWorkIsCovered
CHECK_DEADLOCK FALSE
