SPECIFICATION Spec
CONSTANTS
    aapl = aapl
    p1 = p1
    p2 = p2
    Symbols = {aapl}
    Policies = {p1, p2}
    LiveCredentials = TRUE
    OrderSubmission = TRUE
    Faults = {"subscribe", "store", "ack", "replica", "crash"}
    MaxVersion = 3
SYMMETRY PolicySymmetry
   
PROPERTIES KeepsRegister
