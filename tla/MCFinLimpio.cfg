SPECIFICATION FairSpec
CONSTANTS
    Conexiones = {x1, x2, x3}
    Descriptores = 3
INVARIANTS FinLimpio
CHECK_DEADLOCK FALSE
