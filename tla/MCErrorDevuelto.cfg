SPECIFICATION FairSpec
CONSTANTS
    MaxOp = 3
    MaxTexto = 3
    MaxPuerto = 2
    Exceso = 1
    Nada = Nada
INVARIANTS ErrorDevuelto
CHECK_DEADLOCK FALSE
