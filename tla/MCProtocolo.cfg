SPECIFICATION FairSpec
CONSTANTS
    MaxOp = 3
    MaxTexto = 3
    MaxPuerto = 2
    Exceso = 1
    Nada = Nada
INVARIANTS Alineada EjecucionFiel RespuestaSinCorte MuerteTrasExito
PROPERTIES ContestaOCierra
CHECK_DEADLOCK FALSE
