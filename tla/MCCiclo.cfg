SPECIFICATION FairSpec
CONSTANTS
    Conexiones = {x1, x2, x3, x4}
    Descriptores = 2
INVARIANTS SinFugas FinOrdenado
PROPERTIES NoVuelve NadieEspera AcabaConOtro
CHECK_DEADLOCK FALSE
