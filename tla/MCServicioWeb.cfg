SPECIFICATION Spec
CONSTANTS
    Letras = {a, b}
    Espacio = esp
    Blancos = {tab}
    MaxLargo = 5
INVARIANTS FormaNormal PalabrasIntactas
CHECK_DEADLOCK FALSE
