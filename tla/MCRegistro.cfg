SPECIFICATION FairRPC
CONSTANTS
    Usuarios = {u1, u2}
    Ips = {ip1}
    Puertos = {p1}
    SinDir = SinDir
    ModId = 4
    FallaMalloc = FALSE
    Adjuntos = {FALSE}
    MaxMensajes = 0
    MaxAltas = 2
    Manejadores = {h1, h2}
    MaxReinicios = 1
INVARIANTS UnSitio UnaLinea LineaAntes
PROPERTIES OperaSinRegistro
CHECK_DEADLOCK FALSE
