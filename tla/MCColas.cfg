SPECIFICATION FairSpec
CONSTANTS
    Usuarios = {u1}
    Ips = {ip1}
    Puertos = {p1}
    SinDir = SinDir
    ModId = 3
    FallaMalloc = TRUE
    Adjuntos = {FALSE}
    MaxMensajes = 3
    MaxAltas = 1
    Hilos = {t1, t2}
    NoHilo = NoHilo
    SinMsg = SinMsg
    MaxCaidas = 0
INVARIANTS Numeracion OrdenDeLlegada DrenaEnOrden ColisionAcotada
PROPERTIES EntregaEventual
