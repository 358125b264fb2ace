SPECIFICATION Spec
CONSTANTS
    Usuarios = {u1, u2}
    Ips = {ip1}
    Puertos = {p1}
    SinDir = SinDir
    ModId = 100
    FallaMalloc = FALSE
    Adjuntos = {FALSE}
    MaxMensajes = 2
    MaxAltas = 2
    Hilos = {t1, t2}
    NoHilo = NoHilo
    SinMsg = SinMsg
    MaxCaidas = 0
SYMMETRY SimetriaTotal
INVARIANTS AckAlRemitente
