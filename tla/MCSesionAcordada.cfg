SPECIFICATION SpecSistema
CONSTANTS
    Usuarios = {u1}
    Ips = {ip1}
    Puertos = {p1, p2}
    SinDir = SinDir
    ModId = 100
    FallaMalloc = FALSE
    Adjuntos = {FALSE}
    MaxMensajes = 1
    MaxAltas = 1
    Hilos = {t1}
    NoHilo = NoHilo
    SinMsg = SinMsg
    MaxCaidas = 0
    Clientes = {c1}
    OrdenesDeTodos = {"REGISTER", "CONNECT", "SEND"}
    Mandatos <- LosMismos
    Cola = 5
    Nada = Nada
    Maquina <- TodasLasIps
    RedFalla = TRUE
    Muertes = FALSE
INVARIANTS SesionAcordada
CHECK_DEADLOCK FALSE
