SPECIFICATION SpecSistema
CONSTANTS
    Usuarios = {u1}
    Ips = {ip1}
    Puertos = {p1, p2}
    SinDir = SinDir
    ModId = 100
    FallaMalloc = FALSE
    Adjuntos = {FALSE, TRUE}
    MaxMensajes = 1
    MaxAltas = 1
    Hilos = {t1}
    NoHilo = NoHilo
    SinMsg = SinMsg
    MaxCaidas = 1
    Clientes = {c1}
    OrdenesDeTodos = {"REGISTER", "UNREGISTER", "CONNECT", "DISCONNECT", "USERS", "SEND", "SENDATTACH", "GETFILE", "QUIT"}
    Mandatos <- LosMismos
    Cola = 5
    Nada = Nada
    Maquina <- TodasLasIps
    RedFalla = TRUE
    Muertes = TRUE
INVARIANTS EscritoLlega SesionSuya Acuerdo Paradero
CHECK_DEADLOCK FALSE
