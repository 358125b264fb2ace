SPECIFICATION FairSpec
CONSTANTS
    Clientes = {c1, c2}
    Ajeno = c2
    OrdenesPropias = {"REGISTER", "UNREGISTER", "CONNECT", "DISCONNECT", "USERS", "SEND", "SENDATTACH", "GETFILE", "QUIT"}
    OrdenesAjeno = {"CONNECT", "GETFILE"}
    Mandatos <- PorCliente
    Usuarios = {u1}
    Puertos = {p1, p2}
    Cartas = {}
    Cola = 1
    Nada = Nada
INVARIANTS TypeOK Sesiones SesionConReceptor
PROPERTIES OrdenTermina
