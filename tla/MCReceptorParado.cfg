SPECIFICATION Spec
CONSTANTS
    Clientes = {c1}
    Usuarios = {u1}
    Puertos = {p1, p2, p3}
    Ajeno = Nada
    OrdenesPropias = {"REGISTER", "UNREGISTER", "CONNECT", "DISCONNECT", "USERS", "SEND", "SENDATTACH", "GETFILE", "QUIT"}
    OrdenesAjeno = {"REGISTER", "UNREGISTER", "CONNECT", "DISCONNECT", "USERS", "SEND", "SENDATTACH", "GETFILE", "QUIT"}
    Mandatos <- PorCliente
    Cartas = {}
    Cola = 1
    Nada = Nada
INVARIANTS ReceptorParado
