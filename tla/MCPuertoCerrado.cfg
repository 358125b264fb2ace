SPECIFICATION Spec
CONSTANTS
    Clientes = {c1, c2}
    Usuarios = {u1}
    Puertos = {p1, p2}
    Ajeno = c2
    OrdenesPropias = {"CONNECT", "DISCONNECT", "GETFILE"}
    OrdenesAjeno = {"CONNECT", "DISCONNECT", "GETFILE"}
    Mandatos <- PorCliente
    Cartas = {}
    Cola = 1
    Nada = Nada
PROPERTIES PuertoCerrado
