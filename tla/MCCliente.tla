----------------------------- MODULE MCCliente -----------------------------
(* Model-checking instances of Cliente. *)
EXTENDS Cliente, TLC

CONSTANTS
    Ajeno,           \* a client with fewer commands than the others
    OrdenesPropias,  \* theirs
    OrdenesAjeno     \* its

PorCliente ==
    [c \in Clientes |-> IF c = Ajeno THEN OrdenesAjeno ELSE OrdenesPropias]
=============================================================================
