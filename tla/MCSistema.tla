----------------------------- MODULE MCSistema -----------------------------
(* Model-checking instances of Sistema. *)
EXTENDS Sistema, TLC

CONSTANT OrdenesDeTodos  \* the commands of every client

LosMismos == [c \in Clientes |-> OrdenesDeTodos]

TodasLasIps == [c \in Clientes |-> Ips]
=============================================================================
