-------------------------------- MODULE Buzon --------------------------------
(***************************************************************************)
(* What the messaging service promises about the messages that it accepts, *)
(* without threads, sessions or addresses: a mailbox that transmits each   *)
(* message at least once.                                                  *)
(*                                                                         *)
(* An open mailbox keeps a message from its acceptance until it is         *)
(* withdrawn, which happens only after it was transmitted - or another one *)
(* with the same key was, since a mailbox tells its messages apart by      *)
(* their keys only.  Apart from that, messages go in two ways: with their  *)
(* mailbox, when it stops being open, and with every mailbox at once, in a *)
(* disaster, after which none is open.  Messages that had to wait are      *)
(* transmitted in their order.                                             *)
(***************************************************************************)
EXTENDS Naturals

CONSTANTS
    Duenos,  \* the owners of mailboxes
    Claves,  \* what tells two messages of one mailbox apart
    Cartas   \* the messages: natural numbers in the order of their acceptance

(* What is known of a message.  A mailbox may be closed and opened again:  *)
(* tanda says in which of its openings the message was accepted.  espera:  *)
(* the owner was not there then.                                           *)
Fichas == [dueno : Duenos, clave : Claves, tanda : Nat, espera : BOOLEAN]

VARIABLES
    abierto,      \* whether each owner has a mailbox
    tanda,        \* how many times it was opened
    desastres,    \* how many times everything was lost
    ficha,        \* a record for each accepted message
    retenidas,    \* the messages kept
    transmitidas  \* the messages transmitted at least once

apertura == <<abierto, tanda, desastres>>
cartas == <<ficha, retenidas, transmitidas>>
vars == <<apertura, cartas>>

Aceptadas == DOMAIN ficha

Init ==
    /\ abierto = [u \in Duenos |-> FALSE]
    /\ tanda = [u \in Duenos |-> 0]
    /\ desastres = 0
    /\ ficha = [n \in {} |-> n]
    /\ retenidas = {}
    /\ transmitidas = {}

(* Two messages that a mailbox cannot tell apart.                          *)
Gemelas(n, k) ==
    /\ ficha[n].dueno = ficha[k].dueno
    /\ ficha[n].clave = ficha[k].clave

Confusa(n) == \E k \in Aceptadas : k # n /\ Gemelas(n, k)

(* Those accepted before n in the same mailbox.                            *)
Anteriores(n) ==
    {k \in Aceptadas : /\ k < n
                       /\ ficha[k].dueno = ficha[n].dueno
                       /\ ficha[k].tanda = ficha[n].tanda}

EnTurno(n) ==
    ficha[n].espera =>
        \A k \in Anteriores(n) : k \in transmitidas \/ Confusa(k)
-----------------------------------------------------------------------------
Abre(u) ==
    /\ ~abierto[u]
    /\ abierto' = [abierto EXCEPT ![u] = TRUE]
    /\ tanda' = [tanda EXCEPT ![u] = @ + 1]
    /\ UNCHANGED <<desastres, cartas>>

(* Only an open mailbox takes messages, for the opening that it is in.     *)
Acepta(n) ==
    /\ \A k \in Aceptadas : k < n
    /\ Aceptadas' = Aceptadas \cup {n} /\ ficha'[n] \in Fichas
    /\ ficha' = [k \in Aceptadas \cup {n} |->
                    IF k = n THEN ficha'[n] ELSE ficha[k]]
    /\ LET u == ficha'[n].dueno IN abierto[u] /\ ficha'[n].tanda = tanda[u]
    /\ retenidas' = retenidas \cup {n}
    /\ UNCHANGED <<apertura, transmitidas>>

(* At least once: nothing keeps a message from being transmitted again,    *)
(* also after it was withdrawn.                                            *)
Transmite(n) ==
    /\ n \in Aceptadas /\ EnTurno(n)
    /\ transmitidas' = transmitidas \cup {n}
    /\ UNCHANGED <<apertura, ficha, retenidas>>

Retira(n) ==
    /\ n \in retenidas
    /\ \E k \in transmitidas : Gemelas(n, k)
    /\ retenidas' = retenidas \ {n}
    /\ UNCHANGED <<apertura, ficha, transmitidas>>

(* The messages of a mailbox go when it stops being open, and not before.  *)
Cierra(u) ==
    /\ abierto[u]
    /\ abierto' = [abierto EXCEPT ![u] = FALSE]
    /\ retenidas' = {n \in retenidas : ficha[n].dueno # u}
    /\ UNCHANGED <<tanda, desastres, ficha, transmitidas>>

(* Nothing survives a disaster, no mailbox either.                         *)
PierdeTodo ==
    /\ desastres' = desastres + 1
    /\ abierto' = [u \in Duenos |-> FALSE]
    /\ retenidas' = {}
    /\ UNCHANGED <<tanda, ficha, transmitidas>>

Next ==
    \/ \E n \in Cartas : Acepta(n) \/ Transmite(n) \/ Retira(n)
    \/ \E u \in Duenos : Abre(u) \/ Cierra(u)
    \/ PierdeTodo

Spec == Init /\ [][Next]_vars
=============================================================================
