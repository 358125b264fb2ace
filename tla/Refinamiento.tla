---------------------------- MODULE Refinamiento ----------------------------
(***************************************************************************)
(* The server implements the mailbox of Buzon: the refinement mapping.     *)
(* The key by which eliminar_mensaje_por_id_y_remitente finds a message in *)
(* the list of its recipient is the pair of number and sender.  The number *)
(* that counts every message created names the messages.  A mailbox is     *)
(* open while its owner is registered; a disaster is the death of the      *)
(* process.                                                                *)
(***************************************************************************)
EXTENDS Garantias

FichaDe(m) ==
    [dueno |-> m.destinatario, clave |-> <<m.id, m.remitente>>,
     tanda |-> m.alta_dest, espera |-> ~m.vivo]

Numeros(mensajes) == {m.texto : m \in mensajes}

ConNumero(n) == CHOOSE m \in aceptados : m.texto = n

Fichero == [n \in Numeros(aceptados) |-> FichaDe(ConNumero(n))]

Retenidas == Numeros({m \in aceptados : Pendiente(m)})

Transmitidas == Numeros({e.msg : e \in entregados})

B == INSTANCE Buzon WITH
        Duenos <- Usuarios,
        Claves <- (1..(ModId - 1)) \X Usuarios,
        Cartas <- 1..MaxMensajes,
        abierto <- registrado, tanda <- alta, desastres <- caidas,
        ficha <- Fichero, retenidas <- Retenidas, transmitidas <- Transmitidas

(* The server is a mailbox that transmits every accepted message at least  *)
(* once.  A message leaves the list of its recipient only after it, or one *)
(* with its number and sender, was written whole to a client; or in the    *)
(* step that ends the recipient's registration; or in the one that ends    *)
(* the process.  No failed delivery, forced disconnection, new session or  *)
(* new registration takes any other.  Stored messages are transmitted in   *)
(* their order (server.c:316, :421, :461; servicio_mensajes.c:62, :175,    *)
(* :342).                                                                  *)
ImplementaBuzon == B!Spec
=============================================================================
