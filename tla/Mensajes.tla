------------------------------ MODULE Mensajes ------------------------------
(***************************************************************************)
(* The message node and the singly linked list of pending messages of      *)
(* src/src/mensajes.c.  A list is a sequence; the texts, the attachment's   *)
(* name and the memory management of the nodes are abstracted: `texto' is  *)
(* a number that tells one accepted message from every other one.          *)
(***************************************************************************)
EXTENDS Naturals, Sequences, SequencesExt

(* The node mensaje_t.  The last three components are history: the number  *)
(* of the registration of the recipient (alta_dest) and of the sender      *)
(* (alta_rem) that the message was accepted under, and whether the         *)
(* recipient was connected at that moment (vivo: a live delivery).         *)
crear_mensaje(id, remitente, destinatario, texto, tiene_adjunto, alta_dest, alta_rem, vivo) ==
    [id |-> id, remitente |-> remitente, destinatario |-> destinatario,
     texto |-> texto, tiene_adjunto |-> tiene_adjunto,
     alta_dest |-> alta_dest, alta_rem |-> alta_rem, vivo |-> vivo]

(* Seeded bug: insertion at the head, as insertar_usuario does.            *)
AgregarAlPrincipio(lista, msg) == <<msg>> \o lista

(* A new message goes to the end, so that the list keeps arrival order.    *)
agregar_mensaje(lista, msg) == Append(lista, msg)

(* Seeded bug: the name of the sender is not compared.                     *)
CoincideSoloId(m, id, remitente) == m.id = id

(* The test of the search loop: the number and the sender's name, and      *)
(* nothing else, tell which node is removed.                               *)
Coincide(m, id, remitente) == m.id = id /\ m.remitente = remitente

(* The first node that matches is unlinked; none, and the list stays.      *)
eliminar_mensaje_por_id_y_remitente(lista, id, remitente) ==
    RemoveFirstMatch(lista, LAMBDA m : Coincide(m, id, remitente))
=============================================================================
