------------------------------ MODULE Servicio ------------------------------
(***************************************************************************)
(* The state and the operations of the messaging service:                  *)
(* src/src/servicio_mensajes.c over the list of users of                   *)
(* src/src/usuarios.c.  mutex_servicio is held from the first to the last  *)
(* access of every servicio_* function, so each function is one atomic     *)
(* action.  A function that changes the tables is an action with its       *)
(* result code as last parameter; one that only reads them is an           *)
(* expression.                                                             *)
(***************************************************************************)
EXTENDS Mensajes, FiniteSets

CONSTANTS
    Usuarios,     \* the names that clients may use
    Ips, Puertos, \* addresses clients connect from, ports they listen on
    SinDir,       \* no address: the empty ip and puerto of a disconnected user
    ModId,        \* ultimo_id is an unsigned int: 2^32 in the code
    FallaMalloc,  \* whether malloc may return NULL
    Adjuntos,     \* the values of tiene_adjunto that clients ask for
    MaxMensajes,  \* bound of the exploration: messages created
    MaxAltas      \* bound of the exploration: registrations of one name

(* Where a client listens.  The component alta is history: which           *)
(* registration of the user the CONNECT that gave the address belongs to.  *)
Direcciones == [ip : Ips, puerto : Puertos, alta : Nat]

ASSUME ServicioAssumption ==
    /\ ModId \in Nat /\ ModId > 1
    /\ MaxMensajes \in Nat /\ MaxAltas \in Nat
    /\ FallaMalloc \in BOOLEAN /\ Adjuntos \subseteq BOOLEAN
    /\ SinDir \notin Direcciones

VARIABLES
    registrado,  \* the names in the list usuarios
    conectado, dir, ultimo_id, pendientes,   \* the fields of usuario_t
    \* History, which no operation reads:
    alta,        \* how many times each name has been registered
    serie,       \* how many messages were created
    aceptados    \* the messages answered with SVC_OK

tablas == <<registrado, conectado, dir, ultimo_id, pendientes>>
historia == <<alta, serie, aceptados>>
varsServicio == <<tablas, historia>>

Codigos == {"SVC_OK", "SVC_USER_EXISTS", "SVC_USER_NOT_FOUND",
            "SVC_ALREADY_CONNECTED", "SVC_NOT_CONNECTED", "SVC_ERROR"}

servicio_init ==
    /\ registrado = [u \in Usuarios |-> FALSE]
    /\ conectado = [u \in Usuarios |-> FALSE]
    /\ dir = [u \in Usuarios |-> SinDir]
    /\ ultimo_id = [u \in Usuarios |-> 0]
    /\ pendientes = [u \in Usuarios |-> <<>>]
    /\ alta = [u \in Usuarios |-> 0]
    /\ serie = 0
    /\ aceptados = {}

(* Every node and every pending message is freed; the history remains.     *)
servicio_destroy ==
    /\ registrado' = [u \in Usuarios |-> FALSE]
    /\ conectado' = [u \in Usuarios |-> FALSE]
    /\ dir' = [u \in Usuarios |-> SinDir]
    /\ ultimo_id' = [u \in Usuarios |-> 0]
    /\ pendientes' = [u \in Usuarios |-> <<>>]
    /\ UNCHANGED historia
-----------------------------------------------------------------------------
(* The bugs seeded in this module and in the others, each next to the      *)
(* definition that it changes, serve to see that the properties notice it. *)

(* The list of users.  A name that is not in it has the fields of a node   *)
(* that does not exist at their initial values, which nothing reads.       *)
buscar_usuario(u) == registrado[u]

HayPendientes(u) == buscar_usuario(u) /\ pendientes[u] # <<>>

(* Seeded bug: the pending messages survive the node.                      *)
NodoConPendientes(u) ==
    /\ conectado' = [conectado EXCEPT ![u] = FALSE]
    /\ dir' = [dir EXCEPT ![u] = SinDir]
    /\ ultimo_id' = [ultimo_id EXCEPT ![u] = 0]
    /\ UNCHANGED pendientes

NodoInicial(u) ==
    /\ conectado' = [conectado EXCEPT ![u] = FALSE]
    /\ dir' = [dir EXCEPT ![u] = SinDir]
    /\ ultimo_id' = [ultimo_id EXCEPT ![u] = 0]
    /\ pendientes' = [pendientes EXCEPT ![u] = <<>>]

insertar_usuario(u) ==
    /\ ~buscar_usuario(u)
    /\ registrado' = [registrado EXCEPT ![u] = TRUE]
    /\ NodoInicial(u)

(* liberar_mensajes frees the pending messages with the node.              *)
eliminar_usuario(u) ==
    /\ registrado' = [registrado EXCEPT ![u] = FALSE]
    /\ NodoInicial(u)

marcar_conectado(u, d) ==
    /\ conectado' = [conectado EXCEPT ![u] = TRUE]
    /\ dir' = [dir EXCEPT ![u] = d]
    /\ UNCHANGED <<registrado, ultimo_id, pendientes>>

(* Seeded bug: ip and puerto are not emptied.                              *)
DesconectadoConDir(u) ==
    /\ conectado' = [conectado EXCEPT ![u] = FALSE]
    /\ UNCHANGED <<dir, registrado, ultimo_id, pendientes>>

marcar_desconectado(u) ==
    /\ conectado' = [conectado EXCEPT ![u] = FALSE]
    /\ dir' = [dir EXCEPT ![u] = SinDir]
    /\ UNCHANGED <<registrado, ultimo_id, pendientes>>
-----------------------------------------------------------------------------
servicio_register(u, ret) ==
    \/ /\ buscar_usuario(u)
       /\ ret = "SVC_USER_EXISTS"
       /\ UNCHANGED varsServicio
    \/ /\ ~buscar_usuario(u) /\ FallaMalloc
       /\ ret = "SVC_ERROR"
       /\ UNCHANGED varsServicio
    \/ /\ alta[u] < MaxAltas
       /\ insertar_usuario(u)
       /\ ret = "SVC_OK"
       /\ alta' = [alta EXCEPT ![u] = @ + 1]
       /\ UNCHANGED <<serie, aceptados>>

servicio_unregister(u, ret) ==
    \/ /\ ~buscar_usuario(u)
       /\ ret = "SVC_USER_NOT_FOUND"
       /\ UNCHANGED varsServicio
    \/ /\ buscar_usuario(u)
       /\ eliminar_usuario(u)
       /\ ret = "SVC_OK"
       /\ UNCHANGED historia

servicio_connect(u, ip, puerto, ret) ==
    \/ /\ ~buscar_usuario(u)
       /\ ret = "SVC_USER_NOT_FOUND"
       /\ UNCHANGED varsServicio
    \/ /\ buscar_usuario(u) /\ conectado[u]
       /\ ret = "SVC_ALREADY_CONNECTED"
       /\ UNCHANGED varsServicio
    \/ /\ buscar_usuario(u) /\ ~conectado[u]
       /\ marcar_conectado(u, [ip |-> ip, puerto |-> puerto, alta |-> alta[u]])
       /\ ret = "SVC_OK"
       /\ UNCHANGED historia

(* The session ends only at the request of the address that opened it.     *)
servicio_disconnect(u, client_ip, ret) ==
    \/ /\ ~buscar_usuario(u)
       /\ ret = "SVC_USER_NOT_FOUND"
       /\ UNCHANGED varsServicio
    \/ /\ buscar_usuario(u) /\ ~conectado[u]
       /\ ret = "SVC_NOT_CONNECTED"
       /\ UNCHANGED varsServicio
    \/ /\ buscar_usuario(u) /\ conectado[u]
       /\ dir[u].ip # client_ip
       /\ ret = "SVC_ERROR"
       /\ UNCHANGED varsServicio
    \/ /\ buscar_usuario(u) /\ conectado[u]
       /\ dir[u].ip = client_ip
       /\ marcar_desconectado(u)
       /\ ret = "SVC_OK"
       /\ UNCHANGED historia

(* Seeded bug: the numbers start again one too early.                      *)
SiguienteIdCorto(n) == IF n + 2 < ModId THEN n + 1 ELSE 1

(* Seeded bug: ultimo_id may stay at 0.                                    *)
SiguienteIdConCero(n) == IF n + 1 < ModId THEN n + 1 ELSE 0

(* ultimo_id++ on an unsigned int: n + 1 modulo ModId, and 1 for 0.        *)
SiguienteId(n) == IF n + 1 < ModId THEN n + 1 ELSE 1

(* The message that a send accepted in the current state creates.          *)
MensajeNuevo(remitente, destinatario, tiene_adjunto) ==
    crear_mensaje(SiguienteId(ultimo_id[remitente]), remitente, destinatario,
                  serie + 1, tiene_adjunto, alta[destinatario],
                  alta[remitente], conectado[destinatario])

(* What servicio_send and servicio_sendattach do, line by line the same.   *)
(* A malloc that fails has already used up the number.                     *)
Aceptar(remitente, destinatario, tiene_adjunto, ret) ==
    \/ /\ ~buscar_usuario(remitente) \/ ~buscar_usuario(destinatario)
       /\ ret = "SVC_USER_NOT_FOUND"
       /\ UNCHANGED varsServicio
    \/ /\ buscar_usuario(remitente) /\ buscar_usuario(destinatario)
       /\ serie < MaxMensajes
       /\ LET msg == MensajeNuevo(remitente, destinatario, tiene_adjunto)
          IN  /\ ultimo_id' = [ultimo_id EXCEPT ![remitente] = msg.id]
              /\ serie' = msg.texto
              /\ \/ /\ FallaMalloc
                    /\ ret = "SVC_ERROR"
                    /\ UNCHANGED <<pendientes, aceptados>>
                 \/ /\ ret = "SVC_OK"
                    /\ pendientes' = [pendientes EXCEPT ![destinatario] =
                                        agregar_mensaje(@, msg)]
                    /\ aceptados' = aceptados \cup {msg}
       /\ UNCHANGED <<registrado, conectado, dir, alta>>

servicio_send(remitente, destinatario, ret) ==
    Aceptar(remitente, destinatario, FALSE, ret)

servicio_sendattach(remitente, destinatario, ret) ==
    Aceptar(remitente, destinatario, TRUE, ret)

(* The addresses of the connected users, for one of them; an empty list    *)
(* stands for the output parameters that the errors leave unset.           *)
servicio_users(solicitante, ret, lista) ==
    \/ /\ ~buscar_usuario(solicitante)
       /\ ret = "SVC_ERROR" /\ lista = {}
    \/ /\ buscar_usuario(solicitante) /\ ~conectado[solicitante]
       /\ ret = "SVC_NOT_CONNECTED" /\ lista = {}
    \/ /\ buscar_usuario(solicitante) /\ conectado[solicitante]
       /\ FallaMalloc
       /\ ret = "SVC_ERROR" /\ lista = {}
    \/ /\ buscar_usuario(solicitante) /\ conectado[solicitante]
       /\ ret = "SVC_OK"
       /\ lista = {[nombre |-> u, dir |-> dir[u]] :
                      u \in {v \in Usuarios : conectado[v]}}

(* Seeded bug: a delivered message is kept.                                *)
NoEliminar(destinatario, msg_id, remitente) == UNCHANGED varsServicio

servicio_eliminar_pendiente(destinatario, msg_id, remitente) ==
    /\ pendientes' = IF buscar_usuario(destinatario)
                     THEN [pendientes EXCEPT ![destinatario] =
                             eliminar_mensaje_por_id_y_remitente(
                                 @, msg_id, remitente)]
                     ELSE pendientes
    /\ UNCHANGED <<registrado, conectado, dir, ultimo_id, historia>>

(* Seeded bug: the node of a user that cannot be reached starts again,     *)
(* without its pending messages.                                           *)
ForzarVaciando(u) ==
    /\ \/ buscar_usuario(u) /\ NodoInicial(u) /\ UNCHANGED registrado
       \/ ~buscar_usuario(u) /\ UNCHANGED tablas
    /\ UNCHANGED historia

(* Seeded bug: a delivery that failed leaves the recipient connected.      *)
NoForzar(u) == UNCHANGED varsServicio

(* No address is checked: whoever is connected by now is disconnected.     *)
servicio_marcar_desconectado_forzado(u) ==
    /\ \/ buscar_usuario(u) /\ marcar_desconectado(u)
       \/ ~buscar_usuario(u) /\ UNCHANGED tablas
    /\ UNCHANGED historia

(* An unknown user (existe is FALSE, the result -1) leaves the output      *)
(* parameters of the caller as they were.                                  *)
servicio_get_info_conexion(u) ==
    [existe |-> buscar_usuario(u), conectado |-> conectado[u], dir |-> dir[u]]

(* The first pending message; -1 in the code is ~HayPendientes(u).         *)
servicio_obtener_primer_pendiente(u) == Head(pendientes[u])
=============================================================================
