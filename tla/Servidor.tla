------------------------------ MODULE Servidor ------------------------------
(***************************************************************************)
(* The threads of src/src/server.c on top of the service: one detached     *)
(* thread per connection runs a handler, and the handlers of SEND,         *)
(* SENDATTACH and CONNECT go on, after they replied, to deliver messages   *)
(* over the network without holding mutex_servicio.                        *)
(*                                                                         *)
(* A handler's call to the service is one step; a delivery is a sequence   *)
(* of steps that interleave with every other thread, cut where the code    *)
(* takes or leaves the mutex or the network answers.                       *)
(***************************************************************************)
EXTENDS Servicio

CONSTANTS
    Hilos,      \* threads that may be delivering at the same time
    NoHilo,     \* the data of a thread that delivers nothing
    SinMsg,     \* pm_* before a message is copied into them
    MaxCaidas   \* bound of the exploration: deaths of the process

ASSUME ServidorAssumption ==
    /\ MaxCaidas \in Nat
    /\ NoHilo # SinMsg

VARIABLES
    pc,          \* where each thread is
    hilo,        \* the local variables of each thread: dir is where the
                 \* recipient listens, rem where the sender does (rem_ip and
                 \* rem_puerto); the component previo is history: the last
                 \* message this drain transmitted
    \* History:
    entregados,  \* what was written whole to a socket, and to which address
    acks,        \* the ACKs written, and to which address
    caidas       \* how many times the process died

red == <<entregados, acks, caidas>>
vars == <<varsServicio, pc, hilo, red>>

(* libre: no handler is running, or one that delivers nothing.             *)
(* consulta, bucle: the drain loop of handle_connect.                      *)
(* entrega, borra, ack, envia, fuerza: entregar_mensaje.                   *)
Puntos == {"libre", "consulta", "bucle", "entrega", "borra", "ack", "envia", "fuerza"}

Init ==
    /\ servicio_init
    /\ pc = [t \in Hilos |-> "libre"]
    /\ hilo = [t \in Hilos |-> NoHilo]
    /\ entregados = {} /\ acks = {} /\ caidas = 0

Salta(t, punto) == pc' = [pc EXCEPT ![t] = punto]

Lanza(t, punto, datos) ==
    /\ Salta(t, punto)
    /\ hilo' = [hilo EXCEPT ![t] = datos]

(* A handler goes on to deliver.                                           *)
Ocupa(t, punto, datos) == pc[t] = "libre" /\ Lanza(t, punto, datos)

Acaba(t) == Lanza(t, "libre", NoHilo)
-----------------------------------------------------------------------------
(* The handlers up to their reply, with the result code that decides it as *)
(* last parameter.  Only those that deliver afterwards occupy a thread of  *)
(* the model.                                                              *)
HandleRegister(u, ret) ==
    /\ servicio_register(u, ret)
    /\ UNCHANGED <<pc, hilo, red>>

HandleUnregister(u, ret) ==
    /\ servicio_unregister(u, ret)
    /\ UNCHANGED <<pc, hilo, red>>

HandleDisconnect(u, client_ip, ret) ==
    /\ servicio_disconnect(u, client_ip, ret)
    /\ UNCHANGED <<pc, hilo, red>>

(* After SVC_OK the thread goes on to the drain loop; pm_conectado is 0,   *)
(* which is the absence of an address, and pm_ip and pm_puerto are unset.  *)
HandleConnect(t, u, client_ip, puerto, ret) ==
    /\ servicio_connect(u, client_ip, puerto, ret)
    /\ IF ret = "SVC_OK"
       THEN Ocupa(t, "consulta", [usuario |-> u, msg |-> SinMsg, dir |-> SinDir,
                                  rem |-> SinDir, drena |-> TRUE, previo |-> 0])
       ELSE UNCHANGED <<pc, hilo>>
    /\ UNCHANGED red

(* Answers the list, and changes nothing: no disjunct of Next.             *)
HandleUsers(u, ret, lista) ==
    /\ servicio_users(u, ret, lista)
    /\ UNCHANGED vars

(* The address is the one copied under the mutex together with the         *)
(* insertion; a recipient that was not connected then is left to the drain *)
(* of its next CONNECT.                                                    *)
Responde(t, destinatario, msg, ret) ==
    IF ret = "SVC_OK" /\ conectado[destinatario]
    THEN Ocupa(t, "entrega", [usuario |-> destinatario, msg |-> msg,
                              dir |-> dir[destinatario], rem |-> SinDir,
                              drena |-> FALSE, previo |-> 0])
    ELSE UNCHANGED <<pc, hilo>>

HandleSend(t, remitente, destinatario, ret) ==
    /\ FALSE \in Adjuntos
    /\ servicio_send(remitente, destinatario, ret)
    /\ Responde(t, destinatario,
                MensajeNuevo(remitente, destinatario, FALSE), ret)
    /\ UNCHANGED red

HandleSendattach(t, remitente, destinatario, ret) ==
    /\ TRUE \in Adjuntos
    /\ servicio_sendattach(remitente, destinatario, ret)
    /\ Responde(t, destinatario,
                MensajeNuevo(remitente, destinatario, TRUE), ret)
    /\ UNCHANGED red
-----------------------------------------------------------------------------
(* servicio_get_info_conexion before the loop and after every delivery.  A *)
(* user that no longer exists leaves the previous answer in place.         *)
ConsultaConexion(t) ==
    /\ pc[t] = "consulta"
    /\ LET info == servicio_get_info_conexion(hilo[t].usuario)
           d == IF ~info.existe THEN hilo[t].dir
                ELSE IF info.conectado THEN info.dir ELSE SinDir
       IN  IF d = SinDir
           THEN Acaba(t)
           ELSE Lanza(t, "bucle", [hilo[t] EXCEPT !.dir = d])
    /\ UNCHANGED <<varsServicio, red>>

SiguientePendiente(t) ==
    /\ pc[t] = "bucle"
    /\ LET u == hilo[t].usuario
       IN  IF HayPendientes(u)
           THEN Lanza(t, "entrega", [hilo[t] EXCEPT !.msg =
                                       servicio_obtener_primer_pendiente(u)])
           ELSE Acaba(t)
    /\ UNCHANGED <<varsServicio, red>>

(* Seeded bug: the ACK is sent without removing the message.               *)
EntregaSinBorrar(t) ==
    /\ pc[t] = "entrega"
    /\ entregados' = entregados \cup {[msg |-> hilo[t].msg, dir |-> hilo[t].dir]}
    /\ Salta(t, "ack")
    /\ UNCHANGED <<varsServicio, hilo, acks, caidas>>

(* entregar_mensaje: connect and every send_string succeed.  The bytes are *)
(* in the hands of TCP; that the client read them is not known.            *)
Entrega(t) ==
    /\ pc[t] = "entrega"
    /\ entregados' = entregados \cup {[msg |-> hilo[t].msg, dir |-> hilo[t].dir]}
    /\ Salta(t, "borra")
    /\ UNCHANGED <<varsServicio, hilo, acks, caidas>>

(* getaddrinfo, socket, connect or a send_string fails.                    *)
FallaEntrega(t) ==
    /\ pc[t] = "entrega"
    /\ Salta(t, "fuerza")
    /\ UNCHANGED <<varsServicio, hilo, red>>

BorraPendiente(t) ==
    /\ pc[t] = "borra"
    /\ servicio_eliminar_pendiente(hilo[t].usuario, hilo[t].msg.id,
                                   hilo[t].msg.remitente)
    /\ Salta(t, "ack")
    /\ UNCHANGED <<hilo, red>>

(* Seeded bug: the first pending message is delivered, and no other.       *)
VuelveSinSeguir(t, previo) == Acaba(t)

(* The end of entregar_mensaje and of its local variables: back in the     *)
(* drain loop, or the thread ends.                                         *)
Vuelve(t, previo) ==
    IF hilo[t].drena
    THEN Lanza(t, "consulta", [hilo[t] EXCEPT !.msg = SinMsg, !.rem = SinDir,
                                              !.previo = previo])
    ELSE Acaba(t)

(* Seeded bug: the ACK goes back to the address of the delivery.           *)
BuscaSinConsultar(t) ==
    /\ pc[t] = "ack"
    /\ Lanza(t, "envia", [hilo[t] EXCEPT !.rem = hilo[t].dir])
    /\ UNCHANGED <<varsServicio, red>>

(* The sender is looked up by name, and where it listens is copied.        *)
BuscaRemitente(t) ==
    /\ pc[t] = "ack"
    /\ LET info == servicio_get_info_conexion(hilo[t].msg.remitente)
       IN  IF info.existe /\ info.conectado
           THEN Lanza(t, "envia", [hilo[t] EXCEPT !.rem = info.dir])
           ELSE Vuelve(t, hilo[t].msg.texto)
    /\ UNCHANGED <<varsServicio, red>>

(* Without the mutex: the sender may have left that address, or its name,  *)
(* in the meantime.  An ACK that cannot be sent is dropped.                *)
EnviaAck(t, escrito) ==
    /\ pc[t] = "envia"
    /\ acks' = IF escrito THEN acks \cup {[msg |-> hilo[t].msg, dir |-> hilo[t].rem]}
               ELSE acks
    /\ Vuelve(t, hilo[t].msg.texto)
    /\ UNCHANGED <<varsServicio, entregados, caidas>>

FuerzaDesconexion(t) ==
    /\ pc[t] = "fuerza"
    /\ servicio_marcar_desconectado_forzado(hilo[t].usuario)
    /\ Vuelve(t, hilo[t].previo)
    /\ UNCHANGED red
-----------------------------------------------------------------------------
(* The process ends and is started again: nothing is persisted.            *)
Muere ==
    /\ caidas < MaxCaidas
    /\ servicio_destroy
    /\ pc' = [t \in Hilos |-> "libre"]
    /\ hilo' = [t \in Hilos |-> NoHilo]
    /\ caidas' = caidas + 1
    /\ UNCHANGED <<entregados, acks>>

(* SIGPIPE is neither caught nor ignored and send_string passes no flags:  *)
(* a client that closes between two of the writes to it kills the server.  *)
SigpipeEnEntrega(t) == pc[t] = "entrega" /\ Muere

SigpipeEnAck(t) == pc[t] = "envia" /\ Muere

(* A SIGINT, or any other end of the process.                              *)
Reinicia == Muere
-----------------------------------------------------------------------------
Peticion ==
    \E u \in Usuarios, ret \in Codigos :
        \/ HandleRegister(u, ret)
        \/ HandleUnregister(u, ret)
        \/ \E ip \in Ips : HandleDisconnect(u, ip, ret)
        \/ \E t \in Hilos, ip \in Ips, puerto \in Puertos :
               HandleConnect(t, u, ip, puerto, ret)
        \/ \E t \in Hilos, v \in Usuarios :
               HandleSend(t, u, v, ret) \/ HandleSendattach(t, u, v, ret)

Paso(t) ==
    \/ ConsultaConexion(t)
    \/ SiguientePendiente(t)
    \/ Entrega(t)
    \/ FallaEntrega(t)
    \/ BorraPendiente(t)
    \/ BuscaRemitente(t)
    \/ \E escrito \in BOOLEAN : EnviaAck(t, escrito)
    \/ FuerzaDesconexion(t)

Caida == Reinicia \/ \E t \in Hilos : SigpipeEnEntrega(t) \/ SigpipeEnAck(t)

Next == Peticion \/ (\E t \in Hilos : Paso(t)) \/ Caida

Spec == Init /\ [][Next]_vars

(* Every thread has a processor sooner or later and every call to the      *)
(* network returns; nobody is obliged to make a request.                   *)
FairSpec == Spec /\ \A t \in Hilos : WF_vars(Paso(t))
=============================================================================
