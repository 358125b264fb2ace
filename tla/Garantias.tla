----------------------------- MODULE Garantias -----------------------------
(***************************************************************************)
(* What the server promises about the messages it accepts, stated over     *)
(* Servidor.                                                               *)
(***************************************************************************)
EXTENDS Servidor

Mensaje ==
    [id : 1..(ModId - 1), remitente : Usuarios, destinatario : Usuarios,
     texto : Nat \ {0}, tiene_adjunto : BOOLEAN,
     alta_dest : Nat, alta_rem : Nat, vivo : BOOLEAN]

Tarea ==
    [usuario : Usuarios, msg : Mensaje \cup {SinMsg},
     dir : Direcciones \cup {SinDir}, rem : Direcciones \cup {SinDir},
     drena : BOOLEAN, previo : Nat]

Envio == [msg : Mensaje, dir : Direcciones]

TipoServicio ==
    /\ registrado \in [Usuarios -> BOOLEAN]
    /\ conectado \in [Usuarios -> BOOLEAN]
    /\ dir \in [Usuarios -> Direcciones \cup {SinDir}]
    /\ ultimo_id \in [Usuarios -> 0..(ModId - 1)]
    /\ pendientes \in [Usuarios -> Seq(Mensaje)]
    /\ alta \in [Usuarios -> Nat] /\ serie \in Nat
    /\ aceptados \in SUBSET Mensaje
    /\ \A u \in Usuarios :
        /\ conectado[u] <=> dir[u] # SinDir
        /\ conectado[u] => registrado[u]
        /\ ~registrado[u] => pendientes[u] = <<>>

(* Where a thread has a message in its hands, and where it has removed it. *)
EnMano == {"entrega", "borra", "ack", "envia", "fuerza"}

Retirado == {"ack", "envia"}

(* What a thread has written in its local variables at each point.         *)
Locales(punto, datos) ==
    /\ punto # "libre" => datos \in Tarea
    /\ punto \in EnMano => datos.msg \in Mensaje /\ datos.dir \in Direcciones
    /\ punto = "bucle" => datos.dir \in Direcciones
    /\ punto = "envia" => datos.rem \in Direcciones
    /\ punto \in {"consulta", "bucle"} => datos.drena

TipoHilos ==
    /\ pc \in [Hilos -> Puntos]
    /\ hilo \in [Hilos -> Tarea \cup {NoHilo}]
    /\ \A t \in Hilos : Locales(pc[t], hilo[t])

TipoRed ==
    /\ entregados \in SUBSET Envio /\ acks \in SUBSET Envio
    /\ caidas \in Nat

(* Every variable has its type, and each point of a thread finds the local *)
(* variables that the code reads there already written: a message from     *)
(* entrega to envia and to fuerza, an address where it is used.            *)
TypeOK == TipoServicio /\ TipoHilos /\ TipoRed

(* The registration of the recipient that m was accepted under stands.     *)
Vigente(m) ==
    /\ registrado[m.destinatario]
    /\ alta[m.destinatario] = m.alta_dest

(* What eliminar_mensaje_por_id_y_remitente cannot tell apart from m.      *)
Colisiona(m) ==
    \E o \in aceptados :
        /\ o.texto # m.texto
        /\ o.id = m.id /\ o.remitente = m.remitente
        /\ o.destinatario = m.destinatario

Transmitido(m) == \E e \in entregados : e.msg = m

Pendiente(m) == m \in ToSet(pendientes[m.destinatario])

(* What a thread holds at each point is at most as recent as the tables: a *)
(* message it carries was accepted for the user it serves, the address was *)
(* copied no later, and BorraPendiente comes after the transmission.       *)
Copias(punto, datos) ==
    /\ punto # "libre" /\ datos.dir # SinDir =>
          datos.dir.alta <= alta[datos.usuario]
    /\ punto \in EnMano =>
          /\ datos.msg \in aceptados
          /\ datos.msg.destinatario = datos.usuario
          /\ datos.dir.alta <= datos.msg.alta_dest
    /\ punto \in {"borra"} \cup Retirado => Transmitido(datos.msg)

(* The history, the tables, and the copies that the threads took of them:  *)
(* no two messages are the same, a list holds accepted messages of the     *)
(* current registration of its owner, and a connection belongs to it       *)
(* (servicio_mensajes.c:175-189, :367-380).                                *)
CronoMensajes ==
    /\ \A m \in aceptados :
        m.texto <= serie /\ m.alta_dest <= alta[m.destinatario]
    /\ \A m, o \in aceptados : m.texto = o.texto => m = o
    /\ \A e \in entregados : e.msg \in aceptados

CronoTablas ==
    \A u \in Usuarios :
        /\ conectado[u] => dir[u].alta = alta[u]
        /\ \A m \in ToSet(pendientes[u]) :
            m \in aceptados /\ m.destinatario = u /\ m.alta_dest = alta[u]

CronoHilos == \A t \in Hilos : Copias(pc[t], hilo[t])

Cronologia == CronoMensajes /\ CronoTablas /\ CronoHilos

(* A list holds its messages in the order in which they were accepted.     *)
EnOrden(lista) ==
    \A i, j \in 1..Len(lista) : i < j => lista[i].texto < lista[j].texto

ListasEnOrden == \A u \in Usuarios : EnOrden(pendientes[u])

(* Where a thread is with respect to the messages of the list that it      *)
(* serves: all of them are newer than the last one it acknowledged, none   *)
(* is older than the one that a drain has in hand, and after the removal   *)
(* that one is behind.                                                     *)
Avance(punto, datos, lista) ==
    /\ \A m \in lista : datos.previo < m.texto
    /\ punto \in EnMano => datos.previo < datos.msg.texto
    /\ datos.drena /\ punto \in {"entrega", "borra"} =>
          \A m \in lista : datos.msg.texto <= m.texto
    /\ datos.drena /\ punto \in Retirado =>
          \A m \in lista : datos.msg.texto < m.texto

HilosAvanzan ==
    \A t \in Hilos :
        pc[t] # "libre" =>
            /\ hilo[t].previo <= serie
            /\ Avance(pc[t], hilo[t], ToSet(pendientes[hilo[t].usuario]))

(* Whoever arrived before m for the same registration went out, unless its *)
(* number was confused with another.                                       *)
Precedido(m) ==
    \A o \in aceptados :
        /\ o.destinatario = m.destinatario /\ o.alta_dest = m.alta_dest
        /\ o.texto < m.texto /\ ~Colisiona(o)
        => Transmitido(o)

HilosEnTurno ==
    \A t \in Hilos :
        pc[t] = "entrega" /\ ~hilo[t].msg.vivo => Precedido(hilo[t].msg)

HilosRetiran ==
    \A t \in Hilos :
        pc[t] \in Retirado /\ ~Colisiona(hilo[t].msg) => ~Pendiente(hilo[t].msg)

(* The lists keep the order of arrival, every drain goes through its list  *)
(* in that order though other threads insert and remove, and what a thread *)
(* has just removed is gone (mensajes.c:46-65, server.c:313-372, :421).    *)
Turnos == ListasEnOrden /\ HilosAvanzan /\ HilosEnTurno /\ HilosRetiran

(* How many numbers after a the number b comes; they go around from        *)
(* ModId - 1 to 1.                                                         *)
Distancia(a, b) == IF a <= b THEN b - a ELSE b + (ModId - 1) - a

(* Between a message and the present, its sender has used up no more       *)
(* numbers than messages were created, counting those that malloc refused: *)
(* the counter goes one by one, never stops at 0, and starts again only    *)
(* with the registration (servicio_mensajes.c:160-167, usuarios.c:42).     *)
Numeracion ==
    \A m \in aceptados :
        LET r == m.remitente
        IN  /\ m.alta_rem <= alta[r]
            /\ registrado[r] /\ m.alta_rem = alta[r] =>
                  /\ ultimo_id[r] # 0
                  /\ Distancia(m.id, ultimo_id[r]) <= serie - m.texto
-----------------------------------------------------------------------------
(* No loss: a message answered with OK is still pending or was written     *)
(* whole to a client, as long as its recipient keeps its registration and  *)
(* no other message carries the same number, sender and recipient.  It     *)
(* takes an insertion, a delivery without the mutex and a removal by       *)
(* number to break it (servicio_mensajes.c:175, :313; server.c:421).       *)
SinPerdida ==
    \A m \in aceptados :
        Vigente(m) /\ ~Colisiona(m) => Pendiente(m) \/ Transmitido(m)

Reparte(t, m) ==
    /\ pc[t] # "libre" /\ hilo[t].usuario = m.destinatario
    /\ \/ hilo[t].drena
       \/ pc[t] \in {"entrega", "borra", "fuerza"} /\ hilo[t].msg = m

(* No message is forgotten: while its recipient is connected, some thread  *)
(* is about to deliver it, to remove it or to disconnect the recipient,    *)
(* whatever disconnections, reconnections and failures of other deliveries *)
(* happened in between.  Nothing else would ever look at the list again    *)
(* before the next CONNECT (server.c:313-320, :518).                       *)
SinOlvidados ==
    \A m \in aceptados :
        Pendiente(m) /\ conectado[m.destinatario] /\ ~Colisiona(m) =>
            \E t \in Hilos : Reparte(t, m)

(* Arrival order: a message stored for a disconnected recipient is never   *)
(* transmitted before an earlier message of the same recipient (a live     *)
(* delivery may overtake stored ones, which is why m is a stored one).    *)
OrdenDeLlegada ==
    \A m \in aceptados : ~m.vivo /\ Transmitido(m) => Precedido(m)

(* One drain never goes back: each message that it sends is newer than the *)
(* last one it sent, so that it sends none twice, in spite of the threads  *)
(* that insert and remove in the same list between its calls.              *)
DrenaEnOrden ==
    \A t \in Hilos : pc[t] = "entrega" => hilo[t].previo < hilo[t].msg.texto

(* A name that is registered again does not inherit: no address given in a *)
(* registration receives a message accepted under an earlier one, though   *)
(* threads of the earlier one may still be running.                        *)
NoHereda == \A e \in entregados : e.dir.alta <= e.msg.alta_dest

(* An ACK is final: the message was transmitted, and no later session will *)
(* receive it from the list.                                               *)
AckDefinitivo ==
    \A a \in acks :
        /\ Transmitido(a.msg)
        /\ ~Colisiona(a.msg) => ~Pendiente(a.msg)

(* An ACK never goes back to an earlier owner of the sender's name: the    *)
(* address that gets it was given in the registration that sent the        *)
(* message or in a later one.  It is looked up by name when the delivery   *)
(* has ended, copied, and used when it may be stale, since the name may be *)
(* disconnected, unregistered and registered again at either point; but    *)
(* what a thread has copied is never older than its message                *)
(* (server.c:431, :437-454).                                               *)
AckNoRetrocede ==
    /\ \A t \in Hilos : pc[t] = "envia" => hilo[t].msg.alta_rem <= hilo[t].rem.alta
    /\ \A a \in acks : a.msg.alta_rem <= a.dir.alta

(* Two messages are confused only if the sender registered again between   *)
(* them or used up the whole range of an unsigned int: within one          *)
(* registration, at least ModId - 1 messages separate them.                *)
ColisionAcotada ==
    \A m, o \in aceptados :
        /\ o.texto > m.texto
        /\ o.id = m.id /\ o.remitente = m.remitente
        /\ o.alta_rem = m.alta_rem
        => o.texto - m.texto >= ModId - 1

(* A pending message of a connected user leaves the list, unless the user  *)
(* stops being connected or a message with the same number interferes.     *)
EntregaEventual ==
    \A u \in Usuarios, n \in 1..MaxMensajes :
        LET Espera == \E m \in ToSet(pendientes[u]) :
                          m.texto = n /\ ~Colisiona(m)
        IN  Espera /\ conectado[u] ~> ~Espera \/ ~conectado[u]
-----------------------------------------------------------------------------
(* Claims of the repository that the code does not keep.                   *)

(* tests/run_tests.py: pending messages are delivered without loss.  The   *)
(* numbers start again when the sender registers again.                    *)
NingunaPerdida ==
    \A m \in aceptados : Vigente(m) => Pendiente(m) \/ Transmitido(m)

(* tests/run_tests.py: a reconnection delivers each pending message once.  *)
EntregaUnica ==
    [][\A t \in Hilos :
         pc[t] = "entrega" /\ pc'[t] = "borra" /\ ~hilo[t].msg.vivo =>
            ~Transmitido(hilo[t].msg)]_vars

(* server.c: the drain goes on only while the user is still connected.     *)
SoloSiSigueConectado ==
    [][\A t \in Hilos :
         pc[t] = "consulta" /\ pc'[t] = "bucle" =>
            conectado[hilo[t].usuario]]_vars

(* server.c: a delivery that fails keeps the message pending.  A write to  *)
(* a client that closed is one of the ways in which it fails.              *)
FalloConserva ==
    [][\A t \in Hilos :
         FallaEntrega(t) \/ SigpipeEnEntrega(t) =>
            \A m \in aceptados :
                m = hilo[t].msg /\ Pendiente(m) => Pendiente(m)']_vars

(* server.c: the ACK goes to the sender, if it is still connected.         *)
AckAlRemitente == \A a \in acks : a.dir.alta = a.msg.alta_rem
=============================================================================
