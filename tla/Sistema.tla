------------------------------ MODULE Sistema ------------------------------
(***************************************************************************)
(* The server and its clients: the answers that Cliente leaves open are    *)
(* those of the handlers of Servidor, the deliveries that Servidor lets    *)
(* succeed or fail are connections to the listening sockets of the         *)
(* clients, and what a client displays is what a thread of the server      *)
(* wrote.                                                                  *)
(***************************************************************************)
EXTENDS Garantias

CONSTANTS
    Clientes, Mandatos, Cola, Nada,
    Maquina,   \* the addresses of the machine on which each client runs
    RedFalla,  \* whether connections may fail for no reason of the program's
    Muertes    \* whether clients may die

ASSUME SistemaAssumption ==
    /\ Maquina \in [Clientes -> SUBSET Ips]
    /\ RedFalla \in BOOLEAN /\ Muertes \in BOOLEAN
    /\ Nada \notin Usuarios \cup Puertos \cup Clientes

VARIABLES usuario, escucha, cache, shell, dueno, receptor, bandeja, mostrados, confirmados

C == INSTANCE Cliente WITH Cartas <- Mensaje

varsSistema == <<vars, C!vars>>

InitSistema == Init /\ C!Init
-----------------------------------------------------------------------------
(* Bounds of the exploration: a command is not given if the message or the *)
(* registration that it asks for is beyond MaxMensajes or MaxAltas.        *)
EnCurso(ordenes, u) ==
    Cardinality({c \in Clientes : shell[c].orden \in ordenes /\ shell[c].sobre \in u})

Cabria(c) ==
    /\ shell'[c].orden \in {"SEND", "SENDATTACH"} =>
          serie + EnCurso({"SEND", "SENDATTACH"}, Usuarios) < MaxMensajes
    /\ shell'[c].orden = "REGISTER" =>
          LET u == shell'[c].sobre
          IN  alta[u] + EnCurso({"REGISTER"}, {u}) < MaxAltas

Manda(c) ==
    /\ \E orden \in Mandatos[c] : C!Manda(c, orden)
    /\ Cabria(c)
    /\ UNCHANGED vars

(* The request of a client that waits for its answer.                      *)
Pidiendo(c, orden) == shell[c].fase = "pide" /\ shell[c].orden = orden

(* What the client makes of a result code: success, or a failure; also the *)
(* reply may not arrive.                                                   *)
Llegada(ret) == {ret = "SVC_OK"} \cup (IF RedFalla THEN {FALSE} ELSE {})

(* handle_client: the handler of the operation, with the address that the  *)
(* client's connection came from.                                          *)
Despacha(c, ret) ==
    LET u == shell[c].sobre
    IN  \/ Pidiendo(c, "REGISTER") /\ HandleRegister(u, ret)
        \/ Pidiendo(c, "UNREGISTER") /\ HandleUnregister(u, ret)
        \/ /\ Pidiendo(c, "DISCONNECT") \/ Pidiendo(c, "QUIT")
           /\ \E ip \in Maquina[c] : HandleDisconnect(u, ip, ret)
        \/ \E t \in Hilos :
            \/ /\ Pidiendo(c, "CONNECT")
               /\ \E ip \in Maquina[c] : HandleConnect(t, u, ip, escucha[c], ret)
            \/ Pidiendo(c, "SEND") /\ HandleSend(t, usuario[c], u, ret)
            \/ Pidiendo(c, "SENDATTACH") /\ HandleSendattach(t, usuario[c], u, ret)

Sirve(c) ==
    \E ret \in Codigos, ok \in BOOLEAN :
        /\ ok \in Llegada(ret)
        /\ Despacha(c, ret)
        /\ C!Contesta(c, ok, {})

SirveUsers(c) ==
    /\ Pidiendo(c, "USERS") \/ Pidiendo(c, "GETFILE")
    /\ LET lista == {[nombre |-> u, dir |-> dir[u]] : u \in {v \in Usuarios : conectado[v]}}
           entradas == {[nombre |-> e.nombre, puerto |-> e.dir.puerto] : e \in lista}
       IN  \E ret \in Codigos, ok \in BOOLEAN :
            /\ ok \in Llegada(ret)
            /\ HandleUsers(usuario[c], ret, IF ret = "SVC_OK" THEN lista ELSE {})
            /\ C!Contesta(c, ok, entradas)

(* The connection fails before the server has read the request.            *)
FallaPeticion(c) ==
    /\ RedFalla
    /\ C!Contesta(c, FALSE, {})
    /\ UNCHANGED vars
-----------------------------------------------------------------------------
Escrito(tipo, puerto, msg) == C!Entra(puerto, [tipo |-> tipo, carta |-> msg])

EntregaACliente(t) ==
    /\ Entrega(t)
    /\ Escrito("SEND MESSAGE", hilo[t].dir.puerto, hilo[t].msg)

(* The client's socket is gone, or the network fails, perhaps after a part *)
(* of the message was written.                                             *)
FallaEntregaACliente(t) ==
    /\ FallaEntrega(t)
    /\ \/ /\ RedFalla \/ ~C!Cabe(hilo[t].dir.puerto)
          /\ C!Quieto
       \/ /\ RedFalla
          /\ Escrito("cortada", hilo[t].dir.puerto, Nada)

AckACliente(t) ==
    \/ /\ EnviaAck(t, TRUE)
       /\ Escrito("SEND MESS ACK", hilo[t].rem.puerto, hilo[t].msg)
    \/ /\ EnviaAck(t, FALSE)
       /\ RedFalla \/ ~C!Cabe(hilo[t].rem.puerto)
       /\ C!Quieto

PasoInterno(t) ==
    /\ \/ ConsultaConexion(t) \/ SiguientePendiente(t) \/ BorraPendiente(t)
       \/ BuscaRemitente(t) \/ FuerzaDesconexion(t)
    /\ C!Quieto

PasoServidor(t) ==
    EntregaACliente(t) \/ FallaEntregaACliente(t) \/ AckACliente(t) \/ PasoInterno(t)

CaidaServidor == Caida /\ C!Quieto

PasoCliente(c) == C!Sigue(c) /\ UNCHANGED vars

PasoReceptor(p) == C!Recibe(p) /\ UNCHANGED vars

MuereCliente(c) == Muertes /\ C!Muere(c) /\ UNCHANGED vars

NextSistema ==
    \/ \E c \in Clientes :
        \/ Manda(c) \/ Sirve(c) \/ SirveUsers(c) \/ FallaPeticion(c)
        \/ PasoCliente(c) \/ MuereCliente(c)
    \/ \E t \in Hilos : PasoServidor(t)
    \/ \E p \in Puertos : PasoReceptor(p)
    \/ CaidaServidor

SpecSistema == InitSistema /\ [][NextSistema]_varsSistema

(* The threads of both sides run and the server answers who asks; nobody   *)
(* is obliged to give a command.                                           *)
FairSistema ==
    /\ SpecSistema
    /\ \A c \in Clientes :
        /\ WF_varsSistema(PasoCliente(c))
        /\ WF_varsSistema(Sirve(c) \/ SirveUsers(c) \/ FallaPeticion(c))
    /\ \A t \in Hilos : WF_varsSistema(PasoServidor(t))
    /\ \A p \in Puertos : WF_varsSistema(PasoReceptor(p))
-----------------------------------------------------------------------------
Mostrado(m) == \E e \in mostrados : e.carta = m

(* A message that the server wrote whole to a socket is displayed there or *)
(* on its way to the screen, as long as the client has not closed that     *)
(* socket, however many receivers share it (server.c:399-412,              *)
(* client.py:182-241).                                                     *)
EscritoLlega ==
    \A e \in entregados :
        LET p == e.dir.puerto
        IN  C!Abierto(p) =>
                C!EnCamino(p, e.msg) \/ [puerto |-> p, carta |-> e.msg] \in mostrados

(* The server never takes a listener for the session of a user that its    *)
(* client does not hold between commands, though replies get lost, clients *)
(* die and the server forgets: a message would be shown to whoever uses    *)
(* that client next (client.py:279-299, :363-395).                         *)
SesionSuya ==
    \A c \in Clientes, u \in Usuarios :
        /\ C!Libre(c) /\ escucha[c] # Nada
        /\ conectado[u] /\ dir[u].puerto = escucha[c]
        => usuario[c] = u

(* The addresses that the server has in its tables, in the local variables *)
(* of a delivery, of the recipient's listener or the sender's, or on       *)
(* record.                                                                 *)
EnUso ==
    {dir[u] : u \in {v \in Usuarios : conectado[v]}}
    \cup {hilo[t].dir : t \in {s \in Hilos : pc[s] # "libre" /\ hilo[s].dir # SinDir}}
    \cup {hilo[t].rem : t \in {s \in Hilos : pc[s] = "envia"}}
    \cup {e.dir : e \in entregados}

(* The session that the server has at the listener of c is that of the     *)
(* CONNECT that c waits for, which the server has answered, or that of the *)
(* user of c.                                                              *)
Concuerda(c, u) ==
    escucha[c] # Nada /\ conectado[u] /\ dir[u].puerto = escucha[c] =>
        IF C!Abriendo(c)
        THEN shell[c].fase = "recibe" /\ shell[c].sobre = u
        ELSE usuario[c] = u

(* At every point of every command, not only between them, server and      *)
(* client agree on whose the listener is, and the server knows no port     *)
(* that a client has not got: a new listener has nobody else's messages    *)
(* coming (client.py:266-299, server.c:291-306).                           *)
Acuerdo ==
    /\ \A d \in EnUso : dueno[d.puerto] # Nada
    /\ \A c \in Clientes, u \in Usuarios : Concuerda(c, u)

(* A client that holds the session of u: the server will look for it there.*)
EnSesion(u) ==
    \E c \in Clientes :
        /\ usuario[c] = u /\ C!Libre(c)
        /\ conectado[u] /\ dir[u].puerto = escucha[c]

(* m went to a socket that its client closed later.                        *)
Abandonado(m) == \E e \in entregados : e.msg = m /\ ~C!Abierto(e.dir.puerto)

(* Where an accepted message is, at every moment from the answer to the    *)
(* SEND on: on the screen, lost with a socket that its client closed, on   *)
(* its way to the screen, or in the list of its recipient; and there it    *)
(* does not stay alone while the server has a session of that user open,   *)
(* whatever fails (server.c:313-320, :399-420, :461; client.py:182-241).   *)
Paradero ==
    \A m \in aceptados :
        Vigente(m) /\ ~Colisiona(m) =>
            \/ Mostrado(m) \/ Abandonado(m)
            \/ \E p \in Puertos : C!EnCamino(p, m)
            \/ /\ Pendiente(m)
               /\ conectado[m.destinatario] => \E t \in Hilos : Reparte(t, m)

(* From the sender's SEND to the recipient's screen: an accepted message   *)
(* is displayed, unless the session of its recipient ends first or another *)
(* one with its number interferes.  What a socket that was closed had not  *)
(* handed over is lost (server.c:389-417, client.py:182-241).              *)
SeMuestra ==
    \A u \in Usuarios, n \in 1..MaxMensajes :
        LET Falta == \E m \in aceptados :
                        /\ m.texto = n /\ m.destinatario = u
                        /\ Vigente(m) /\ ~Colisiona(m)
                        /\ ~Mostrado(m) /\ ~Abandonado(m)
        IN  Falta /\ EnSesion(u) ~> ~Falta \/ ~EnSesion(u)

(* A session of the server at a socket that no longer exists.              *)
Fantasma(u) == conectado[u] /\ ~C!Escuchando(dir[u].puerto)

(* A CONNECT whose reply was lost and a client that died leave the server  *)
(* with a session that refuses every other CONNECT of that user.  The next *)
(* message for it ends it, unless it still reaches an older socket         *)
(* (client.py:279, server.c:459-464).                                      *)
FantasmaCae ==
    \A u \in Usuarios, n \in 1..MaxMensajes :
        LET Espera == \E m \in ToSet(pendientes[u]) : m.texto = n /\ ~Transmitido(m)
        IN  Espera /\ Fantasma(u) ~> ~Espera \/ ~Fantasma(u)
-----------------------------------------------------------------------------
(* Claims of the repository that the program does not keep.                *)

(* client.py: _connected is true if a user is connected.  For the server   *)
(* too, between commands.                                                  *)
SesionAcordada ==
    \A c \in Clientes :
        C!Libre(c) /\ usuario[c] # Nada => conectado[usuario[c]]

(* client.py: the ACK confirms that the message was delivered to its       *)
(* recipient.                                                              *)
AckMostrado ==
    \A e \in confirmados :
        Mostrado(e.carta) \/ \E p \in Puertos : C!EnCamino(p, e.carta)

(* tests/run_tests.py: pending messages are delivered in arrival order.    *)
(* The server writes them in that order to one socket; a receiver that     *)
(* _stop_listener left behind may share it with the new one.               *)
OrdenEnPantalla ==
    [][\A m1, m2 \in aceptados :
         /\ m1.destinatario = m2.destinatario /\ m1.texto < m2.texto
         /\ ~m2.vivo
         /\ ~Mostrado(m2) /\ Mostrado(m2)'
         => Mostrado(m1)]_varsSistema
=============================================================================
