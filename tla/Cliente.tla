------------------------------ MODULE Cliente ------------------------------
(***************************************************************************)
(* The client src/client.py: a process with two kinds of threads, the      *)
(* shell, which runs one command at a time, and the receivers, one per     *)
(* listening socket that a CONNECT opened.  _listener_running and          *)
(* _listener_socket are set and unset together, and so are _connected and  *)
(* _current_user: one variable stands for each pair.                       *)
(*                                                                         *)
(* A command that is refused at once, a text that the web service does not *)
(* normalise and a socket that cannot be opened change nothing, and are no *)
(* steps.  What the server answers and who connects to a listening socket  *)
(* is the environment's: any answer and any connection.                    *)
(***************************************************************************)
EXTENDS Naturals, Sequences, FiniteSets

CONSTANTS
    Clientes,  \* the processes that run client.py
    Usuarios,  \* the names that their shells may be given
    Puertos,   \* what bind(('', 0)) may give; never twice the same port
    Mandatos,  \* the commands that each shell is given
    Cartas,    \* the messages that may arrive
    Cola,      \* the connections that wait to be accepted: 5 in listen(5)
    Nada       \* Python's None

ASSUME ClienteAssumption == Nada \notin Usuarios \cup Puertos \cup Clientes

VARIABLES
    usuario,     \* _current_user
    escucha,     \* the port of _listener_socket
    cache,       \* _connected_users_cache: the port of each name
    shell,       \* what the shell is doing
    dueno,       \* the client that got a port from bind
    receptor,    \* the thread that was started with the socket of a port
    bandeja,     \* the connections that wait at the socket of a port
    \* History:
    mostrados,   \* the messages displayed, with the port they came to
    confirmados  \* the ACKs displayed

proceso == <<usuario, escucha, cache, shell>>
enchufes == <<dueno, receptor, bandeja>>
pantalla == <<mostrados, confirmados>>
vars == <<proceso, enchufes, pantalla>>

Tipos == {"SEND MESSAGE", "SEND MESS ACK", "GET FILE", "cortada"}

(* carta: what it is about; a GET FILE names the client that asks.         *)
Conexion == [tipo : Tipos, carta : Cartas \cup Clientes \cup {Nada}]

EnReposo == [orden |-> "ninguna", fase |-> "libre", sobre |-> Nada, ok |-> FALSE]
SinHilo == [fase |-> "no", puerto |-> Nada, conn |-> Nada]

Init ==
    /\ usuario = [c \in Clientes |-> Nada]
    /\ escucha = [c \in Clientes |-> Nada]
    /\ cache = [c \in Clientes |-> [u \in Usuarios |-> Nada]]
    /\ shell = [c \in Clientes |-> EnReposo]
    /\ dueno = [p \in Puertos |-> Nada]
    /\ receptor = [p \in Puertos |-> SinHilo]
    /\ bandeja = [p \in Puertos |-> <<>>]
    /\ mostrados = {} /\ confirmados = {}

Libre(c) == shell[c].fase = "libre"

Bloqueados(p) == {q \in Puertos : receptor[q].fase = "accept" /\ receptor[q].puerto = p}

Abierto(p) == \E c \in Clientes : escucha[c] = p

(* close() does not wake a thread that is inside accept(), and the kernel  *)
(* keeps the socket listening until that call returns.                     *)
Escuchando(p) == Abierto(p) \/ Bloqueados(p) # {}

Cabe(p) == Escuchando(p) /\ Len(bandeja[p]) < Cola

Llega(p, conn) ==
    /\ Cabe(p)
    /\ bandeja' = [bandeja EXCEPT ![p] = Append(@, conn)]
-----------------------------------------------------------------------------
(* The commands: what the shell does until it waits for somebody.          *)
Pide(c, orden, u) ==
    shell' = [shell EXCEPT ![c] = [orden |-> orden, fase |-> "pide",
                                   sobre |-> u, ok |-> FALSE]]

Descansa(c) == shell' = [shell EXCEPT ![c] = EnReposo]

register(c, u) ==
    /\ Libre(c) /\ Pide(c, "REGISTER", u)
    /\ UNCHANGED <<usuario, escucha, cache, enchufes, pantalla>>

unregister(c, u) ==
    /\ Libre(c) /\ Pide(c, "UNREGISTER", u)
    /\ UNCHANGED <<usuario, escucha, cache, enchufes, pantalla>>

(* The receiver runs before the server knows of the port.                  *)
connect(c, u, p) ==
    /\ Libre(c) /\ usuario[c] = Nada
    /\ dueno[p] = Nada
    /\ dueno' = [dueno EXCEPT ![p] = c]
    /\ escucha' = [escucha EXCEPT ![c] = p]
    /\ receptor' = [receptor EXCEPT ![p] = [SinHilo EXCEPT !.fase = "while"]]
    /\ Pide(c, "CONNECT", u)
    /\ UNCHANGED <<usuario, cache, bandeja, pantalla>>

(* Seeded bug: the user is forgotten before the server answers.            *)
OlvidaAntes(c, u) ==
    /\ Libre(c) /\ Pide(c, "DISCONNECT", u)
    /\ usuario' = [usuario EXCEPT ![c] = Nada]
    /\ UNCHANGED <<escucha, cache, enchufes, pantalla>>

(* Whatever user it is asked to disconnect.                                *)
disconnect(c, u) ==
    /\ Libre(c) /\ Pide(c, "DISCONNECT", u)
    /\ UNCHANGED <<usuario, escucha, cache, enchufes, pantalla>>

users(c) ==
    /\ Libre(c) /\ usuario[c] # Nada
    /\ Pide(c, "USERS", usuario[c])
    /\ UNCHANGED <<usuario, escucha, cache, enchufes, pantalla>>

send(c, u) ==
    /\ Libre(c) /\ usuario[c] # Nada
    /\ Pide(c, "SEND", u)
    /\ UNCHANGED <<usuario, escucha, cache, enchufes, pantalla>>

sendAttach(c, u) ==
    /\ Libre(c) /\ usuario[c] # Nada
    /\ Pide(c, "SENDATTACH", u)
    /\ UNCHANGED <<usuario, escucha, cache, enchufes, pantalla>>

(* The connection to the receiver of a cached user; refused, or given up   *)
(* by the kernel because the queue is full, GETFILE fails.                 *)
PideFichero(c, p) ==
    IF Cabe(p)
    THEN /\ Llega(p, [tipo |-> "GET FILE", carta |-> c])
         /\ shell' = [shell EXCEPT ![c] = [orden |-> "GETFILE", fase |-> "fichero",
                                           sobre |-> p, ok |-> FALSE]]
    ELSE Descansa(c) /\ UNCHANGED bandeja

(* A cached address is used as it is; users is called for a missing one.   *)
getfile(c, u) ==
    /\ Libre(c) /\ usuario[c] # Nada
    /\ IF cache[c][u] # Nada
       THEN PideFichero(c, cache[c][u])
       ELSE Pide(c, "GETFILE", u) /\ UNCHANGED bandeja
    /\ UNCHANGED <<usuario, escucha, cache, dueno, receptor, pantalla>>

(* The process ends, with all of its threads and sockets.                  *)
Termina(c) ==
    /\ usuario' = [usuario EXCEPT ![c] = Nada]
    /\ escucha' = [escucha EXCEPT ![c] = Nada]
    /\ cache' = [cache EXCEPT ![c] = [u \in Usuarios |-> Nada]]
    /\ Descansa(c)
    /\ receptor' = [p \in Puertos |-> IF dueno[p] = c
                                      THEN [SinHilo EXCEPT !.fase = "fin"]
                                      ELSE receptor[p]]
    /\ bandeja' = [p \in Puertos |-> IF dueno[p] = c THEN <<>> ELSE bandeja[p]]
    /\ UNCHANGED <<dueno, pantalla>>

quit(c) ==
    /\ Libre(c)
    /\ IF usuario[c] # Nada
       THEN /\ Pide(c, "QUIT", usuario[c])
            /\ UNCHANGED <<usuario, escucha, cache, enchufes, pantalla>>
       ELSE Termina(c)

Manda(c, orden) ==
    \E u \in Usuarios :
        \/ orden = "REGISTER" /\ register(c, u)
        \/ orden = "UNREGISTER" /\ unregister(c, u)
        \/ orden = "CONNECT" /\ \E p \in Puertos : connect(c, u, p)
        \/ orden = "DISCONNECT" /\ disconnect(c, u)
        \/ orden = "USERS" /\ users(c)
        \/ orden = "SEND" /\ send(c, u)
        \/ orden = "SENDATTACH" /\ sendAttach(c, u)
        \/ orden = "GETFILE" /\ getfile(c, u)
        \/ orden = "QUIT" /\ quit(c)
-----------------------------------------------------------------------------
(* The answer to the shell's request; ok is code 0, and FALSE is any other *)
(* code, a reply that does not arrive or a connection that fails.  lista   *)
(* is what USERS answers: sets of a name and the port of its listener.     *)
Contesta(c, ok, lista) ==
    /\ shell[c].fase = "pide"
    /\ shell' = [shell EXCEPT ![c].fase = "recibe", ![c].ok = ok]
    /\ cache' = [cache EXCEPT ![c] =
                   IF ok /\ shell[c].orden \in {"USERS", "GETFILE"}
                   THEN [u \in Usuarios |->
                           IF \E e \in lista : e.nombre = u
                           THEN (CHOOSE e \in lista : e.nombre = u).puerto
                           ELSE cache[c][u]]
                   ELSE cache[c]]
    /\ UNCHANGED <<usuario, escucha, enchufes, pantalla>>

Acaba(c) == Descansa(c) /\ UNCHANGED <<usuario, escucha, enchufes>>

(* Seeded bug: the connections that waited are not reset.                  *)
CierraSinVaciar(c) ==
    /\ escucha' = [escucha EXCEPT ![c] = Nada]
    /\ shell' = [shell EXCEPT ![c].fase = "join"]
    /\ UNCHANGED <<usuario, enchufes>>

(* _stop_listener up to the join.  Nobody inside accept() on the socket:   *)
(* it is gone, and the connections that waited are reset.                  *)
_stop_listener(c) ==
    /\ escucha' = [escucha EXCEPT ![c] = Nada]
    /\ bandeja' = [p \in Puertos |-> IF p = escucha[c] /\ Bloqueados(p) = {}
                                     THEN <<>> ELSE bandeja[p]]
    /\ shell' = [shell EXCEPT ![c].fase = "join"]
    /\ UNCHANGED <<usuario, dueno, receptor>>

(* Seeded bug: a CONNECT that fails leaves the listener open.              *)
DejaEscuchando(c) ==
    /\ shell[c].fase = "recibe" /\ shell[c].orden = "CONNECT"
    /\ usuario' = IF shell[c].ok THEN [usuario EXCEPT ![c] = shell[c].sobre] ELSE usuario
    /\ Descansa(c)
    /\ UNCHANGED <<escucha, cache, enchufes, pantalla>>

(* The rest of the command once the answer is there.                       *)
RecibeConnect(c) ==
    /\ shell[c].fase = "recibe" /\ shell[c].orden = "CONNECT"
    /\ IF shell[c].ok
       THEN /\ usuario' = [usuario EXCEPT ![c] = shell[c].sobre]
            /\ Descansa(c)
            /\ UNCHANGED <<escucha, enchufes>>
       ELSE _stop_listener(c)
    /\ UNCHANGED <<cache, pantalla>>

RecibeDisconnect(c) ==
    /\ shell[c].fase = "recibe" /\ shell[c].orden \in {"DISCONNECT", "QUIT"}
    /\ _stop_listener(c)
    /\ UNCHANGED <<cache, pantalla>>

RecibeGetfile(c) ==
    /\ shell[c].fase = "recibe" /\ shell[c].orden = "GETFILE"
    /\ IF cache[c][shell[c].sobre] # Nada
       THEN PideFichero(c, cache[c][shell[c].sobre])
       ELSE Descansa(c) /\ UNCHANGED bandeja
    /\ UNCHANGED <<usuario, escucha, cache, dueno, receptor, pantalla>>

RecibeOtra(c) ==
    /\ shell[c].fase = "recibe"
    /\ shell[c].orden \in {"REGISTER", "UNREGISTER", "SEND", "SENDATTACH", "USERS"}
    /\ Acaba(c)
    /\ UNCHANGED <<cache, pantalla>>

(* Seeded bug: join without timeout.                                       *)
JoinSinLimite(c) == \A p \in Puertos : dueno[p] = c => receptor[p].fase # "accept"

(* join(timeout=2.0) returns when the receiver ended, or when it did not.  *)
JoinVuelve(c) == TRUE

FinDeJoin(c) ==
    /\ shell[c].fase = "join" /\ JoinVuelve(c)
    /\ IF shell[c].orden = "QUIT"
       THEN Termina(c)
       ELSE /\ usuario' = [usuario EXCEPT ![c] = Nada]
            /\ Descansa(c)
            /\ UNCHANGED <<escucha, cache, enchufes, pantalla>>

(* The connection of a GETFILE is closed before it was served.             *)
FicheroCortado(c) ==
    /\ shell[c].fase = "fichero"
    /\ ~\E p \in Puertos :
          LET esta == [tipo |-> "GET FILE", carta |-> c]
          IN  receptor[p].conn = esta \/ \E i \in DOMAIN bandeja[p] : bandeja[p][i] = esta
    /\ Acaba(c)
    /\ UNCHANGED <<cache, pantalla>>

Sigue(c) ==
    \/ RecibeConnect(c) \/ RecibeDisconnect(c) \/ RecibeGetfile(c)
    \/ RecibeOtra(c) \/ FinDeJoin(c) \/ FicheroCortado(c)
-----------------------------------------------------------------------------
(* The thread that was started with the socket of p; it reads              *)
(* _listener_running and _listener_socket at each turn, which by then may  *)
(* be those of a later CONNECT.  Between the two, a socket that was closed *)
(* or is None ends the thread too.                                         *)
EntraEnAccept(p) ==
    /\ receptor[p].fase = "while"
    /\ receptor' = [receptor EXCEPT ![p] =
                      IF escucha[dueno[p]] # Nada
                      THEN [@ EXCEPT !.fase = "accept", !.puerto = escucha[dueno[p]]]
                      ELSE [@ EXCEPT !.fase = "fin"]]
    /\ UNCHANGED <<proceso, dueno, bandeja, pantalla>>

(* Seeded bug: the socket is opened again for every connection.            *)
SoloUna(p, q) == <<>>

(* The last accept() on a closed socket takes one connection, and the rest *)
(* are reset.                                                              *)
Quedan(p, q) ==
    IF Abierto(q) \/ Bloqueados(q) # {p} THEN Tail(bandeja[q]) ELSE <<>>

Acepta(p) ==
    /\ receptor[p].fase = "accept"
    /\ LET q == receptor[p].puerto
       IN  /\ bandeja[q] # <<>>
           /\ receptor' = [receptor EXCEPT ![p] =
                 [fase |-> "atiende", puerto |-> q, conn |-> Head(bandeja[q])]]
           /\ bandeja' = [bandeja EXCEPT ![q] = Quedan(p, q)]
    /\ UNCHANGED <<proceso, dueno, pantalla>>

(* Seeded bug: break in the place of continue.                             *)
RompeSiCortada(p) == IF receptor[p].conn.tipo = "cortada" THEN "fin" ELSE "while"

(* A connection that was cut, before or inside the message, is skipped.    *)
TrasAtender(p) == "while"

(* Seeded bug: the name of the operation is not the one that server.c has. *)
NoReconoce(p) == UNCHANGED pantalla

Muestra(p) ==
    LET r == receptor[p]
        linea == {[puerto |-> r.puerto, carta |-> r.conn.carta]}
    IN  /\ mostrados' = IF r.conn.tipo = "SEND MESSAGE"
                        THEN mostrados \cup linea ELSE mostrados
        /\ confirmados' = IF r.conn.tipo = "SEND MESS ACK"
                          THEN confirmados \cup linea ELSE confirmados

(* A file that cannot be read is answered too, with a size of -1.          *)
Atiende(p) ==
    /\ receptor[p].fase = "atiende"
    /\ Muestra(p)
    /\ LET c == receptor[p].conn.carta
       IN  IF receptor[p].conn.tipo = "GET FILE" /\ shell[c].fase = "fichero"
           THEN Descansa(c) ELSE UNCHANGED shell
    /\ receptor' = [receptor EXCEPT ![p] = [SinHilo EXCEPT !.fase = TrasAtender(p)]]
    /\ UNCHANGED <<usuario, escucha, cache, dueno, bandeja>>

Recibe(p) == EntraEnAccept(p) \/ Acepta(p) \/ Atiende(p)

(* Ctrl-C, a closed terminal, a crash.                                     *)
Muere(c) == Termina(c)
-----------------------------------------------------------------------------
(* The environment: an answer, and a connection from outside.              *)
Entra(p, conn) ==
    /\ Llega(p, conn)
    /\ UNCHANGED <<proceso, dueno, receptor, pantalla>>

Quieto == UNCHANGED vars

RespuestaAjena(c) ==
    \E ok \in BOOLEAN, conectados \in SUBSET Usuarios :
        \E donde \in [conectados -> {p \in Puertos : dueno[p] # Nada}] :
            Contesta(c, ok, {[nombre |-> u, puerto |-> donde[u]] : u \in conectados})

ConexionAjena ==
    \E p \in Puertos, conn \in Conexion :
        /\ \/ conn = [tipo |-> "cortada", carta |-> Nada]
           \/ conn.tipo \in {"SEND MESSAGE", "SEND MESS ACK"} /\ conn.carta \in Cartas
        /\ Entra(p, conn)

Next ==
    \/ \E c \in Clientes :
        \/ \E orden \in Mandatos[c] : Manda(c, orden)
        \/ Sigue(c) \/ RespuestaAjena(c) \/ Muere(c)
    \/ \E p \in Puertos : Recibe(p)
    \/ ConexionAjena

Spec == Init /\ [][Next]_vars

(* The threads run, and the other end answers or closes.                   *)
FairSpec ==
    /\ Spec
    /\ \A c \in Clientes : WF_vars(Sigue(c)) /\ WF_vars(RespuestaAjena(c))
    /\ \A p \in Puertos : WF_vars(Recibe(p))
-----------------------------------------------------------------------------
Ordenes == {"ninguna", "REGISTER", "UNREGISTER", "CONNECT", "DISCONNECT", "USERS",
            "SEND", "SENDATTACH", "GETFILE", "QUIT"}

Mandado ==
    [orden : Ordenes, fase : {"libre", "pide", "recibe", "fichero", "join"},
     sobre : Usuarios \cup Puertos \cup {Nada}, ok : BOOLEAN]

Hilo ==
    [fase : {"no", "while", "accept", "atiende", "fin"},
     puerto : Puertos \cup {Nada}, conn : Conexion \cup {Nada}]

TipoProceso ==
    /\ usuario \in [Clientes -> Usuarios \cup {Nada}]
    /\ escucha \in [Clientes -> Puertos \cup {Nada}]
    /\ cache \in [Clientes -> [Usuarios -> Puertos \cup {Nada}]]
    /\ shell \in [Clientes -> Mandado]

TipoEnchufes ==
    /\ dueno \in [Puertos -> Clientes \cup {Nada}]
    /\ receptor \in [Puertos -> Hilo]
    /\ bandeja \in [Puertos -> Seq(Conexion)]

TypeOK ==
    /\ TipoProceso /\ TipoEnchufes
    /\ \A p \in Puertos : ~Escuchando(p) => bandeja[p] = <<>>

(* Between commands a client listens if and only if a user is connected,   *)
(* and then the receiver of the socket is alive, whatever connections were *)
(* cut and whichever of its CONNECTs failed (client.py:244-299, :192).     *)
SesionConReceptor ==
    \A c \in Clientes :
        /\ Libre(c) => (usuario[c] # Nada <=> escucha[c] # Nada)
        /\ escucha[c] # Nada =>
              /\ dueno[escucha[c]] = c
              /\ receptor[escucha[c]].fase \in {"while", "accept", "atiende"}

(* A CONNECT listens before there is a user, and _stop_listener closes     *)
(* before the user is forgotten; at every other point there are both, and  *)
(* a command that works for a user has one.                                *)
EnCurso(c) == shell[c].fase \in {"pide", "recibe"}

Abriendo(c) == EnCurso(c) /\ shell[c].orden = "CONNECT"

DeUsuario == {"USERS", "SEND", "SENDATTACH", "GETFILE", "QUIT"}

ConSusDos(c) ==
    /\ EnCurso(c) => shell[c].sobre \in Usuarios
    /\ EnCurso(c) /\ shell[c].orden \in DeUsuario => usuario[c] # Nada
    /\ Abriendo(c) => usuario[c] = Nada /\ escucha[c] # Nada
    /\ shell[c].fase = "join" => escucha[c] = Nada
    /\ ~Abriendo(c) /\ shell[c].fase # "join" =>
          (usuario[c] # Nada <=> escucha[c] # Nada)

(* A receiver that an old session left behind is at a socket of its own    *)
(* client, and has a connection only while it attends to it; a port that   *)
(* nobody has got has no receiver.                                         *)
EnLoSuyo(p) ==
    /\ dueno[p] = Nada => receptor[p].fase = "no"
    /\ receptor[p].fase \in {"accept", "atiende"} =>
          receptor[p].puerto \in Puertos /\ dueno[receptor[p].puerto] = dueno[p]
    /\ receptor[p].conn # Nada => receptor[p].fase = "atiende"

(* User and listener go together through every command, answered, refused  *)
(* or cut, and no receiver strays to the socket of another client          *)
(* (client.py:266-299, :166-178, :384-391, :186-192).                      *)
Sesiones == (\A c \in Clientes : ConSusDos(c)) /\ (\A p \in Puertos : EnLoSuyo(p))

(* A message that the server wrote to the socket of p is on its way to the *)
(* screen: it waits to be accepted, or a receiver attends to it.           *)
ConCarta(m) == [tipo |-> "SEND MESSAGE", carta |-> m]

EnCamino(p, m) ==
    \/ \E i \in DOMAIN bandeja[p] : bandeja[p][i] = ConCarta(m)
    \/ \E q \in Puertos : /\ receptor[q].fase = "atiende" /\ receptor[q].puerto = p
                          /\ receptor[q].conn = ConCarta(m)

(* Every command ends, also a DISCONNECT whose receiver does not, and a    *)
(* GETFILE whose peer leaves (client.py:177, :531-550).                    *)
OrdenTermina == \A c \in Clientes : ~Libre(c) ~> Libre(c)

(* client.py: _stop_listener waits for the receiver to end.  The receiver  *)
(* that it leaves behind would serve one more connection, or the next      *)
(* CONNECT's.                                                              *)
ReceptorParado ==
    \A c \in Clientes :
        Libre(c) /\ escucha[c] = Nada =>
            \A p \in Puertos : dueno[p] = c => receptor[p].fase # "accept"

(* tests/run_tests.py: the port of a user that is disconnected takes no    *)
(* connection.                                                             *)
PuertoCerrado ==
    [][\A c \in Clientes :
         shell[c].fase # "fichero" /\ shell'[c].fase = "fichero" =>
            LET d == dueno[shell'[c].sobre]
            IN  usuario[d] # Nada \/ ~Libre(d)]_vars
=============================================================================
