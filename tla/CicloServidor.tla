--------------------------- MODULE CicloServidor ---------------------------
(***************************************************************************)
(* The life of the server process: main of src/src/server.c, its accept    *)
(* loop, the detached threads that it starts and its end after a SIGINT.   *)
(* What a thread does for its client is one step here: Servidor has it in  *)
(* full.                                                                   *)
(***************************************************************************)
EXTENDS Naturals, FiniteSets

CONSTANTS
    Conexiones,   \* the connections that clients open
    Descriptores  \* how many of them the process may have open at a time

ASSUME CicloAssumption == IsFiniteSet(Conexiones) /\ Descriptores \in Nat \ {0}

VARIABLES
    seguir,    \* the flag that sigint_handler unsets
    main,      \* where the main thread is
    conexion,  \* how far each connection is
    servicio,  \* the messaging service: vivo or destruido
    tarde      \* history: a thread called the service after servicio_destroy

vars == <<seguir, main, conexion, servicio, tarde>>

Init ==
    /\ seguir = TRUE /\ main = "while"
    /\ conexion = [x \in Conexiones |-> "nueva"]
    /\ servicio = "vivo" /\ tarde = FALSE

EnFase(fase) == {x \in Conexiones : conexion[x] = fase}

Abiertas == EnFase("aceptada") \cup EnFase("hilo") \cup EnFase("servida")

Agotados == Cardinality(Abiertas) >= Descriptores

Pasa(x, fase) == conexion' = [conexion EXCEPT ![x] = fase]

Va(punto) == main' = punto

(* The socket of the server listens until main closes it.                  *)
Conecta(x) ==
    /\ conexion[x] = "nueva" /\ main \in {"while", "accept", "crea", "cierra"}
    /\ Pasa(x, "cola")
    /\ UNCHANGED <<seguir, main, servicio, tarde>>

(* signal() restarts the calls that the signal interrupts, accept too, and *)
(* any thread may be the one that runs the handler.                        *)
sigint_handler ==
    /\ seguir /\ main # "fin"
    /\ seguir' = FALSE
    /\ UNCHANGED <<main, conexion, servicio, tarde>>
-----------------------------------------------------------------------------
(* Seeded bug: while (1).                                                  *)
SinMirar == main = "while" /\ Va("accept") /\ UNCHANGED <<seguir, conexion, servicio, tarde>>

(* The loop's condition and malloc; one that fails tries again.            *)
Reserva ==
    /\ main = "while"
    /\ Va(IF seguir THEN "accept" ELSE "cierra")
    /\ UNCHANGED <<seguir, conexion, servicio, tarde>>

Acepta(x) ==
    /\ main = "accept" /\ conexion[x] = "cola" /\ ~Agotados
    /\ Pasa(x, "aceptada") /\ Va("crea")
    /\ UNCHANGED <<seguir, servicio, tarde>>

(* Seeded bug: an accept that fails ends the server.                       *)
AcabaSiFalla ==
    /\ main = "accept" /\ Agotados
    /\ Va("cierra")
    /\ UNCHANGED <<seguir, conexion, servicio, tarde>>

(* accept fails for want of descriptors, whether or not a client waits, or *)
(* takes a connection out of the queue that was aborted in it.             *)
FallaAccept ==
    /\ main = "accept"
    /\ \/ Agotados /\ UNCHANGED conexion
       \/ \E x \in EnFase("cola") : ~Agotados /\ Pasa(x, "cerrada")
    /\ Va(IF seguir THEN "while" ELSE "cierra")
    /\ UNCHANGED <<seguir, servicio, tarde>>

CreaHilo(x) ==
    /\ main = "crea" /\ conexion[x] = "aceptada"
    /\ Pasa(x, "hilo") /\ Va("while")
    /\ UNCHANGED <<seguir, servicio, tarde>>

(* Seeded bug: the socket stays open.                                      *)
FallaSinCerrar(x) ==
    /\ main = "crea" /\ conexion[x] = "aceptada"
    /\ Va("while")
    /\ UNCHANGED <<seguir, conexion, servicio, tarde>>

(* pthread_create fails: the client sees a connection closed unanswered.   *)
FallaCrear(x) ==
    /\ main = "crea" /\ conexion[x] = "aceptada"
    /\ Pasa(x, "cerrada") /\ Va("while")
    /\ UNCHANGED <<seguir, servicio, tarde>>

(* close(sd): what waits in the queue is reset.                            *)
Cierra ==
    /\ main = "cierra"
    /\ conexion' = [x \in Conexiones |->
                      IF conexion[x] = "cola" THEN "cerrada" ELSE conexion[x]]
    /\ Va("destruye")
    /\ UNCHANGED <<seguir, servicio, tarde>>

(* servicio_destroy and log_rpc_destroy wait for no thread.                *)
Destruye ==
    /\ main = "destruye"
    /\ servicio' = "destruido" /\ Va("sale")
    /\ UNCHANGED <<seguir, conexion, tarde>>

(* return 0: the process ends with all of its threads.                     *)
Sale ==
    /\ main = "sale"
    /\ Va("fin")
    /\ conexion' = [x \in Conexiones |->
                      IF conexion[x] = "nueva" THEN "nueva" ELSE "cerrada"]
    /\ UNCHANGED <<seguir, servicio, tarde>>

Main ==
    \/ Reserva \/ FallaAccept \/ Cierra \/ Destruye \/ Sale
    \/ \E x \in Conexiones : Acepta(x) \/ CreaHilo(x) \/ FallaCrear(x)
-----------------------------------------------------------------------------
(* handle_client: its handler calls the service once the request is there. *)
Opera(x) ==
    /\ conexion[x] = "hilo"
    /\ Pasa(x, "servida")
    /\ tarde' = (tarde \/ servicio = "destruido")
    /\ UNCHANGED <<seguir, main, servicio>>

(* The end of the handler, or a client that closed before its request.     *)
AcabaHilo(x) ==
    /\ conexion[x] \in {"hilo", "servida"}
    /\ Pasa(x, "cerrada")
    /\ UNCHANGED <<seguir, main, servicio, tarde>>

Next ==
    \/ Main \/ sigint_handler
    \/ \E x \in Conexiones : Conecta(x) \/ Opera(x) \/ AcabaHilo(x)

Spec == Init /\ [][Next]_vars

(* Only of the main thread: a thread that waits for its client may wait    *)
(* for ever, since no recv has a timeout.                                  *)
FairSpec == Spec /\ WF_vars(Main)
-----------------------------------------------------------------------------
(* A descriptor belongs to somebody who will give it back: main has at     *)
(* most one, while it starts the thread that takes it over, every other    *)
(* one is a thread's, and there are never more than the process may have   *)
(* (server.c:179-196).                                                     *)
SinFugas ==
    /\ IF main = "crea" THEN \E x \in Conexiones : EnFase("aceptada") = {x}
       ELSE EnFase("aceptada") = {}
    /\ Cardinality(Abiertas) <= Descriptores

(* The end comes after a SIGINT alone, however many accepts and threads    *)
(* fail, and in order: no client is left in the queue when the service     *)
(* goes, and a thread that comes too late finds it gone only in the moment *)
(* before the process takes the thread with it (server.c:179-203).         *)
FinOrdenado ==
    /\ main \in {"cierra", "destruye", "sale", "fin"} => ~seguir
    /\ main \in {"destruye", "sale", "fin"} => EnFase("cola") = {}
    /\ servicio = "destruido" <=> main \in {"sale", "fin"}
    /\ tarde => servicio = "destruido"
    /\ main = "fin" => Abiertas = {}

(* The way of main after a SIGINT.                                         *)
Camino == <<"accept", "crea", "while", "cierra", "destruye", "sale", "fin">>

(* After a SIGINT main never turns back, so that it accepts at most one    *)
(* more client, and calls servicio_destroy once (server.c:170-203).        *)
NoVuelve ==
    [][~seguir /\ main' # main =>
         \E i, j \in 1..7 : i < j /\ main = Camino[i] /\ main' = Camino[j]]_vars

(* Nobody waits in the queue for ever, unless each of the descriptors is   *)
(* in the hands of a thread: a client that says nothing keeps nobody       *)
(* waiting, and every end of a connection, a failed pthread_create too,    *)
(* gives its descriptor back (server.c:170-196, :648-652, :678).           *)
NadieEspera ==
    \A x \in Conexiones :
        conexion[x] = "cola" ~>
            \/ conexion[x] # "cola"
            \/ Cardinality(EnFase("hilo") \cup EnFase("servida")) = Descriptores

(* After a SIGINT the server does end if one more client comes: main,      *)
(* inside accept or about to enter it, gets back to the flag               *)
(* (server.c:170, :179-185).                                               *)
AcabaConOtro == ~seguir /\ EnFase("cola") # {} ~> main = "fin"

(* server.c: SIGINT interrupts accept, and the server ends.                *)
AcabaTrasSigint == ~seguir ~> main = "fin"

(* server.c: it ends cleanly and frees all resources.  A handler that runs *)
(* between servicio_destroy and the end of the process finds no user, and  *)
(* answers to a registered one that it does not exist.                     *)
FinLimpio == ~tarde
=============================================================================
