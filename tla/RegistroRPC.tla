---------------------------- MODULE RegistroRPC ----------------------------
(***************************************************************************)
(* The remote log: before it runs an operation, a handler of               *)
(* src/src/server.c calls log_rpc_log of src/src/log_rpc_client.c, which   *)
(* waits at most 25 seconds for the server of src/rpc/log_rpc_server.c to  *)
(* print a line, and goes on whatever comes of it.  The operations are     *)
(* REGISTER and UNREGISTER of Servicio; the others log in the same place.  *)
(***************************************************************************)
EXTENDS Servicio

CONSTANTS
    Manejadores,  \* the handlers, each with one request
    MaxReinicios  \* bound of the exploration: ends of the RPC server

VARIABLES
    peticion,     \* operation and username of each handler
    fase,         \* where each handler is
    rpc_enabled,  \* whether LOG_RPC_IP was defined
    llamadas,     \* the calls that the RPC server has not served yet
    respuestas,   \* its replies that were not read
    vivo,         \* whether the RPC server runs
    \* History:
    reinicios, lineas, operadas, contestadas

varsRPC == <<rpc_enabled, llamadas, respuestas, vivo>>
registro == <<reinicios, lineas, operadas, contestadas>>
vars == <<varsServicio, peticion, fase, varsRPC, registro>>

log_rpc_init == rpc_enabled \in BOOLEAN

InitRPC ==
    /\ servicio_init /\ log_rpc_init
    /\ peticion \in [Manejadores -> [operation : {"REGISTER", "UNREGISTER"},
                                     username : Usuarios]]
    /\ fase = [h \in Manejadores |-> "leida"]
    /\ llamadas = <<>> /\ respuestas = {} /\ vivo \in BOOLEAN
    /\ reinicios = 0 /\ lineas = <<>> /\ operadas = <<>> /\ contestadas = {}

Pasa(h, f) == fase' = [fase EXCEPT ![h] = f]
-----------------------------------------------------------------------------
(* log_rpc_log returns before the call: the log is not enabled, or         *)
(* clnt_create fails, which it may do also when somebody listens.          *)
SinRegistro(h) ==
    /\ fase[h] = "leida"
    /\ Pasa(h, "opera")
    /\ UNCHANGED <<varsServicio, peticion, varsRPC, registro>>

log_operation_1(h) ==
    /\ fase[h] = "leida" /\ rpc_enabled /\ vivo
    /\ llamadas' = Append(llamadas, h)
    /\ Pasa(h, "llama")
    /\ UNCHANGED <<varsServicio, peticion, rpc_enabled, respuestas, vivo, registro>>

(* Seeded bug: the operation runs only if the call succeeded.              *)
EsperaRespuesta(h) ==
    /\ fase[h] = "llama" /\ h \in respuestas
    /\ Pasa(h, "opera")

(* Seeded bug: the call is made again after the timeout.                   *)
Reintenta(h) ==
    \/ EsperaRespuesta(h)
    \/ fase[h] = "llama" /\ h \notin respuestas /\ Pasa(h, "leida")

(* The call returns with a reply, with the timeout or with an error; the   *)
(* caller looks at none of them.                                           *)
Vuelve(h) == fase[h] = "llama" /\ Pasa(h, "opera")

FinDeLlamada(h) ==
    /\ Vuelve(h)
    /\ respuestas' = respuestas \ {h}
    /\ contestadas' = contestadas \cup ({h} \cap respuestas)
    /\ UNCHANGED <<varsServicio, peticion, rpc_enabled, llamadas, vivo,
                   reinicios, lineas, operadas>>

Ejecuta(h, ret) ==
    LET u == peticion[h].username
    IN  \/ peticion[h].operation = "REGISTER" /\ servicio_register(u, ret)
        \/ peticion[h].operation = "UNREGISTER" /\ servicio_unregister(u, ret)

Opera(h, ret) ==
    /\ fase[h] = "opera" /\ Pasa(h, "fin")
    /\ Ejecuta(h, ret)
    /\ operadas' = Append(operadas, [manejador |-> h, escritas |-> Len(lineas)])
    /\ UNCHANGED <<peticion, varsRPC, reinicios, lineas, contestadas>>
-----------------------------------------------------------------------------
(* Seeded bug: without fflush the line stays in the process's buffer.      *)
SinFlush(h) == UNCHANGED lineas

log_operation_1_svc(h) == lineas' = Append(lineas, h)

(* svc_run takes one call at a time, also one whose caller gave up.        *)
log_prog_1 ==
    /\ vivo /\ llamadas # <<>>
    /\ llamadas' = Tail(llamadas)
    /\ log_operation_1_svc(Head(llamadas))
    /\ respuestas' = IF fase[Head(llamadas)] = "llama"
                     THEN respuestas \cup {Head(llamadas)} ELSE respuestas
    /\ UNCHANGED <<varsServicio, peticion, fase, rpc_enabled, vivo, reinicios,
                   operadas, contestadas>>

(* Its connections are reset; nobody starts it again for sure.             *)
CaeRPC ==
    /\ vivo /\ reinicios < MaxReinicios
    /\ vivo' = FALSE /\ llamadas' = <<>> /\ reinicios' = reinicios + 1
    /\ UNCHANGED <<varsServicio, peticion, fase, rpc_enabled, respuestas, lineas,
                   operadas, contestadas>>

ArrancaRPC ==
    /\ ~vivo
    /\ vivo' = TRUE
    /\ UNCHANGED <<varsServicio, peticion, fase, rpc_enabled, llamadas, respuestas,
                   registro>>

(* The end of the server: the handlers that still run do not log.          *)
log_rpc_destroy ==
    /\ rpc_enabled
    /\ rpc_enabled' = FALSE
    /\ UNCHANGED <<varsServicio, peticion, fase, llamadas, respuestas, vivo, registro>>

Maneja(h) ==
    \/ SinRegistro(h) \/ log_operation_1(h) \/ FinDeLlamada(h)
    \/ \E ret \in Codigos : Opera(h, ret)

NextRPC ==
    \/ \E h \in Manejadores : Maneja(h)
    \/ log_prog_1 \/ CaeRPC \/ ArrancaRPC \/ log_rpc_destroy

SpecRPC == InitRPC /\ [][NextRPC]_vars

(* Of the handlers only: the RPC server may never answer.                  *)
FairRPC == SpecRPC /\ \A h \in Manejadores : WF_vars(Maneja(h))
-----------------------------------------------------------------------------
(* The messaging server works without the log: every request is executed,  *)
(* though the RPC server is down, stops answering or is restarted while a  *)
(* handler waits for it (log_rpc_client.c:48-69, log_rpc_clnt.c:10).       *)
OperaSinRegistro == \A h \in Manejadores : <>(fase[h] = "fin")

(* At most one line per operation, though a call that timed out may still  *)
(* be printed (log_rpc_client.c:58-65).                                    *)
UnaLinea ==
    \A i, j \in 1..Len(lineas) : lineas[i] = lineas[j] => i = j

(* The line of a call that was answered is on the screen before its        *)
(* operation runs: the log is at most ahead of the tables                  *)
(* (server.c:222-225, :353-356).                                           *)
LineaAntes ==
    \A k \in 1..Len(operadas) :
        operadas[k].manejador \in contestadas =>
            \E i \in 1..operadas[k].escritas : lineas[i] = operadas[k].manejador

EnCola(h) == \E i \in 1..Len(llamadas) : llamadas[i] = h

Escrita(h) == \E i \in 1..Len(lineas) : lineas[i] = h

(* A call is in one place, whatever the RPC server and its caller did      *)
(* since: it waits once, or it was printed, or it was lost; nobody calls   *)
(* twice, and a reply is that of a printed line (log_rpc_client.c:48-69,   *)
(* log_rpc_server.c:14).                                                   *)
UnSitio ==
    /\ \A i, j \in 1..Len(llamadas) : llamadas[i] = llamadas[j] => i = j
    /\ \A h \in Manejadores :
        /\ ~(EnCola(h) /\ Escrita(h))
        /\ EnCola(h) \/ Escrita(h) => fase[h] # "leida"
        /\ h \in respuestas \cup contestadas => Escrita(h)
    /\ \A k \in 1..Len(operadas) :
        /\ fase[operadas[k].manejador] = "fin"
        /\ operadas[k].escritas <= Len(lineas)
=============================================================================
