----------------------------- MODULE Protocolo -----------------------------
(***************************************************************************)
(* One connection of a client: src/src/protocolo.c and the reading and the *)
(* answering of every handler of src/src/server.c.  A request is a         *)
(* sequence of strings, each with its final zero; only their lengths       *)
(* matter here.  What the service does with it is in Servicio and          *)
(* Servidor.                                                               *)
(***************************************************************************)
EXTENDS Naturals, Sequences

CONSTANTS
    MaxOp,      \* MAX_OP, 64 in the code
    MaxTexto,   \* MAX_USER, MAX_MESSAGE and MAX_FILENAME, 256
    MaxPuerto,  \* MAX_PORT_STR, 16
    Exceso,     \* bound of the exploration: bytes of a string beyond its buffer
    Nada

ASSUME ProtocoloAssumption ==
    /\ MaxOp \in Nat /\ MaxOp > 2
    /\ Exceso \in Nat
    /\ MaxTexto \in Nat /\ MaxPuerto \in 1..MaxTexto
    /\ Nada \notin {"PROTO_OK", "PROTO_ERR1", "PROTO_ERR2", "PROTO_ERR3", "corte"}

(* The buffers that each handler fills, in its order.                      *)
Buferes == [
    REGISTER   |-> <<MaxTexto>>,
    UNREGISTER |-> <<MaxTexto>>,
    CONNECT    |-> <<MaxTexto, MaxPuerto>>,
    DISCONNECT |-> <<MaxTexto>>,
    SEND       |-> <<MaxTexto, MaxTexto, MaxTexto>>,
    SENDATTACH |-> <<MaxTexto, MaxTexto, MaxTexto, MaxTexto>>,
    USERS      |-> <<MaxTexto>>]

Operaciones == DOMAIN Buferes

(* The answer to a request that could not be read; USERS gives none.       *)
SiFalla(op) == CASE op \in {"CONNECT", "DISCONNECT"} -> "PROTO_ERR3"
                 [] op = "USERS" -> Nada
                 [] OTHER -> "PROTO_ERR2"

Respuestas(op) == {"PROTO_OK", "PROTO_ERR1", "PROTO_ERR2"} \cup
                  (IF op \in {"CONNECT", "DISCONNECT"} THEN {"PROTO_ERR3"} ELSE {})

(* Seeded bug: the number is written after a refusal too.                  *)
EnviosSiempre(op, c) == CASE op \in {"SEND", "SENDATTACH"} -> 2
                          [] op = "USERS" /\ c = "PROTO_OK" -> 3
                          [] OTHER -> 1

(* The calls of send that an answer takes: SEND gives the number too, and  *)
(* USERS a count and at least the entry of whoever asks.                   *)
Envios(op, c) == IF c # "PROTO_OK" THEN 1
                 ELSE CASE op \in {"SEND", "SENDATTACH"} -> 2
                        [] op = "USERS" -> 3
                        [] OTHER -> 1

VARIABLES
    peticion,   \* the request: its operation and the lengths of its strings
    enviados,   \* how many of its bytes the client has written
    cerrado,    \* whether the client ended its side of the connection
    reset,      \* whether it did so with a reset and not with a close
    fase,       \* where the thread is
    leidos,     \* how many bytes the thread has taken from the socket
    pos,        \* how many of them are of the string being read
    fines,      \* where each string that was read ends
    ejecutada,  \* whether the service was called
    codigo, trozo,  \* the code of the answer, the calls of send made for it
    recibido    \* the code that the client got, or "corte"

cliente == <<peticion, enviados, cerrado, reset, recibido>>
lectura == <<leidos, pos, fines>>
vars == <<cliente, lectura, fase, ejecutada, codigo, trozo>>

Op == peticion.operacion

(* How long the strings of a request are: the name of an operation takes   *)
(* two bytes, an unknown one any number.                                   *)
Longitudes(op) ==
    IF op \notin Operaciones THEN {<<n>> : n \in 1..MaxOp + Exceso}
    ELSE {<<2>> \o l : l \in {l \in [1..Len(Buferes[op]) -> 1..MaxTexto + Exceso] :
                                \A k \in DOMAIN l : l[k] <= Buferes[op][k] + Exceso}}

(* How many bytes the first k strings take.                                *)
Hasta[k \in 0..Len(peticion.cadenas)] ==
    IF k = 0 THEN 0 ELSE Hasta[k - 1] + peticion.cadenas[k]

Total == Hasta[Len(peticion.cadenas)]
FinDeCadena(n) == \E k \in 1..Len(peticion.cadenas) : n = Hasta[k]

(* The string being read, and the size of its buffer.                      *)
Cadena == Len(fines) + 1
MaxLen(k) == IF k = 1 THEN MaxOp ELSE Buferes[Op][k - 1]

Init ==
    /\ peticion \in UNION {[operacion : {op}, cadenas : Longitudes(op)] :
                              op \in Operaciones \cup {"otra"}}
    /\ enviados = 0 /\ cerrado = FALSE /\ reset = FALSE /\ recibido = Nada
    /\ fase = "lee" /\ leidos = 0 /\ pos = 0 /\ fines = <<>>
    /\ ejecutada = FALSE /\ codigo = Nada /\ trozo = 0
-----------------------------------------------------------------------------
(* The client.  It waits for the answer once it has written everything;    *)
(* it may also close before, or its connection may be reset.               *)
Envia ==
    /\ ~cerrado /\ enviados < Total
    /\ enviados' = enviados + 1
    /\ UNCHANGED <<peticion, cerrado, reset, recibido, lectura, fase, ejecutada, codigo, trozo>>

CierraCliente ==
    /\ ~cerrado
    /\ cerrado' = TRUE /\ reset' \in BOOLEAN
    /\ UNCHANGED <<peticion, enviados, recibido, lectura, fase, ejecutada, codigo, trozo>>

(* What the client gets.  close with bytes that were not read, or bytes    *)
(* that arrive after it, reset the connection, and the answer may be lost. *)
Recibe ==
    /\ ~cerrado /\ fase = "cerrada"
    /\ recibido' \in IF codigo # Nada /\ leidos = Total THEN {codigo}
                     ELSE {codigo, "corte"} \ {Nada}
    /\ cerrado' = TRUE
    /\ UNCHANGED <<peticion, enviados, reset, lectura, fase, ejecutada, codigo, trozo>>
-----------------------------------------------------------------------------
(* recv_string: one recv_all of one byte after another.                    *)

(* Seeded bug: the filename is left in the socket.                         *)
SinFichero(k) == k > IF Op = "SENDATTACH" THEN 3 ELSE Len(Buferes[Op])

EsUltima(k) == k > Len(Buferes[Op])

(* The string is whole: the next one, or what the handler does.            *)
TerminaCadena ==
    /\ fines' = Append(fines, leidos') /\ pos' = 0
    /\ fase' = IF Op \notin Operaciones THEN "cerrada"
               ELSE IF EsUltima(Cadena) THEN "ejecuta" ELSE "lee"
    /\ UNCHANGED codigo

(* recv_string returns -1: nothing is answered before the operation is     *)
(* known.                                                                  *)
FallaLectura ==
    /\ codigo' = IF Cadena = 1 THEN Nada ELSE SiFalla(Op)
    /\ fase' = IF codigo' = Nada THEN "cerrada" ELSE "responde"
    /\ UNCHANGED <<pos, fines>>

SigueCadena ==
    /\ pos' = pos + 1
    /\ UNCHANGED <<fines, fase, codigo>>

(* Seeded bug: a string that fills the buffer is taken as it is.           *)
Trunca ==
    IF FinDeCadena(leidos') \/ pos + 1 = MaxLen(Cadena) THEN TerminaCadena
    ELSE SigueCadena

(* Seeded bug: pos <= max_len, one byte beyond the buffer.                 *)
UnByteMas ==
    IF FinDeCadena(leidos') THEN TerminaCadena
    ELSE IF pos = MaxLen(Cadena) THEN FallaLectura
    ELSE SigueCadena

TrasByte ==
    IF FinDeCadena(leidos') THEN TerminaCadena
    ELSE IF pos + 1 = MaxLen(Cadena) THEN FallaLectura
    ELSE SigueCadena

LeeByte ==
    /\ fase = "lee" /\ leidos < enviados
    /\ leidos' = leidos + 1
    /\ TrasByte
    /\ UNCHANGED <<cliente, ejecutada, trozo>>

(* Seeded bug: n < 0 in place of n <= 0, so that recv_all asks again.      *)
SigueTrasCierre ==
    /\ fase = "lee" /\ leidos = enviados /\ cerrado
    /\ UNCHANGED vars

(* recv returns 0 after a close, or an error after a reset.                *)
FinDeFlujo ==
    /\ fase = "lee" /\ leidos = enviados /\ cerrado
    /\ FallaLectura
    /\ UNCHANGED <<cliente, leidos, ejecutada, trozo>>

(* The call of the service, whose result the answer tells.                 *)
Ejecuta ==
    /\ fase = "ejecuta"
    /\ ejecutada' = TRUE
    /\ codigo' \in Respuestas(Op)
    /\ fase' = "responde"
    /\ UNCHANGED <<cliente, lectura, trozo>>

(* send_code and send_string: what they return is not looked at.           *)
Responde ==
    /\ fase = "responde"
    /\ trozo' = trozo + 1
    /\ fase' = IF trozo' = Envios(Op, codigo) THEN "cerrada" ELSE "responde"
    /\ UNCHANGED <<cliente, lectura, ejecutada, codigo>>

(* A send on a connection that was reset raises SIGPIPE.  The client may   *)
(* have reset it, and then any send may be the one; a client that closed   *)
(* answers the first send with a reset, and the next one raises it.        *)
Sigpipe ==
    /\ fase = "responde" /\ cerrado /\ (reset \/ trozo > 0)
    /\ fase' = "muerto"
    /\ UNCHANGED <<cliente, lectura, ejecutada, codigo, trozo>>

Hilo == LeeByte \/ FinDeFlujo \/ Ejecuta \/ Responde \/ Sigpipe

Next == Envia \/ CierraCliente \/ Recibe \/ Hilo

Spec == Init /\ [][Next]_vars

(* The thread runs; the client does what it wants.                         *)
FairSpec == Spec /\ WF_vars(Hilo)
-----------------------------------------------------------------------------
(* The service is called only with strings that arrived whole, each of     *)
(* them the one that the client wrote at its place and within its buffer:  *)
(* a string that is too long is never cut, nor its rest taken for the next *)
(* one (protocolo.c:58-71, server.c:484-495).                              *)
EjecucionFiel ==
    ejecutada => \A k \in 1..Len(Buferes[Op]) + 1 :
        /\ k <= Len(fines) /\ fines[k] = Hasta[k]
        /\ peticion.cadenas[k] <= MaxLen(k)

(* While a string is read the thread is inside the one that the client     *)
(* wrote at that place, and the buffer has room; when the last one is      *)
(* whole every byte of the request was taken                               *)
(* (protocolo.c:51-74, server.c:484-495).                                  *)
Enteras(n) ==
    /\ n <= Len(peticion.cadenas)
    /\ \A k \in 1..n : fines[k] = Hasta[k] /\ peticion.cadenas[k] <= MaxLen(k)

Alineada ==
    /\ Enteras(Len(fines))
    /\ fase = "lee" =>
          /\ Len(fines) < Len(peticion.cadenas)
          /\ leidos = Hasta[Len(fines)] + pos
          /\ pos < peticion.cadenas[Cadena] /\ pos < MaxLen(Cadena)
    /\ fase = "ejecuta" \/ ejecutada =>
          /\ Op \in Operaciones
          /\ Len(fines) = Len(peticion.cadenas) /\ leidos = Total

(* The answer to a request that was executed is not lost in a reset of the *)
(* connection: whoever waits for it gets it (server.c:514-515, :678).      *)
RespuestaSinCorte == ejecutada /\ recibido # Nada => recibido = codigo

(* A client that closes its end, without a reset, ends the process only    *)
(* after a success that is told in more than one write: not at any byte of *)
(* its request, nor if it was refused, because one code is all that is     *)
(* written then.  A reset by the client may end it at any answer, that to  *)
(* a request cut short included                                            *)
(* (server.c:484-515, :568-575, :608-621; protocolo.c:16, :34).            *)
MuerteTrasExito ==
    fase = "muerto" /\ ~reset =>
        /\ ejecutada /\ codigo = "PROTO_OK"
        /\ Op \in {"SEND", "SENDATTACH", "USERS"}

(* A thread whose client wrote its whole request, or closed at any byte of *)
(* it, comes to an end (protocolo.c:29-40, :62-70).                        *)
ContestaOCierra == enviados = Total \/ cerrado ~> fase \in {"cerrada", "muerto"}

(* protocolo.c: an error of send_code or send_string is a result.  A       *)
(* client that resets the connection, or that closes before the second     *)
(* write, ends the process.                                                *)
ErrorDevuelto == fase # "muerto"
=============================================================================
