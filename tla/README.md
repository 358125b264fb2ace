# Verification of the distributed messaging service

TLA+ models, model-checking runs and machine-checked proofs for the messaging
server of this repository: a multithreaded TCP server in C (`src/`,
`include/`), its Python client (`client.py`), an ONC-RPC logging service
(`rpc/`) and a web service that normalises texts (`web/`).

Names in the modules are the names of the code. Paths below are relative to
the repository.

## 1. The system

| component | state | operations | talks to |
|---|---|---|---|
| **Messages** `src/mensajes.c` | singly linked list of `mensaje_t` per user | `crear_mensaje`, `agregar_mensaje` (at the end), `eliminar_mensaje_por_id_y_remitente`, `liberar_mensajes` | called by the service |
| **Users** `src/usuarios.c` | list of `usuario_t`: connected or not, ip, port, `ultimo_id`, pending messages | find, insert, remove, mark connected / disconnected | called by the service |
| **Service** `src/servicio_mensajes.c` | `usuarios`, guarded by `mutex_servicio` | register, unregister, connect, disconnect, send, sendattach, users, and the four auxiliary operations of a delivery | called by the server's threads |
| **Server threads** `src/server.c` | local variables of one detached thread per connection | one handler per operation; `entregar_mensaje`; the drain loop of `handle_connect` | service, clients' listeners, RPC client |
| **Server process** `src/server.c` (`main`) | `seguir`, listening socket | accept loop, SIGINT, final `servicio_destroy` | threads |
| **Protocol** `src/protocolo.c` | none | `send_all`, `recv_all`, strings ended by a zero, one-byte codes | sockets |
| **RPC client** `src/log_rpc_client.c` | `rpc_enabled`, `rpc_server_ip` | init, log, destroy | RPC server |
| **RPC server** `rpc/` | none (prints) | `log_operation_1_svc` | RPC client |
| **Client** `client.py` | current user, connected flag, listener socket and thread, cache of addresses | register, unregister, connect, disconnect, users, send, sendAttach, getfile, listener loop | server, other clients, web service |
| **Web service** `web/web_service.py` | none | `normalize_message` | client |

How a message travels. SEND calls `servicio_send`, which under the mutex
numbers the message, appends it to the recipient's list and copies the
recipient's address. The handler replies, and if the recipient was connected
the *same thread* opens a connection to the recipient's listener and writes
the message **without the mutex** (`entregar_mensaje`). After a success it
takes the mutex to remove the message by number and sender, takes it again to
copy the sender's address, and sends the ACK to that address without it. After a failure it takes the
mutex to mark the recipient as disconnected; the message stays in the list.
CONNECT replies and then drains: as long as the user is connected and has
pending messages, it copies the first one and delivers it in the same way.

What makes it hard:

* every delivery is *copy under the mutex - transmit without it - change the
  tables under it again*; any other request may come in between, including
  the end of the registration, a new registration of the same name, a new
  session at another address, or another drain of the same list;
* a pending message is removed by number and sender, and the numbers start
  again with every registration of the sender (and wrap at 2^32);
* nobody looks at a list except the thread that inserted a message and the
  drain of a CONNECT: a message that both miss is forgotten until the next
  CONNECT;
* everything is in memory, and a SIGPIPE that the process neither catches nor
  ignores ends it in the middle of a delivery.

What makes each part correct:

* messages, users: a removal takes away the first match only and keeps order;
  a registration starts with empty fields and inherits nothing;
* service: an address exactly when connected; numbers do not repeat within a
  registration before the range of an `unsigned int` is used up;
* server threads: no accepted message is lost or forgotten, stored messages go
  out in arrival order, a drain never goes back, an ACK is final, nothing
  crosses from one registration to the next, not even an ACK to an earlier one;
* client: it listens exactly while a user is connected, every command ends,
  and what the server wrote to an open listener reaches the screen;
* process: no descriptor is leaked, nobody waits in the queue for ever, and
  main ends the process after a SIGINT only, and in order; RPC log: it never stops nor
  repeats an operation;
* protocol: a request is executed only as it was written, whatever is cut;
  web service: a text keeps its words and reaches the server normalised.

The complete list of hazards, each at its line, is in `PROJECT.json`.

## 2. Modules

| module | models | role |
|---|---|---|
| `Mensajes` | `mensajes.c` | a list is a sequence; pure operators |
| `Servicio` | `servicio_mensajes.c`, `usuarios.c` | tables and one action per function |
| `Servidor` | handlers and deliveries of `server.c` | threads, failures, deaths; `Spec`, `FairSpec` |
| `Garantias` | - | types and properties, stated over `Servidor` |
| `Buzon` | - | the abstract specification: a mailbox that transmits at least once |
| `Refinamiento` | - | `Servidor` implements `Buzon`: the refinement mapping |
| `Cliente` | `client.py` | shell, receivers, sockets and cache, in an open environment |
| `Sistema` | `server.c` with `client.py` | `Garantias` and an instance of `Cliente` joined: each answers the other |
| `CicloServidor` | `main` of `server.c` | accept loop, detached threads, SIGINT, descriptors, the end |
| `RegistroRPC` | `log_rpc_client.c`, `rpc/` | the remote log around the operations of `Servicio` |
| `Protocolo` | `protocolo.c` and the reads and answers of every handler | one connection, byte by byte |
| `ServicioWeb` | `web_service.py` and the parsing of texts in `client.py` | a text from the keyboard to the server |
| `MCServidor`, `MCCliente`, `MCSistema` | - | instances for TLC |
| `GarantiasProofs` | - | proofs about the server: types, history and copies, order |
| `RefinamientoProofs` | - | the proof that it implements the mailbox |
| `ClienteProofs`, `CicloProofs`, `RegistroProofs`, `ProtocoloProofs`, `ServicioWebProofs` | - | proofs about one component each |
| `SistemaProofs` | - | proofs about server and clients together, from those of both |

`Mensajes`, `Servicio`, `Servidor`, `Garantias`, `Refinamiento` EXTEND one
another in this order; `RegistroRPC` extends `Servicio` and `Sistema` extends
`Garantias`. `CicloServidor`, `Protocolo` and `ServicioWeb` stand alone, and
are run as they are. A module of proofs extends the module that it is about;
`RefinamientoProofs` and `SistemaProofs` also extend `GarantiasProofs`, and
`SistemaProofs` instantiates `ClienteProofs`.

### Correspondence with the code

**Tables.** The list `usuarios` is a set of names (`registrado`) with
functions for the fields of `usuario_t`. `dir` is the pair ip/port, `SinDir`
the two empty strings of a user that is not connected. `pendientes[u]` is a
sequence. `mutex_servicio` is held from the first to the last access in every
`servicio_*` function, so one function is one action. Result codes are the
last parameter of an action; the handlers choose it with `\E ret`, so that
exactly the branches of the code are possible.

**Malloc.** With `FallaMalloc` every `malloc` may return NULL; a message that
could not be allocated has already consumed its number.

**Threads.** `pc[t]` names the place of a thread and `hilo[t]` holds its local
variables:

| `pc` | code | next step |
|---|---|---|
| `libre` | no delivery in course | a handler starts |
| `consulta` | `handle_connect` 313, 319 | `ConsultaConexion` |
| `bucle` | 316 | `SiguientePendiente` |
| `entrega` | `entregar_mensaje` 391-417 | `Entrega` or `FallaEntrega` |
| `borra` | 421 | `BorraPendiente` |
| `ack` | 425-431 | `BuscaRemitente` |
| `envia` | 432-458 | `EnviaAck` |
| `fuerza` | 461 | `FuerzaDesconexion` |

The requests that deliver nothing (REGISTER, UNREGISTER, DISCONNECT, a SEND to
a disconnected recipient, and any that answers with an error) take one step and
occupy no thread: `Hilos` bounds the deliveries in course, not the requests. A call to the
service and the reply that follows are one step: the reply goes to the
connection of the request, which no other thread uses. `servicio_get_info_conexion`
that answers -1 leaves the caller's variables as they were, and so does
`ConsultaConexion`.

**Network.** `Entrega` records in `entregados` that the whole message was
written to the socket of an address; `FallaEntrega` covers every failure of
`getaddrinfo`, `socket`, `connect` and `send`. A prefix written before a
failure is not recorded: the client prints a message only when it has all of
it. `BuscaRemitente` copies the sender's address, and `EnviaAck` writes to the
copy when the sender may have left it, or its name. An ACK that cannot be sent is
dropped without notice, as in the code.

**Deaths.** `Muere` ends the process at any moment and starts it again with
empty tables: by SIGPIPE while a message or an ACK is being written
(`SigpipeEnEntrega`, `SigpipeEnAck`), or for any other reason (`Reinicia`).

**History.** No operation reads these components, which only the properties
use: `alta` counts the registrations of a name; `serie` numbers every message
created, and is the abstraction of its text; `aceptados` holds the messages
answered with `SVC_OK`; messages carry the registrations of their sender and
recipient (`alta_rem`, `alta_dest`) and whether the recipient was connected
(`vivo`); addresses carry the registration of their CONNECT; `previo` is the
last message that a drain transmitted; `entregados` and `acks` are what was
written to the network.

**Mailbox.** `Buzon` knows owners, whether each has a mailbox (`abierto`) and how
often it was opened (`tanda`), messages in the order of their acceptance, the keys
by which a mailbox tells its messages apart, and the number of disasters. The mapping
sends `abierto` to `registrado`, `tanda` to `alta`, `desastres` to `caidas`, the
number of a message to itself, its key to the pair (number, sender) that
`eliminar_mensaje_por_id_y_remitente` compares, and the lists to `retenidas`.
A message leaves the mailbox only after it, or a twin with the same key, was
transmitted, in the step that ends its owner's registration, or in the step that ends
the process; a forced disconnection that emptied the list would be none of them. A
mailbox takes messages only while it is open. The guard `EnTurno`
is the order: a message that had to wait is transmitted after the earlier ones
of its mailbox, unless they are confused.

**Client.** `shell[c]` is the command in course and where it waits: for the
answer (`pide`), with the answer at hand (`recibe`), in the join of
`_stop_listener` (`join`), for a file (`fichero`). `receptor[p]` is the thread
that was started with the socket of port `p`; it reads the flag and the socket
again at each turn (`EntraEnAccept`), so that after an old session it may go on
with the socket of a new one, as the code does, for both are attributes of the
class. `bandeja[p]` is the accept queue. Closing a socket does not wake a thread inside
`accept()` on it: the kernel (Linux) keeps the socket listening until that call
returns, which `Escuchando`, `Quedan` and `JoinVuelve` follow. Commands that
are refused at once (no user connected, a bad name) are no steps. `Cliente`
leaves answers and connections to an environment that may do anything that
keeps to the protocol: any answer, with any list of names at ports that some
client owns, and any connection to a listening socket;
`Sistema` replaces it: `Sirve` and `SirveUsers` run the handler of `Servidor`
and answer with its result, or with a failure when the reply is lost;
`EntregaACliente` and `AckACliente` put a connection into the queue of the
listener at the address that the thread copied, and `FallaEntregaACliente`
happens when nobody listens there, the queue is full, or the network fails
(`RedFalla`). `Maquina` gives the addresses from which a client may connect.

**Process.** Each connection goes through `nueva`, `cola`, `aceptada`, `hilo`,
`servida`, `cerrada`. `signal()` of glibc restarts `accept` (the Makefile asks
for no strict standard), so that the handler only unsets `seguir`.

**Remote log.** A handler is before the call, in it, past it, or done. It makes no call
when the log is not enabled or `clnt_create` fails, which it may do though the RPC server is up. The call
returns with a reply, after the 25 seconds of the generated stub or with an
error, and `log_rpc_log` goes on alike; the RPC server takes calls one at a time,
those of callers that gave up too. It runs over TCP: a call is sent once. The
operations are REGISTER and UNREGISTER; every handler logs in the same place.

**Protocol.** A request is the lengths of its strings, final zeros included;
the thread takes one byte at a time, as `recv_string` does, with the buffers
and the order of each handler. The answer is as many calls of `send` as the
handler makes. A close with unread bytes resets the connection, and the client
may then lose the answer. A client ends its side at any byte, with an orderly close or
with a reset of its own (`reset`): to the first the server can write once before a
`send` raises SIGPIPE, after the second any `send` may, that of an error code too.

**Texts.** Characters are letters, the space, and other blanks. The shell
splits a line at spaces and joins the words again; `normalize_message` is
`re.sub` and `strip`; without the web service SEND fails in the client.

## 3. Properties

Two hypotheses occur in several properties. `Vigente(m)`: the recipient still
has the registration that `m` was accepted under (unregistering frees the
list, on purpose). `~Colisiona(m)`: no other accepted message has the number,
sender and recipient of `m`; `ColisionAcotada` says when that can happen, and
`NingunaPerdida` shows that the hypothesis is needed.

| property | says |
|---|---|
| `TypeOK` | types; connected if and only if there is an address; each point of a thread finds its variables written |
| `Cronologia` | history, tables and the copies of the threads agree (the inductive invariant) |
| `SinPerdida` | an accepted message is pending or was transmitted |
| `SinOlvidados` | a pending message of a connected user has a thread that will deliver it, remove it or disconnect the user |
| `OrdenDeLlegada` | a stored message is not transmitted before an earlier one of the same recipient |
| `Turnos` | order of the lists and place of every thread in its list agree (the second inductive invariant) |
| `DrenaEnOrden` | a drain transmits ever newer messages, so none twice |
| `NoHereda` | an address of a later registration never receives a message of an earlier one |
| `AckDefinitivo` | an acknowledged message was transmitted and is not in the list |
| `AckNoRetrocede` | an ACK goes to an address of the registration that sent the message or of a later one of the same name, also while the copy of the address gets stale |
| `Numeracion` | between a message and the present, its sender's counter advanced no more than messages were created |
| `ColisionAcotada` | within a registration, at least `ModId - 1` messages separate two with the same number |
| `EntregaEventual` | a pending message of a connected user leaves the list, or the user stops being connected |
| `ImplementaBuzon` | every behaviour of the server is one of the mailbox: a message goes only after a transmission, with its registration, or with the process |
| `Cliente!TypeOK` | types, and a socket that is gone keeps no connection |
| `Sesiones` | through every wait of every command user and listener go together, and no receiver is at another client's socket (the client's inductive invariant) |
| `SesionConReceptor` | between commands a client listens if and only if a user is connected, with a living receiver |
| `OrdenTermina` | every command of the client ends |
| `EscritoLlega` | a message written whole to a socket that its client has not closed is on the screen or on its way |
| `SesionSuya` | the server has no session at a listener whose client, between commands, does not hold it |
| `Acuerdo` | at every point of a command a session of the server at a client's listener is the one that the client opens, holds or ends, and every address in use has an owner (the invariant of both) |
| `Paradero` | an accepted message is on the screen, lost with a socket that its client closed, on its way, or pending; and then, while its recipient has a session, a thread is about to deliver it, remove it or end the session |
| `SeMuestra` | an accepted message for a user in session is displayed, unless the session ends first |
| `SinFugas` | every descriptor is main's while it starts a thread, or a thread's, and there are no more than the process may have |
| `FinOrdenado` | main ends after a SIGINT only, with an empty queue, and a thread meets a destroyed service only just before the end |
| `NoVuelve` | after a SIGINT every step of main goes forward (an action property) |
| `NadieEspera` | a connection leaves the queue unless threads hold every descriptor |
| `AcabaConOtro` | after a SIGINT, one more client ends the server |
| `UnSitio` | a call is in the queue of the RPC server, on the screen or lost, never in two of them (the inductive invariant) |
| `UnaLinea` | the log has at most one line per operation |
| `LineaAntes` | the line of an answered call precedes its operation |
| `OperaSinRegistro` | every request is executed, with or without the log |
| `Alineada` | the thread is inside the string that the client wrote at that place and within its buffer (the inductive invariant) |
| `EjecucionFiel` | the service gets the strings that the client wrote, whole and within their buffers |
| `RespuestaSinCorte` | a reset never takes the answer to a request that was executed |
| `MuerteTrasExito` | without a reset by the client, only the answer to a success, in several writes, can end the process |
| `ContestaOCierra` | a thread whose client wrote everything, or closed, comes to an end |
| `FormaNormal` | what is sent has single spaces and none at the ends |
| `PalabrasIntactas` | message and file are the words that were typed |

## 4. Runs

| run | instance | checks |
|---|---|---|
| `Reparto` | 2 users, 2 threads, 2 messages, 1 registration each | `TypeOK` `SinPerdida` |
| `Colas` | `FairSpec`, 1 user, 2 threads, 3 messages, `ModId` = 3, malloc failures | `Numeracion` `OrdenDeLlegada` `DrenaEnOrden` `ColisionAcotada` `EntregaEventual` |
| `Buzon` | 1 user, 2 threads, 2 messages (attachments), 2 registrations, 1 death | `Cronologia` `NoHereda` `AckDefinitivo` `AckNoRetrocede` `SinOlvidados` `Turnos` `ImplementaBuzon` |
| `Cliente` | `FairSpec`, 2 clients, one with every command, one with CONNECT and GETFILE, 2 sockets, queue of 1 | `TypeOK` `Sesiones` `SesionConReceptor` `OrdenTermina` |
| `Escrito` | 1 user, 1 client, 2 sockets, every command, attachments, network failures, deaths of the client, 1 death of the server | `EscritoLlega` `SesionSuya` `Acuerdo` `Paradero` |
| `Pantalla` | `FairSistema`, 1 user, 1 client, 2 addresses, 2 sockets, network failures and deaths of the client | `SeMuestra` |
| `Ciclo` | `FairSpec`, 4 connections, 2 descriptors | `SinFugas` `FinOrdenado` `NoVuelve` `NadieEspera` `AcabaConOtro` |
| `Registro` | `FairRPC`, 2 handlers, 2 names, 1 end of the RPC server | `UnSitio` `UnaLinea` `LineaAntes` `OperaSinRegistro` |
| `Protocolo` | `FairSpec`, buffers of 3, 3 and 2 bytes, strings up to one byte beyond | `Alineada` `EjecucionFiel` `RespuestaSinCorte` `MuerteTrasExito` `ContestaOCierra` |
| `ServicioWeb` | 2 letters, space and tab, up to 5 characters | `FormaNormal` `PalabrasIntactas` |

Deadlock is checked in the first four, where another request is always possible.
It is not where the instance really comes to an end: clients that used up their
ports and messages (`Escrito`, `Pantalla`), a server that ended (`Ciclo`), all
requests done (`Registro`), one connection (`Protocolo`), one line
(`ServicioWeb`).

Bounds, and why they are enough for the cases of interest. `MaxMensajes`
(messages created), `MaxAltas` (registrations of one name), `MaxCaidas`
(deaths of the server), `MaxReinicios` (ends of the RPC server), `MaxLargo`
(length of a text) and `Exceso` (bytes of a string beyond its buffer) only cut the exploration. Two messages are what a wrong removal, an
overtaking or a collision needs, and three give a drain something to skip; two
registrations of a name are an old one and a new one; two threads give two
drains, or a drain and a live delivery, of the same list. A single user sends to itself, as the code
allows, so that one-user instances lose no interleaving of the recipient's
list. `ModId` = 3 makes the numbers wrap at the third message; 100 keeps them
from wrapping where the property is about something else. In the runs of the
server alone `Puertos` has one element: their properties compare registrations,
not ports. Two sockets of a client are one that is closing and the next. `Cliente` has no
messages (`Cartas` is empty): `Escrito` and `Pantalla` have those of the server.
The runs of the system have one thread of the server; see section 9.
SEND is in `Reparto` and `Colas`, SENDATTACH in `Buzon`, both in `Escrito`. Four connections
and two descriptors leave two to wait. Strings of one byte beyond a buffer of two
or three reach each side of its limit; the code's 16, 64 and 256 behave alike.
Five characters hold two words, the blanks between them and at both ends.
Symmetry is used in `Reparto` only, which checks safety alone.

Every property of these runs is broken by a seeded bug that stands next to
the definition that it changes ("Seeded bug" in the modules): a removal that
does not compare the sender, an insertion at the head, a forced disconnection
that is skipped or that empties the list, a join without a timeout, a string cut to its buffer, and so on.

One more instance stands beside the runs: `tlc -config MCFantasma.cfg MCSistema` checks
`FantasmaCae`, that a session at a socket that no longer exists ends with the next
message for it, unless that reaches an older socket. Nobody can send in the name of a user
whose session is such a phantom, so that it takes two users: the client dies, or loses the
answer of its CONNECT, comes back as the other user and sends to the first. It holds
(29,934 states). That a thread then has the message in its hands is `Paradero`, for any instance.

## 5. Where code and documentation disagree

Two runs end with a counterexample, and the findings in `PROJECT.json` quote
the sentence that the program does not keep:

| run | what happens |
|---|---|
| `NingunaPerdida` | a sender registers again, its numbers start again, and the removal after a delivery unlinks an older message with the same number: it is lost |
| `OrdenEnPantalla` | the receiver that an earlier session left inside `accept()` takes a connection of the new session's socket: two receivers display two stored messages in the other order |

Further claims of comments and tests that do not hold, each stated in its
module and refuted by `tlc -config MC<property>.cfg <module>`:

| property (module) | what happens |
|---|---|
| `EntregaUnica` (`MCServidor`) | CONNECT, DISCONNECT, CONNECT: two drains transmit the same stored message |
| `SoloSiSigueConectado` (`MCServidor`) | a user unregisters during a delivery of its drain; the -1 is ignored and the drain goes on as if it were connected (`server.c:318`) |
| `FalloConserva` (`MCServidor`) | a client that closes while it is being written to ends the server by SIGPIPE, with all pending messages |
| `AckAlRemitente` (`MCServidor`) | the sender's name was registered again before the sender is looked up: the new owner gets the ACK (`server.c:425`) |
| `ReceptorParado` (`MCCliente`) | the close does not wake the receiver, and the join gives up (`client.py:166`) |
| `PuertoCerrado` (`MCCliente`) | the port of a disconnected client still takes a connection (`tests/run_tests.py:983`) |
| `AckMostrado` (`MCSistema`) | a recipient disconnects with the message in its accept queue: it is acknowledged and never displayed (`client.py:205`) |
| `SesionAcordada` (`MCSistema`) | a failed delivery disconnects the user on the server only; the client believes that it is connected (`client.py:22`) |
| `AcabaTrasSigint` (`CicloServidor`) | `accept` is restarted after SIGINT, and no client comes (`server.c:183`) |
| `FinLimpio` (`CicloServidor`) | a handler calls the service after `servicio_destroy` (`server.c:50`) |
| `ErrorDevuelto` (`Protocolo`) | the second `send` of an answer, or the first after a reset by the client, raises SIGPIPE instead of returning -1 (`protocolo.c:18`) |

## 6. Fairness

`FairSpec` asks weak fairness of `Paso(t)` for every thread `t`: a thread that
can take a step takes it. A thread waits for nothing but the mutex, which
every `servicio_*` function releases on every path, and the network, where
every call returns in the end (`connect` and `send` on a socket whose peer
stopped answering fail after the kernel's timeouts; a peer that keeps its
connection open but never reads is not excluded by the code, and is by this
assumption). No fairness is asked of requests: nobody has to connect. Nothing
says which of success and failure a delivery has; `EntregaEventual` holds
either way, because a failure disconnects the user.

`FairSpec` of `Cliente` asks it of the shell past its waits, of each receiver,
and of the answers: the server, or the kernel in its place, answers or closes.
A `join` returns after two seconds whatever the receiver does, and a GETFILE
waits only for a receiver that runs or a connection that is reset. `FairSistema` asks
it of both sides and of a server that answers who asks. `FairSpec` of
`CicloServidor` asks it of `main` alone, not of the threads, which may wait for
a silent client for ever (no `recv` has a timeout), nor of clients.
`FairRPC` asks it of the handlers and not of the RPC server: the call's timeout
makes it return. `FairSpec` of `Protocolo` asks it of the thread, not of the
client.

## 7. Proofs

Every theorem holds for every value of the constants: any number of users, threads, addresses,
messages, registrations, deaths, clients, ports, handlers, connections and descriptors, any queue length,
any length of a text, any `ModId > 1`, and the buffers of the code (64, 256 and 16 bytes) as well as
those of the run. The bounds of the exploration (`MaxMensajes` and the like) are
constants too, so that a theorem has no bound.

| theorem | module | states |
|---|---|---|
| `EliminarPropiedades` | `GarantiasProofs` | the removal deletes the first matching node and keeps the order of the others |
| `TipoCorrecto` | `GarantiasProofs` | `Spec => []TypeOK` |
| `CronologiaCorrecta` | `GarantiasProofs` | `Spec => []Cronologia` |
| `SinPerdidaCorrecta` | `GarantiasProofs` | `Spec => []SinPerdida` |
| `NoHeredaCorrecta` | `GarantiasProofs` | `Spec => []NoHereda` |
| `NumeracionCorrecta` | `GarantiasProofs` | `Spec => []Numeracion` |
| `ColisionAcotadaCorrecta` | `GarantiasProofs` | `Spec => []ColisionAcotada` |
| `TurnosCorrecta` | `GarantiasProofs` | `Spec => []Turnos` |
| `DrenaEnOrdenCorrecta` | `GarantiasProofs` | `Spec => []DrenaEnOrden` |
| `OrdenDeLlegadaCorrecta` | `GarantiasProofs` | `Spec => []OrdenDeLlegada` |
| `AckDefinitivoCorrecta` | `GarantiasProofs` | `Spec => []AckDefinitivo` |
| `SinOlvidadosCorrecta` | `GarantiasProofs` | `Spec => []SinOlvidados` |
| `AckNoRetrocedeCorrecta` | `GarantiasProofs` | `Spec => []AckNoRetrocede` |
| `ImplementaBuzonCorrecta` | `RefinamientoProofs` | `Spec => ImplementaBuzon` |
| `UnSitioCorrecto` | `RegistroProofs` | `SpecRPC => []UnSitio` |
| `UnaLineaCorrecta` | `RegistroProofs` | `SpecRPC => []UnaLinea` |
| `LineaAntesCorrecta` | `RegistroProofs` | `SpecRPC => []LineaAntes` |
| `AlineadaCorrecta` | `ProtocoloProofs` | `Spec => []Alineada` |
| `EjecucionFielCorrecta` | `ProtocoloProofs` | `Spec => []EjecucionFiel` |
| `RespuestaSinCorteCorrecta` | `ProtocoloProofs` | `Spec => []RespuestaSinCorte` |
| `MuerteTrasExitoCorrecta` | `ProtocoloProofs` | `Spec => []MuerteTrasExito` |
| `SinFugasCorrecta` | `CicloProofs` | `Spec => []SinFugas` |
| `FinOrdenadoCorrecto` | `CicloProofs` | `Spec => []FinOrdenado` |
| `NoVuelveCorrecta` | `CicloProofs` | `Spec => NoVuelve` |
| `NormalizeMessage` | `ServicioWebProofs` | the normalisation keeps the words of a text and leaves it in normal form |
| `FormaNormalCorrecta` | `ServicioWebProofs` | `Spec => []FormaNormal` |
| `PalabrasIntactasCorrecta` | `ServicioWebProofs` | `Spec => []PalabrasIntactas` |
| `ClienteTipoCorrecto` | `ClienteProofs` | `Spec => []TypeOK` |
| `SesionesCorrecta` | `ClienteProofs` | `Spec => []Sesiones` |
| `SesionConReceptorCorrecta` | `ClienteProofs` | `Spec => []SesionConReceptor` |
| `SistemaEsServidor` | `SistemaProofs` | `SpecSistema => Spec`, the specification of the server |
| `SistemaEsCliente` | `SistemaProofs` | `SpecSistema => C!Spec`, that of the clients |
| `AcuerdoCorrecto` | `SistemaProofs` | `SpecSistema => []Acuerdo` |
| `SesionSuyaCorrecta` | `SistemaProofs` | `SpecSistema => []SesionSuya` |
| `EscritoLlegaCorrecta` | `SistemaProofs` | `SpecSistema => []EscritoLlega` |
| `ParaderoCorrecto` | `SistemaProofs` | `SpecSistema => []Paradero` |

Assumptions: `ServicioAssumption` and `ServidorAssumption` for the server and
the log, `ClienteAssumption` for the client, `SistemaAssumption` (with those of
the server) for the system, `ProtocoloAssumption` for the protocol,
`CicloAssumption` for the process, `ServicioWebAssumption` for the texts. They give
the constants their types, keep the absent values (`SinDir`, `SinMsg`,
`NoHilo`, `Nada`) apart from what they stand in for, and say that the buffers hold at
least one byte and the name of an operation, that connections are finitely many
and that there is a descriptor for one of them.

**Nothing is lost.** `SinPerdida` alone is not inductive: `BorraPendiente`
removes a node that was chosen by a copy made several steps earlier. What is
missing is that the copy is an accepted message, that it was accepted for the
user whose list is changed, and that it was already transmitted; and, to
conclude from the number and the sender that the node *is* the copied message,
that two accepted messages with the same `texto` are one. `Cronologia` says
exactly this about every point of every thread; its part `CronoTablas` ties lists
and addresses to the current registration of their owner. It is inductive
relative to `TypeOK`. `NoHereda` follows from its part `Copias`: the address in
a thread was copied no later than the registration of the message it carries.
`TodoPasoEsEfecto` reduces the steps of `Next` to seven effects on the variables,
so that the later proofs do not repeat the result codes.

**Numbers.** `ColisionAcotada` speaks of two messages, and no step shows how far
apart they are. `Numeracion` compares each message with the counter instead:
going around from `ModId - 1` to 1, its sender's `ultimo_id` is at most as far
from the message's number as messages were created since. Each creation moves both by
one (a failed `malloc` moves both too), and a new registration starts another
count. When the counter comes back to a number, a whole range was given out.

**Order.** `Turnos` adds the places of the threads: along `pendientes[u]` the
messages are ever newer; whatever is in the list is newer than the last
message that a drain acknowledged, and no older than the one in its hands; a
stored message in the hands of a thread has all its predecessors transmitted; a
thread past the removal left nothing to remove. It survives a step of *another*
thread because a list only grows at its end, by a message newer than all, and
shrinks anywhere. `DrenaEnOrden` and `AckDefinitivo` follow at once, `OrdenDeLlegada`
with the history of transmissions. `SinOlvidados` is inductive on top of them: a message
enters the list of a connected user together with the thread that delivers
it, and a CONNECT starts a drain.

**ACK.** The sender is looked up by name when the delivery has ended, and by then
the name may belong to somebody else (`AckAlRemitente` fails); the address is used
after the lookup, and by then it may be stale. `AckNoRetrocede` therefore speaks of the
copy in the thread as well as of the ACK. That the copy is not older than the message needs
`Cronologia` and `Numeracion`: a session belongs to the present registration of its user, and
an accepted message carries one no later than that (`CopiaDelRemitente`). The copy then stays
as it is while the tables change, and only a thread at `envia` writes an ACK (`PasoAcks`).

**Mailbox.** The proof of `ImplementaBuzon` takes the mapping in a state and in
the next one as functions of the values that it is made of (`FicheroDe`,
`RetenidasDe`, `TransmitidasDe`), and shows for each of the seven effects which
action of `Buzon` it is, or that the mailbox stays as it is: REGISTER opens a mailbox
(`AltaImplementa`), UNREGISTER closes it, the death of the process is the disaster, and no
other effect takes a message that was not transmitted. `Turnos` provides
the guard `EnTurno`, `Cronologia` that what leaves was transmitted, or has a twin
that was, and `EliminarUno` that a removal takes away one message. `SerieAcotada`
shows that messages created stay within the numbers of the mailbox.

**Remote log.** `UnaLinea` and `LineaAntes` say nothing of calls on their way, so that
no step can be shown to keep them. `UnSitio` says where a call can be: before
the call it is nowhere, after it in at most one of the queue and the screen, and
once in each.

**Protocol.** `Alineada` ties the position of the thread to what the client wrote: the
strings before it ended where they were taken to end, and it is inside the
next one, with room in the buffer. The byte that follows is the end of *some* string if
and only if it ends this one (`SoloElSuyo`), because the ends are ever further.
The ends are a recursive function of at most five lengths, and `SumaHasta` shows
that its equation has a solution by giving it, which needs no induction. `RespuestaSinCorte` follows
since an executed request has nothing left to read. `MuerteTrasExito` is not
inductive: it speaks of a process that has died, and nothing of the moments before (and
only of orderly closes: a reset by the client may end the process at any answer). `Escrituras` says
how much of its answer a thread has written at each point, and `EnviosDe` that only a
success of SEND, SENDATTACH or USERS takes more than one write.

**Process.** `SinFugas` and `FinOrdenado` are inductive together with the types:
`FinOrdenado` says what is true at each point of main's way out, and a thread that
comes late does so between `servicio_destroy` and the end, where it and the
service are seen together. A step takes a descriptor only in `accept`, whose
guard leaves room for it; the lemmas on cardinalities (`MenosAbiertas`,
`UnaMas`) are what the arithmetic of the limit needs. `NoVuelve` is an action
property: each step of main after a SIGINT goes forward along `Camino`.

**Texts.** `Sub` (the `re.sub`) and `Palabras` (the reference: the words of a text) are
recursive functions over the prefixes of a text, and the theorems say what they
compute for texts of any length. The library's induction takes an operator as
parameter, which the provers cannot instantiate, so that `InduccionHasta` derives induction on numbers, *for
a set of them*, from the well-founded order, and `InduccionTexto` from it
induction on texts: a set that holds the empty text, and with each text the one with a
character more, holds them all. The other obstacle is the CHOOSE behind a recursive function:
`Recursion` shows that such a function exists, `DichasUna` and `HechoUna` that
two of them agree on the prefixes of a text, and from both come the equations
`PalabrasPaso` and `SubPaso` for a text and a character more. With these, `SubBien` (what
`re.sub` leaves is compact and has the same words), `PalabrasCorte` (a blank
parts the words before it from those after it), the two ends of `strip` and
`NormalizeMessage` are inductions or cases. The invariant `TextoInv` adds the
types to the two properties; SENDATTACH cuts the line at a space, which is `PalabrasCorte`.

**Client.** Between commands user and listener go together, but in the middle of a
CONNECT there is a listener and no user, and in the join of `_stop_listener` a user and
no listener. `Sesiones` says what there is at each wait of each command, and that
a receiver which an old session left behind stays with the sockets of its client. With
the types, `Sesiones` and `SesionConReceptor` are inductive in an environment
that answers anything.

**System.** Every step of server and clients is a step of the server or leaves it
as it is (`SistemaEsServidor`), and likewise for the clients (`SistemaEsCliente`): the second needs that
the list of USERS names only ports that some client owns, which is part of `Acuerdo`. So every theorem
about the server or the clients holds in the whole system. `SesionSuya` is
about clients between commands and is not inductive; `Acuerdo` says it at every
point of a command: while a CONNECT is in course a session at the new listener
can only be the one that the answer on its way tells of, and otherwise it is that of the
client's user. A new listener has no session, because the port was never
used (every address in the tables, in the threads and in the history has an
owner). `EscritoLlega` then follows from what the clients do with a queue: a
connection leaves it only to a receiver, and a receiver that attends to a
message displays it (`CaminoPaso`). `Paradero` joins both sides: since the whole system is a
behaviour of the server, `SinPerdida` and `SinOlvidados` hold in it; what is
pending is theirs, and what was transmitted is `EscritoLlega`'s. It is what
remains of `SeMuestra` without fairness.

**Model-checked only.** All liveness (`EntregaEventual`, `OrdenTermina`,
`SeMuestra`, `NadieEspera`, `AcabaConOtro`, `OperaSinRegistro`,
`ContestaOCierra`, and `FantasmaCae` beside the runs): the prover does not reason about ENABLED, and so not about fairness. The
counterexamples of section 5 are TLC's. Every other property of the runs is a
theorem.

## 8. Plan

Done: the server, the mailbox and its refinement, the client, client and server
together, the life of the process, the remote log, the protocol and the texts;
proofs of every safety property and action property of the runs. Left:

1. More than one thread of the server in the liveness runs of the system.
2. The transfer of a file as bytes, with a copy that is cut: `Cliente` knows that a
   GETFILE ends, not what it leaves on the disk.
3. The remote log in the composition: `RegistroRPC` runs beside `Servidor`, on
   the same operations, and not inside its threads.

## 9. Not modelled

In the server: the content of texts and file names past their lengths, printing, parsing of
the command line and the set-up of the listening socket, memory management of
the nodes other than failing `malloc`, `recv_code` (without callers in the
server). In the client: `bind` never gives the same port twice (`Puertos` are not
reused), the content of transferred files, peers that are not `client.py` and
never send what they should, and a full queue makes a GETFILE fail at once; `accept`
fails only on a closed socket, so that the `except OSError: break` of an open one
(`client.py:187`, a client out of descriptors, say), after which a connected client
has no receiver, is left out. In the system: a request that was written by a client that
then dies or gives up is forgotten (`Despacha`, `Termina`), though the server may
still execute it; in `Servidor` alone any request may come at any time. The instances `Escrito`,
`Pantalla`, `OrdenEnPantalla` and `MCFantasma` have one thread of the server, so that no old
delivery of another thread meets a new CONNECT there: `EscritoLlega`, `SesionSuya`, `Acuerdo` and
`Paradero` are proved for any number of threads, `SeMuestra` and `FantasmaCae` are not. In
the log: the XDR encoding of the generated stubs, the null procedure and the
replies to malformed calls; the static result that the calls share holds 0 in
every case and no caller reads it. In the web service: requests that
`client.py` never makes. The test program is read as documentation of what is
promised, and the Makefile only for its flags.
