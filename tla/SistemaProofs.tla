--------------------------- MODULE SistemaProofs ---------------------------
(***************************************************************************)
(* Server and clients together, for any number of clients, users, threads  *)
(* and ports: the whole runs as the server and as the client that the      *)
(* other modules prove about, both agree at every step on whose listener   *)
(* is whose, and what was written to an open socket is displayed.          *)
(***************************************************************************)
EXTENDS Sistema, GarantiasProofs
-----------------------------------------------------------------------------
(* The server alone: where its addresses come from.                        *)

(* An address in the tables, in a thread or in the history is in use.      *)
LEMMA EstaEnUso ==
  /\ \A u \in Usuarios : conectado[u] => dir[u] \in EnUso
  /\ \A t \in Hilos : pc[t] # "libre" /\ hilo[t].dir # SinDir => hilo[t].dir \in EnUso
  /\ \A t \in Hilos : pc[t] = "envia" => hilo[t].rem \in EnUso
  /\ \A e \in entregados : e.dir \in EnUso
BY DEF EnUso

(* What a step may add to them: the address of a user that it connects.    *)
Abre(d) == \E u \in Usuarios : ~conectado[u] /\ conectado'[u] /\ d = dir'[u]

(* The four places where an address may be after a step, one by one.       *)
LEMMA EnUsoPaso ==
  ASSUME \A u \in Usuarios :
             conectado'[u] => (conectado[u] /\ dir'[u] = dir[u]) \/ ~conectado[u],
         \A t \in Hilos : pc'[t] # "libre" /\ hilo'[t].dir # SinDir =>
             hilo'[t].dir \in EnUso,
         \A t \in Hilos : pc'[t] = "envia" => hilo'[t].rem \in EnUso,
         \A e \in entregados' : e.dir \in EnUso
  PROVE  \A d \in EnUso' : d \in EnUso \/ Abre(d)
<1> SUFFICES ASSUME NEW d \in EnUso' PROVE d \in EnUso \/ Abre(d)
  OBVIOUS
<1>1. \/ \E u \in Usuarios : conectado'[u] /\ d = dir'[u]
      \/ \E t \in Hilos : pc'[t] # "libre" /\ hilo'[t].dir # SinDir /\ d = hilo'[t].dir
      \/ \E t \in Hilos : pc'[t] = "envia" /\ d = hilo'[t].rem
      \/ \E e \in entregados' : d = e.dir
  BY DEF EnUso
<1> QED BY <1>1, EstaEnUso DEF Abre

(* An address in use was in use before, unless it is that of a session     *)
(* that begins; and a session that goes on keeps its address.              *)
LEMMA DireccionesPaso ==
  ASSUME TypeOK, [Next]_vars
  PROVE  /\ \A d \in EnUso' : d \in EnUso \/ Abre(d)
         /\ \A u \in Usuarios : conectado[u] /\ conectado'[u] => dir'[u] = dir[u]
<1> DEFINE Tablas == \A u \in Usuarios : conectado'[u] =>
                        (conectado[u] /\ dir'[u] = dir[u]) \/ ~conectado[u]
           Hilo(t) ==
             /\ pc'[t] # "libre" /\ hilo'[t].dir # SinDir => hilo'[t].dir \in EnUso
             /\ pc'[t] = "envia" => hilo'[t].rem \in EnUso
           Envios == \A e \in entregados' : e.dir \in EnUso
<1>0. TipoServicio /\ TipoHilos BY DEF TypeOK
<1>1. SUFFICES Tablas /\ (\A t \in Hilos : Hilo(t)) /\ Envios
  BY <1>1, EnUsoPaso DEF Abre
<1>2. UNCHANGED <<conectado, dir>> => Tablas OBVIOUS
<1>3. ASSUME NEW t \in Hilos, UNCHANGED <<pc[t], hilo[t]>> PROVE Hilo(t)
  BY <1>3, EstaEnUso
<1>4. entregados' = entregados => Envios BY EstaEnUso
<1>5. ASSUME NEW t \in Hilos, NEW punto, NEW h, Lanza(t, punto, h),
             punto # "libre" /\ h.dir # SinDir => h.dir \in EnUso,
             punto = "envia" => h.rem \in EnUso
      PROVE  \A s \in Hilos : Hilo(s)
  <2>1. /\ \A s \in Hilos : s # t => UNCHANGED <<pc[s], hilo[s]>>
        /\ pc'[t] = punto /\ hilo'[t] = h
    BY <1>0, <1>5 DEF Lanza, Salta, TipoHilos
  <2> QED BY <1>3, <1>5, <2>1
<1>6. ASSUME NEW u \in Usuarios,
             \/ NodoInicial(u) \/ marcar_desconectado(u)
             \/ \E d \in Direcciones : ~conectado[u] /\ marcar_conectado(u, d)
      PROVE  Tablas
  BY <1>0, <1>6 DEF NodoInicial, marcar_desconectado, marcar_conectado, TipoServicio
<1>7. UNCHANGED <<pc, hilo>> => \A t \in Hilos : Hilo(t) BY <1>3
<1>8. CASE UNCHANGED vars
  BY <1>2, <1>4, <1>7, <1>8 DEF vars, varsServicio, tablas, red
<1>9. ASSUME NEW u \in Usuarios, Registra(u) \/ DaDeBaja(u) \/ Desconecta(u)
      PROVE  Tablas /\ (\A t \in Hilos : Hilo(t)) /\ Envios
  BY <1>4, <1>6, <1>7, <1>9 DEF Registra, DaDeBaja, Desconecta, red
<1>10. ASSUME NEW t \in Hilos, NEW u \in Usuarios, NEW d \in Direcciones, Conecta(t, u, d)
       PROVE  Tablas /\ (\A s \in Hilos : Hilo(s)) /\ Envios
  <2> DEFINE h == [usuario |-> u, msg |-> SinMsg, dir |-> SinDir, rem |-> SinDir,
                   drena |-> TRUE, previo |-> 0]
  <2>1. Lanza(t, "consulta", h) /\ h.dir = SinDir BY <1>10 DEF Conecta, Ocupa
  <2> HIDE DEF h
  <2>2. \A s \in Hilos : Hilo(s) BY <1>5, <2>1
  <2> QED BY <1>4, <1>6, <1>10, <2>2 DEF Conecta, red
<1>11. ASSUME NEW t \in Hilos, NEW r \in Usuarios, NEW u \in Usuarios, NEW m,
              Acepta(t, r, u, m)
       PROVE  Tablas /\ (\A s \in Hilos : Hilo(s)) /\ Envios
  <2> DEFINE h == [usuario |-> u, msg |-> m, dir |-> dir[u], rem |-> SinDir,
                   drena |-> FALSE, previo |-> 0]
  <2>1. /\ UNCHANGED <<conectado, dir, entregados>>
        /\ \/ UNCHANGED <<pc, hilo>>
           \/ conectado[u] /\ Lanza(t, "entrega", h) /\ h.dir = dir[u]
    BY <1>11 DEF Acepta, Ocupa, red
  <2> HIDE DEF h
  <2>2. \A s \in Hilos : Hilo(s) BY <1>5, <1>7, <2>1, EstaEnUso
  <2> QED BY <1>2, <1>4, <2>1, <2>2
<1>12. ASSUME NEW r \in Usuarios, SinNodo(r)
       PROVE  Tablas /\ (\A s \in Hilos : Hilo(s)) /\ Envios
  BY <1>2, <1>4, <1>7, <1>12 DEF SinNodo, red
<1>13. ASSUME NEW t \in Hilos, NEW n, Vuelve(t, n), pc[t] # "libre"
       PROVE  \A s \in Hilos : Hilo(s)
  <2> DEFINE h == [hilo[t] EXCEPT !.msg = SinMsg, !.rem = SinDir, !.previo = n]
  <2>1. CASE hilo[t].drena
    <3>1. Lanza(t, "consulta", h) BY <1>13, <2>1 DEF Vuelve
    <3>2. h.dir = hilo[t].dir BY <1>0, <1>13 DEF TipoHilos, Locales, Tarea
    <3> HIDE DEF h
    <3> QED BY <1>5, <1>13, <3>1, <3>2, EstaEnUso
  <2>2. CASE ~hilo[t].drena
    BY <1>5, <1>13, <2>2 DEF Vuelve, Acaba
  <2> QED BY <2>1, <2>2
<1>14. ASSUME NEW t \in Hilos, Paso(t)
       PROVE  Tablas /\ (\A s \in Hilos : Hilo(s)) /\ Envios
  <2>0. pc[t] # "libre" => hilo[t] \in Tarea BY <1>0 DEF TipoHilos, Locales
  <2>1. CASE ConsultaConexion(t)
    <3>1. /\ pc[t] = "consulta" /\ hilo[t] \in Tarea /\ hilo[t].usuario \in Usuarios
          /\ UNCHANGED <<conectado, dir, entregados>>
      BY <2>0, <2>1 DEF ConsultaConexion, Tarea, varsServicio, tablas, red
    <3> DEFINE u == hilo[t].usuario
               d == IF ~registrado[u] THEN hilo[t].dir
                    ELSE IF conectado[u] THEN dir[u] ELSE SinDir
    <3>2. IF d = SinDir THEN Acaba(t)
          ELSE Lanza(t, "bucle", [hilo[t] EXCEPT !.dir = d])
      BY <2>1 DEF ConsultaConexion, servicio_get_info_conexion, buscar_usuario
    <3>3. d # SinDir => d \in EnUso BY <3>1, EstaEnUso
    <3> HIDE DEF d
    <3>4. [hilo[t] EXCEPT !.dir = d].dir = d BY <3>1 DEF Tarea
    <3>5. \A s \in Hilos : Hilo(s)
      <4>1. CASE d = SinDir BY <1>5, <3>2, <4>1 DEF Acaba
      <4>2. CASE d # SinDir
        <5> DEFINE h == [hilo[t] EXCEPT !.dir = d]
        <5>1. Lanza(t, "bucle", h) /\ h.dir \in EnUso BY <3>2, <3>3, <3>4, <4>2
        <5> HIDE DEF h
        <5> QED BY <1>5, <5>1
      <4> QED BY <4>1, <4>2
    <3> QED BY <1>2, <1>4, <3>1, <3>5
  <2>2. CASE SiguientePendiente(t)
    <3>1. /\ pc[t] = "bucle" /\ hilo[t] \in Tarea
          /\ UNCHANGED <<conectado, dir, entregados>>
      BY <2>0, <2>2 DEF SiguientePendiente, varsServicio, tablas, red
    <3>2. \/ Acaba(t)
          \/ \E m : Lanza(t, "entrega", [hilo[t] EXCEPT !.msg = m])
      BY <2>2 DEF SiguientePendiente
    <3>3. CASE Acaba(t) BY <1>2, <1>4, <1>5, <3>1, <3>3 DEF Acaba
    <3>4. ASSUME NEW m, Lanza(t, "entrega", [hilo[t] EXCEPT !.msg = m])
          PROVE  \A s \in Hilos : Hilo(s)
      <4> DEFINE h == [hilo[t] EXCEPT !.msg = m]
      <4>1. Lanza(t, "entrega", h) BY <3>4
      <4>2. h.dir = hilo[t].dir BY <3>1 DEF Tarea
      <4> HIDE DEF h
      <4> QED BY <1>5, <3>1, <4>1, <4>2, EstaEnUso
    <3> QED BY <1>2, <1>4, <3>1, <3>2, <3>3, <3>4
  <2>3. CASE Entrega(t) \/ FallaEntrega(t)
    <3>1. /\ UNCHANGED <<conectado, dir, hilo>> /\ pc[t] = "entrega"
          /\ hilo[t].dir \in EnUso
      <4>1. pc[t] = "entrega" BY <2>3 DEF Entrega, FallaEntrega
      <4>2. hilo[t].dir # SinDir
        BY <1>0, <4>1, ServicioAssumption DEF TipoHilos, Locales, EnMano
      <4> QED BY <2>3, <4>1, <4>2, EstaEnUso
          DEF Entrega, FallaEntrega, varsServicio, tablas
    <3>2. \A s \in Hilos : Hilo(s)
      <4>1. (\A s \in Hilos : s # t => pc'[s] = pc[s]) /\ pc'[t] # "envia"
        BY <1>0, <2>3 DEF Entrega, FallaEntrega, Salta, TipoHilos
      <4> QED BY <3>1, <4>1, EstaEnUso
    <3>3. Envios
      BY <2>3, <3>1, EstaEnUso DEF Entrega, FallaEntrega, red
    <3> QED BY <1>2, <3>1, <3>2, <3>3
  <2>4. CASE BorraPendiente(t)
    <3>1. UNCHANGED <<conectado, dir, hilo, entregados>> /\ pc[t] = "borra"
      BY <2>4 DEF BorraPendiente, servicio_eliminar_pendiente, red
    <3>2. \A s \in Hilos : Hilo(s)
      <4>1. (\A s \in Hilos : s # t => pc'[s] = pc[s]) /\ pc'[t] # "envia"
        BY <1>0, <2>4 DEF BorraPendiente, Salta, TipoHilos
      <4> QED BY <3>1, <4>1, EstaEnUso
    <3> QED BY <1>2, <1>4, <3>1, <3>2
  <2>5. ASSUME NEW escrito \in BOOLEAN, EnviaAck(t, escrito)
        PROVE  Tablas /\ (\A s \in Hilos : Hilo(s)) /\ Envios
    <3>1. /\ UNCHANGED <<conectado, dir, entregados>> /\ pc[t] # "libre"
          /\ Vuelve(t, hilo[t].msg.texto)
      BY <2>5 DEF EnviaAck, varsServicio, tablas
    <3> QED BY <1>2, <1>4, <1>13, <3>1
  <2>6. CASE FuerzaDesconexion(t)
    <3>1. /\ entregados' = entregados /\ pc[t] # "libre" /\ Vuelve(t, hilo[t].previo)
          /\ hilo[t].usuario \in Usuarios
          /\ UNCHANGED tablas \/ marcar_desconectado(hilo[t].usuario)
      BY <2>0, <2>6 DEF FuerzaDesconexion, red, Tarea, servicio_marcar_desconectado_forzado
    <3>2. Tablas BY <1>2, <1>6, <3>1 DEF tablas
    <3>3. \A s \in Hilos : Hilo(s) BY <1>13, <3>1
    <3> QED BY <1>4, <3>1, <3>2, <3>3
  <2>7. CASE BuscaRemitente(t)
    <3> DEFINE r == hilo[t].msg.remitente
               h == [hilo[t] EXCEPT !.rem = dir[r]]
    <3>1. /\ pc[t] = "ack" /\ hilo[t] \in Tarea /\ r \in Usuarios
          /\ UNCHANGED <<conectado, dir, entregados>>
      BY <1>0, <2>0, <2>7
         DEF BuscaRemitente, TipoHilos, Locales, EnMano, Mensaje, varsServicio, tablas, red
    <3>2. \/ conectado[r] /\ Lanza(t, "envia", h)
          \/ Vuelve(t, hilo[t].msg.texto)
      BY <2>7 DEF BuscaRemitente, servicio_get_info_conexion
    <3>3. CASE conectado[r] /\ Lanza(t, "envia", h)
      <4>1. h.dir = hilo[t].dir /\ h.rem = dir[r] BY <3>1 DEF Tarea
      <4>2. dir[r] \in EnUso BY <3>1, <3>3, EstaEnUso
      <4> HIDE DEF h
      <4>3. \A s \in Hilos : Hilo(s)
        BY <1>5, <3>1, <3>3, <4>1, <4>2, EstaEnUso
      <4> QED BY <1>2, <1>4, <3>1, <4>3
    <3>4. CASE Vuelve(t, hilo[t].msg.texto)
      <4>1. \A s \in Hilos : Hilo(s) BY <1>13, <3>1, <3>4
      <4> QED BY <1>2, <1>4, <3>1, <4>1
    <3> QED BY <3>2, <3>3, <3>4
  <2> QED BY <1>14, <2>1, <2>2, <2>3, <2>4, <2>5, <2>6, <2>7 DEF Paso
<1>15. CASE Muere
  BY <1>4, <1>15 DEF Muere, servicio_destroy
<1> QED
  BY <1>8, <1>9, <1>10, <1>11, <1>12, <1>14, <1>15, TodoPasoEsEfecto DEF Efecto
-----------------------------------------------------------------------------
(* What is proved of the client alone, for the messages of this server.    *)
CP == INSTANCE ClienteProofs WITH Cartas <- Mensaje

(* Both instances of Cliente take the same steps.                          *)
LEMMA MismoCliente ==
  /\ C!Init <=> CP!Init
  /\ C!Next <=> CP!Next
  /\ C!vars = CP!vars
  /\ UNCHANGED C!vars <=> UNCHANGED CP!vars
  /\ [C!Next]_(C!vars) => [CP!Next]_(CP!vars)
<1>1. C!Init <=> CP!Init
  BY DEF C!Init, C!EnReposo, C!SinHilo, CP!Init, CP!EnReposo, CP!SinHilo
<1>2. C!vars = CP!vars /\ (UNCHANGED C!vars <=> UNCHANGED CP!vars)
  BY DEF C!vars, C!proceso, C!enchufes, C!pantalla,
         CP!vars, CP!proceso, CP!enchufes, CP!pantalla
<1>3. C!Next <=> CP!Next
  BY DEF C!Acaba, C!Acepta, C!Atiende, C!Bloqueados, C!Abierto, C!Escuchando,
       C!Cabe, C!Llega, C!Entra, C!ConexionAjena, C!RespuestaAjena, C!Contesta,
       C!Conexion, C!Tipos, C!Next, C!Manda, C!Sigue, C!Recibe, C!Muere,
       C!Termina, C!Descansa, C!EnReposo, C!SinHilo, C!register, C!unregister,
       C!connect, C!disconnect, C!users, C!send, C!sendAttach, C!getfile, C!quit,
       C!Pide, C!PideFichero, C!Libre, C!_stop_listener, C!RecibeConnect,
       C!RecibeDisconnect, C!RecibeGetfile, C!RecibeOtra, C!FinDeJoin,
       C!FicheroCortado, C!JoinVuelve, C!EntraEnAccept, C!Quedan, C!TrasAtender,
       C!Muestra, C!proceso, C!enchufes, C!pantalla,
       CP!Acaba, CP!Acepta, CP!Atiende, CP!Bloqueados, CP!Abierto, CP!Escuchando,
       CP!Cabe, CP!Llega, CP!Entra, CP!ConexionAjena, CP!RespuestaAjena,
       CP!Contesta, CP!Conexion, CP!Tipos, CP!Next, CP!Manda, CP!Sigue, CP!Recibe,
       CP!Muere, CP!Termina, CP!Descansa, CP!EnReposo, CP!SinHilo, CP!register,
       CP!unregister, CP!connect, CP!disconnect, CP!users, CP!send, CP!sendAttach,
       CP!getfile, CP!quit, CP!Pide, CP!PideFichero, CP!Libre, CP!_stop_listener,
       CP!RecibeConnect, CP!RecibeDisconnect, CP!RecibeGetfile, CP!RecibeOtra,
       CP!FinDeJoin, CP!FicheroCortado, CP!JoinVuelve, CP!EntraEnAccept,
       CP!Quedan, CP!TrasAtender, CP!Muestra, CP!proceso, CP!enchufes,
       CP!pantalla
<1> QED BY <1>1, <1>2, <1>3

(* And say the same of a state.                                            *)
LEMMA MismoEstado ==
  /\ \A c \in Clientes : C!Libre(c) <=> CP!Libre(c)
  /\ \A c \in Clientes : C!Abriendo(c) <=> CP!Abriendo(c)
  /\ \A p \in Puertos : C!Abierto(p) <=> CP!Abierto(p)
  /\ \A p \in Puertos, m \in Mensaje : C!EnCamino(p, m) <=> CP!EnCamino(p, m)
BY DEF C!Libre, C!Abriendo, C!EnCurso, C!Abierto, C!EnCamino, C!ConCarta,
       CP!Libre, CP!Abriendo, CP!EnCurso, CP!Abierto, CP!EnCamino, CP!ConCarta

(* And of the next one.                                                    *)
LEMMA MismoEstadoPrima ==
  /\ \A c \in Clientes : C!Abriendo(c)' <=> CP!Abriendo(c)'
  /\ \A p \in Puertos : C!Abierto(p)' <=> CP!Abierto(p)'
  /\ \A p \in Puertos, m \in Mensaje : C!EnCamino(p, m)' <=> CP!EnCamino(p, m)'
BY DEF C!Abriendo, C!EnCurso, C!Abierto, C!EnCamino, C!ConCarta,
       CP!Abriendo, CP!EnCurso, CP!Abierto, CP!EnCamino, CP!ConCarta

(* The invariant of the proofs holds those of the model.                   *)
LEMMA MismoTipo == CP!Inv => C!TypeOK /\ C!Sesiones /\ C!SesionConReceptor
BY CP!InvEsEso, SistemaAssumption
   DEF C!TypeOK, C!TipoProceso, C!TipoEnchufes, C!Mandado, C!Ordenes, C!Hilo, C!Conexion,
       C!Tipos, C!Escuchando, C!Abierto, C!Bloqueados, C!Sesiones, C!ConSusDos, C!EnLoSuyo,
       C!Abriendo, C!EnCurso, C!DeUsuario, C!SesionConReceptor, C!Libre,
       CP!TypeOK, CP!TipoProceso, CP!TipoEnchufes, CP!Mandado, CP!Ordenes, CP!Hilo,
       CP!Conexion, CP!Tipos, CP!Escuchando, CP!Abierto, CP!Bloqueados, CP!Sesiones,
       CP!ConSusDos, CP!EnLoSuyo, CP!Abriendo, CP!EnCurso, CP!DeUsuario,
       CP!SesionConReceptor, CP!Libre
-----------------------------------------------------------------------------
(* What the steps of the whole are for each side.                          *)

(* What a request carries: a name, a user if it is for one, and a listener *)
(* of its own if it is a CONNECT.                                          *)
LEMMA Peticiones ==
  ASSUME CP!Inv, NEW c \in Clientes, shell[c].fase = "pide"
  PROVE  /\ shell[c].sobre \in Usuarios
         /\ shell[c].orden \in {"USERS", "SEND", "SENDATTACH", "GETFILE", "QUIT"} =>
                usuario[c] \in Usuarios
         /\ shell[c].orden = "CONNECT" => escucha[c] \in Puertos /\ dueno[escucha[c]] = c
BY DEF CP!Inv, CP!ConSusDos, CP!ConReceptor, CP!EnCurso, CP!Abriendo, CP!DeUsuario,
       CP!TipoProceso

(* A handler is the server's own handler, called with what the client's    *)
(* command had to give.                                                    *)
LEMMA SirveEsPeticion ==
  ASSUME CP!Inv, NEW c \in Clientes, NEW ret \in Codigos, Despacha(c, ret)
  PROVE  Peticion
<1> DEFINE u == shell[c].sobre
<1>1. shell[c].fase = "pide" BY DEF Despacha, Pidiendo
<1>2. u \in Usuarios BY <1>1, Peticiones
<1>3. \A ip \in Maquina[c] : ip \in Ips BY SistemaAssumption
<1>4. CASE Pidiendo(c, "REGISTER") /\ HandleRegister(u, ret)
  BY <1>2, <1>4 DEF Peticion
<1>5. CASE Pidiendo(c, "UNREGISTER") /\ HandleUnregister(u, ret)
  BY <1>2, <1>5 DEF Peticion
<1>6. CASE \E ip \in Maquina[c] : HandleDisconnect(u, ip, ret)
  BY <1>2, <1>3, <1>6 DEF Peticion
<1>7. ASSUME NEW t \in Hilos, Pidiendo(c, "CONNECT"), NEW ip \in Maquina[c],
             HandleConnect(t, u, ip, escucha[c], ret)
      PROVE  Peticion
  <2>1. escucha[c] \in Puertos BY <1>7, Peticiones DEF Pidiendo
  <2> QED BY <1>2, <1>3, <1>7, <2>1 DEF Peticion
<1>8. ASSUME NEW t \in Hilos, Pidiendo(c, "SEND") \/ Pidiendo(c, "SENDATTACH"),
             HandleSend(t, usuario[c], u, ret) \/ HandleSendattach(t, usuario[c], u, ret)
      PROVE  Peticion
  <2>1. usuario[c] \in Usuarios BY <1>8, Peticiones DEF Pidiendo
  <2> QED BY <1>2, <1>8, <2>1 DEF Peticion
<1> HIDE DEF u
<1> QED BY <1>4, <1>5, <1>6, <1>7, <1>8 DEF Despacha, u

(* Every step of the system is one of the server, or the server rests.     *)
LEMMA PasoDelServidor ==
  ASSUME CP!Inv, NextSistema
  PROVE  [Next]_vars
<1>1. ASSUME NEW c \in Clientes, Sirve(c) PROVE Next
  BY <1>1, SirveEsPeticion DEF Sirve, Next
<1>2. ASSUME NEW c \in Clientes, SirveUsers(c) PROVE UNCHANGED vars
  BY <1>2 DEF SirveUsers, HandleUsers
<1>3. ASSUME NEW c \in Clientes,
             Manda(c) \/ FallaPeticion(c) \/ PasoCliente(c) \/ MuereCliente(c)
      PROVE  UNCHANGED vars
  BY <1>3 DEF Manda, FallaPeticion, PasoCliente, MuereCliente
<1>4. ASSUME NEW t \in Hilos, PasoServidor(t) PROVE Next
  <2>1. Paso(t)
    BY <1>4 DEF PasoServidor, EntregaACliente, FallaEntregaACliente, AckACliente,
                PasoInterno, Paso
  <2> QED BY <2>1 DEF Next
<1>5. ASSUME NEW p \in Puertos, PasoReceptor(p) PROVE UNCHANGED vars
  BY <1>5 DEF PasoReceptor
<1>6. CASE CaidaServidor BY <1>6 DEF CaidaServidor, Next
<1> QED BY <1>1, <1>2, <1>3, <1>4, <1>5, <1>6 DEF NextSistema

(* The addresses that the server knows.                                    *)
LEMMA EnUsoTipo == TypeOK => EnUso \subseteq Direcciones
BY DEF TypeOK, TipoServicio, TipoHilos, TipoRed, Locales, Tarea, Envio, EnUso

(* Every step of the system is one of the clients or of their environment: *)
(* USERS answers ports that clients got, and what the server writes is a   *)
(* message.                                                                *)
LEMMA PasoDelCliente ==
  ASSUME TypeOK, \A d \in EnUso : dueno[d.puerto] # Nada, NextSistema
  PROVE  [C!Next]_(C!vars)
<1>0. EnUso \subseteq Direcciones BY EnUsoTipo
<1>1. ASSUME NEW c \in Clientes, NEW ok \in BOOLEAN, NEW conectados \in SUBSET Usuarios,
             NEW donde \in [conectados -> {p \in Puertos : dueno[p] # Nada}],
             C!Contesta(c, ok, {[nombre |-> u, puerto |-> donde[u]] : u \in conectados})
      PROVE  C!Next
  BY <1>1 DEF C!Next, C!RespuestaAjena
<1>2. ASSUME NEW c \in Clientes, NEW ok \in BOOLEAN, C!Contesta(c, ok, {})
      PROVE  C!Next
  <2> DEFINE donde == [u \in {} |-> Nada]
  <2>1. /\ donde \in [{} -> {p \in Puertos : dueno[p] # Nada}]
        /\ {[nombre |-> u, puerto |-> donde[u]] : u \in {}} = {}
        /\ {} \in SUBSET Usuarios
    OBVIOUS
  <2> HIDE DEF donde
  <2>2. C!Contesta(c, ok, {[nombre |-> u, puerto |-> donde[u]] : u \in {}})
    BY <1>2, <2>1
  <2> QED BY <1>1, <2>1, <2>2
<1>3. ASSUME NEW c \in Clientes, SirveUsers(c) PROVE C!Next
  <2> DEFINE lista == {[nombre |-> u, dir |-> dir[u]] : u \in {v \in Usuarios : conectado[v]}}
             entradas == {[nombre |-> e.nombre, puerto |-> e.dir.puerto] : e \in lista}
             conectados == {v \in Usuarios : conectado[v]}
             donde == [v \in conectados |-> dir[v].puerto]
  <2>1. PICK ok \in BOOLEAN : C!Contesta(c, ok, entradas) BY <1>3 DEF SirveUsers
  <2>2. \A v \in conectados : dir[v].puerto \in {p \in Puertos : dueno[p] # Nada}
    BY <1>0, EstaEnUso DEF Direcciones
  <2>3. donde \in [conectados -> {p \in Puertos : dueno[p] # Nada}] BY <2>2
  <2>4. entradas = {[nombre |-> u, puerto |-> donde[u]] : u \in conectados}
    <3>1. ASSUME NEW v \in conectados
          PROVE  LET e == [nombre |-> v, dir |-> dir[v]]
                 IN  /\ e \in lista /\ e.nombre = v /\ e.dir = dir[v]
                     /\ donde[v] = dir[v].puerto
      OBVIOUS
    <3>2. \A e \in lista : \E v \in conectados : e = [nombre |-> v, dir |-> dir[v]]
      OBVIOUS
    <3>3. ASSUME NEW v \in conectados
          PROVE  [nombre |-> v, puerto |-> donde[v]] \in entradas
      <4> DEFINE e == [nombre |-> v, dir |-> dir[v]]
      <4>1. e \in lista /\ e.nombre = v /\ e.dir.puerto = donde[v] BY <3>3, <3>1
      <4> HIDE DEF e
      <4>2. [nombre |-> e.nombre, puerto |-> e.dir.puerto] \in entradas BY <4>1
      <4> QED BY <4>1, <4>2
    <3>4. ASSUME NEW x \in entradas
          PROVE  x \in {[nombre |-> u, puerto |-> donde[u]] : u \in conectados}
      <4>1. PICK e \in lista : x = [nombre |-> e.nombre, puerto |-> e.dir.puerto] BY <3>4
      <4>2. PICK v \in conectados : e = [nombre |-> v, dir |-> dir[v]] BY <3>2
      <4>3. e.nombre = v /\ e.dir.puerto = donde[v] BY <3>1, <4>2
      <4> QED BY <4>1, <4>3
    <3> HIDE DEF conectados, donde, entradas, lista
    <3> QED BY <3>3, <3>4
  <2>5. conectados \in SUBSET Usuarios OBVIOUS
  <2> HIDE DEF conectados, donde, entradas, lista
  <2> QED BY <1>1, <2>1, <2>3, <2>4, <2>5
<1>4. ASSUME NEW c \in Clientes, Sirve(c) \/ FallaPeticion(c) PROVE C!Next
  BY <1>2, <1>4 DEF Sirve, FallaPeticion
<1>5. ASSUME NEW c \in Clientes, Manda(c) PROVE C!Next BY <1>5 DEF Manda, C!Next
<1>6. ASSUME NEW c \in Clientes, PasoCliente(c) \/ MuereCliente(c) PROVE C!Next
  BY <1>6 DEF PasoCliente, MuereCliente, C!Next
<1>7. ASSUME NEW p \in Puertos, PasoReceptor(p) PROVE C!Next
  BY <1>7 DEF PasoReceptor, C!Next
<1>8. C!Quieto => UNCHANGED C!vars BY DEF C!Quieto
<1>9. ASSUME NEW p \in Puertos, NEW tipo \in {"SEND MESSAGE", "SEND MESS ACK"},
             NEW m \in Mensaje, Escrito(tipo, p, m)
      PROVE  C!Next
  <2> DEFINE conn == [tipo |-> tipo, carta |-> m]
  <2>1. conn \in C!Conexion BY DEF C!Conexion, C!Tipos
  <2>2. conn.tipo \in {"SEND MESSAGE", "SEND MESS ACK"} /\ conn.carta \in Mensaje
    OBVIOUS
  <2>3. C!Entra(p, conn) BY <1>9 DEF Escrito
  <2> HIDE DEF conn
  <2> QED BY <2>1, <2>2, <2>3 DEF C!Next, C!ConexionAjena
<1>10. ASSUME NEW p \in Puertos, Escrito("cortada", p, Nada) PROVE C!Next
  <2> DEFINE conn == [tipo |-> "cortada", carta |-> Nada]
  <2>1. conn \in C!Conexion BY DEF C!Conexion, C!Tipos
  <2>2. C!Entra(p, conn) BY <1>10 DEF Escrito
  <2>3. conn = [tipo |-> "cortada", carta |-> Nada] OBVIOUS
  <2> HIDE DEF conn
  <2> QED BY <2>1, <2>2, <2>3 DEF C!Next, C!ConexionAjena
<1>11. ASSUME NEW t \in Hilos, PasoServidor(t) PROVE C!Next \/ UNCHANGED C!vars
  <2>1. /\ pc[t] \in EnMano => hilo[t].msg \in Mensaje /\ hilo[t].dir \in Direcciones
        /\ pc[t] = "envia" => hilo[t].rem \in Direcciones
    BY DEF TypeOK, TipoHilos, Locales
  <2>2. CASE EntregaACliente(t)
    <3>1. pc[t] = "entrega" /\ Escrito("SEND MESSAGE", hilo[t].dir.puerto, hilo[t].msg)
      BY <2>2 DEF EntregaACliente, Entrega
    <3>2. hilo[t].dir.puerto \in Puertos /\ hilo[t].msg \in Mensaje
      BY <2>1, <3>1 DEF Direcciones, EnMano
    <3> QED BY <1>9, <3>1, <3>2
  <2>3. CASE FallaEntregaACliente(t)
    <3>1. /\ pc[t] = "entrega"
          /\ C!Quieto \/ Escrito("cortada", hilo[t].dir.puerto, Nada)
      BY <2>3 DEF FallaEntregaACliente, FallaEntrega
    <3>2. hilo[t].dir.puerto \in Puertos BY <2>1, <3>1 DEF Direcciones, EnMano
    <3> QED BY <1>8, <1>10, <3>1, <3>2
  <2>4. CASE AckACliente(t)
    <3>1. /\ pc[t] = "envia"
          /\ \/ C!Quieto
             \/ Escrito("SEND MESS ACK", hilo[t].rem.puerto, hilo[t].msg)
      BY <2>4 DEF AckACliente, EnviaAck
    <3>2. hilo[t].rem.puerto \in Puertos /\ hilo[t].msg \in Mensaje
      BY <2>1, <3>1 DEF Direcciones, EnMano
    <3> QED BY <1>8, <1>9, <3>1, <3>2
  <2>5. CASE PasoInterno(t) BY <1>8, <2>5 DEF PasoInterno
  <2> QED BY <1>11, <2>2, <2>3, <2>4, <2>5 DEF PasoServidor
<1>12. CASE CaidaServidor BY <1>8, <1>12 DEF CaidaServidor
<1> QED BY <1>3, <1>4, <1>5, <1>6, <1>7, <1>11, <1>12 DEF NextSistema

(* Only the answer to a CONNECT, which its client is still waiting for,    *)
(* gives a user a session, and at the listener of that client.             *)
LEMMA SoloConnect ==
  ASSUME TypeOK, CP!Inv, NextSistema, NEW u \in Usuarios, ~conectado[u], conectado'[u]
  PROVE  \E c \in Clientes :
            /\ Pidiendo(c, "CONNECT") /\ dir'[u].puerto = escucha[c]
            /\ escucha' = escucha /\ CP!Abriendo(c)'
            /\ shell'[c].fase = "recibe" /\ shell'[c].sobre = u
<1>0. TipoServicio BY DEF TypeOK
<1>1. conectado' # conectado OBVIOUS
<1>2. ASSUME NEW v \in Usuarios, NodoInicial(v) \/ marcar_desconectado(v) PROVE FALSE
  BY <1>0, <1>2 DEF NodoInicial, marcar_desconectado, TipoServicio
<1>3. ASSUME NEW c \in Clientes, NEW ret \in Codigos, NEW ok, Despacha(c, ret),
             C!Contesta(c, ok, {})
      PROVE  /\ Pidiendo(c, "CONNECT") /\ dir'[u].puerto = escucha[c]
             /\ escucha' = escucha /\ CP!Abriendo(c)'
             /\ shell'[c].fase = "recibe" /\ shell'[c].sobre = u
  <2> DEFINE v == shell[c].sobre
  <2>1. v \in Usuarios BY <1>3, Peticiones DEF C!Contesta
  <2>2. CASE HandleRegister(v, ret)
    BY <1>1, <1>2, <2>1, <2>2 DEF HandleRegister, servicio_register, insertar_usuario,
                                  varsServicio, tablas
  <2>3. CASE HandleUnregister(v, ret)
    BY <1>1, <1>2, <2>1, <2>3 DEF HandleUnregister, servicio_unregister, eliminar_usuario,
                                  varsServicio, tablas
  <2>4. CASE \E ip \in Maquina[c] : HandleDisconnect(v, ip, ret)
    BY <1>1, <1>2, <2>1, <2>4 DEF HandleDisconnect, servicio_disconnect, varsServicio, tablas
  <2>5. CASE \E t \in Hilos :
                HandleSend(t, usuario[c], v, ret) \/ HandleSendattach(t, usuario[c], v, ret)
    BY <1>1, <2>5 DEF HandleSend, HandleSendattach, servicio_send, servicio_sendattach,
                      Aceptar, varsServicio, tablas
  <2>6. ASSUME NEW t \in Hilos, Pidiendo(c, "CONNECT"), NEW ip \in Maquina[c],
               HandleConnect(t, v, ip, escucha[c], ret)
        PROVE  /\ Pidiendo(c, "CONNECT") /\ dir'[u].puerto = escucha[c]
               /\ escucha' = escucha /\ CP!Abriendo(c)'
               /\ shell'[c].fase = "recibe" /\ shell'[c].sobre = u
    <3> DEFINE d == [ip |-> ip, puerto |-> escucha[c], alta |-> alta[v]]
    <3>1. marcar_conectado(v, d)
      BY <1>1, <2>6 DEF HandleConnect, servicio_connect, varsServicio, tablas
    <3>2. d.puerto = escucha[c] OBVIOUS
    <3> HIDE DEF d
    <3>3. u = v /\ dir'[u] = d BY <1>0, <3>1 DEF marcar_conectado, TipoServicio
    <3>4. /\ escucha' = escucha /\ shell'[c].fase = "recibe" /\ shell'[c].sobre = v
          /\ shell'[c].orden = "CONNECT"
      <4>1. shell[c] \in CP!Mandado /\ shell \in [Clientes -> CP!Mandado]
        BY DEF CP!Inv, CP!TipoProceso
      <4> QED BY <1>3, <2>6, <4>1 DEF C!Contesta, Pidiendo, CP!Mandado
    <3> QED BY <2>6, <3>2, <3>3, <3>4 DEF CP!Abriendo, CP!EnCurso
  <2> HIDE DEF v
  <2> QED BY <1>3, <2>2, <2>3, <2>4, <2>5, <2>6 DEF Despacha, v
<1>4. ASSUME NEW c \in Clientes, Sirve(c)
      PROVE  \E d \in Clientes :
                /\ Pidiendo(d, "CONNECT") /\ dir'[u].puerto = escucha[d]
                /\ escucha' = escucha /\ CP!Abriendo(d)'
                /\ shell'[d].fase = "recibe" /\ shell'[d].sobre = u
  BY <1>3, <1>4 DEF Sirve
<1>5. ASSUME NEW c \in Clientes,
             \/ SirveUsers(c) \/ Manda(c) \/ FallaPeticion(c)
             \/ PasoCliente(c) \/ MuereCliente(c)
      PROVE  FALSE
  BY <1>1, <1>5 DEF SirveUsers, HandleUsers, Manda, FallaPeticion, PasoCliente, MuereCliente,
                    vars, varsServicio, tablas
<1>6. ASSUME NEW p \in Puertos, PasoReceptor(p) PROVE FALSE
  BY <1>1, <1>6 DEF PasoReceptor, vars, varsServicio, tablas
<1>7. ASSUME NEW t \in Hilos, PasoServidor(t) PROVE FALSE
  <2>1. Paso(t)
    BY <1>7 DEF PasoServidor, EntregaACliente, FallaEntregaACliente, AckACliente,
                PasoInterno, Paso
  <2>2. CASE FuerzaDesconexion(t)
    <3>1. hilo[t].usuario \in Usuarios
      BY <2>2 DEF FuerzaDesconexion, TypeOK, TipoHilos, Locales, Tarea
    <3> QED BY <1>1, <1>2, <2>2, <3>1
        DEF FuerzaDesconexion, servicio_marcar_desconectado_forzado, tablas
  <2>3. CASE ~FuerzaDesconexion(t)
    <3>1. conectado' = conectado
      BY <2>1, <2>3 DEF Paso, ConsultaConexion, SiguientePendiente, Entrega, FallaEntrega,
                        BorraPendiente, servicio_eliminar_pendiente, BuscaRemitente,
                        EnviaAck, varsServicio, tablas
    <3> QED BY <1>1, <3>1
  <2> QED BY <2>2, <2>3
<1>8. CASE CaidaServidor
  BY <1>8 DEF CaidaServidor, Caida, Reinicia, SigpipeEnEntrega, SigpipeEnAck, Muere,
              servicio_destroy
<1> QED BY <1>4, <1>5, <1>6, <1>7, <1>8 DEF NextSistema

(* What is new on the record of deliveries was just put into the queue of  *)
(* a listening socket.                                                     *)
LEMMA SoloEntrega ==
  ASSUME TypeOK, CP!Inv, NextSistema, NEW e \in entregados', e \notin entregados
  PROVE  C!EnCamino(e.dir.puerto, e.msg)'
<1>1. entregados' # entregados OBVIOUS
<1>2. ASSUME NEW t \in Hilos, EntregaACliente(t) PROVE C!EnCamino(e.dir.puerto, e.msg)'
  <2> DEFINE p == hilo[t].dir.puerto
             m == hilo[t].msg
             conn == [tipo |-> "SEND MESSAGE", carta |-> m]
  <2>1. /\ hilo[t].dir \in Direcciones /\ m \in Mensaje
        /\ e.msg = m /\ e.dir = hilo[t].dir
    <3> DEFINE r == [msg |-> hilo[t].msg, dir |-> hilo[t].dir]
    <3>1. pc[t] = "entrega" /\ entregados' = entregados \cup {r}
      BY <1>2 DEF EntregaACliente, Entrega
    <3>2. hilo[t].dir \in Direcciones /\ hilo[t].msg \in Mensaje
      BY <3>1 DEF TypeOK, TipoHilos, Locales, EnMano
    <3>3. r.msg = hilo[t].msg /\ r.dir = hilo[t].dir OBVIOUS
    <3> HIDE DEF r
    <3> QED BY <3>1, <3>2, <3>3
  <2>2. p \in Puertos /\ e.dir.puerto = p BY <2>1 DEF Direcciones
  <2>3. bandeja' = [bandeja EXCEPT ![p] = Append(@, conn)]
    BY <1>2 DEF EntregaACliente, Escrito, C!Entra, C!Llega
  <2>4. conn \in CP!Conexion /\ bandeja \in [Puertos -> Seq(CP!Conexion)]
    BY <2>1 DEF CP!Conexion, CP!Tipos, CP!Inv, CP!TipoEnchufes
  <2>5. conn = C!ConCarta(m) BY DEF C!ConCarta
  <2> HIDE DEF p, m, conn
  <2>6. bandeja'[p] = Append(bandeja[p], conn) BY <2>2, <2>3, <2>4
  <2>7. /\ bandeja[p] \in Seq(CP!Conexion) /\ Len(bandeja[p]) \in Nat
        /\ Append(bandeja[p], conn) \in Seq(CP!Conexion)
        /\ Len(Append(bandeja[p], conn)) = Len(bandeja[p]) + 1
        /\ Append(bandeja[p], conn)[Len(bandeja[p]) + 1] = conn
    BY <2>2, <2>4, AppendProperties, LenProperties
  <2>8. Len(bandeja[p]) + 1 \in DOMAIN bandeja'[p] BY <2>6, <2>7, LenProperties
  <2>9. \E i \in DOMAIN bandeja'[p] : bandeja'[p][i] = C!ConCarta(m)
    BY <2>5, <2>6, <2>7, <2>8
  <2> QED BY <2>1, <2>2, <2>9 DEF C!EnCamino, C!ConCarta
<1>3. ASSUME NEW t \in Hilos, PasoServidor(t), ~EntregaACliente(t) PROVE FALSE
  BY <1>1, <1>3 DEF PasoServidor, FallaEntregaACliente, FallaEntrega, AckACliente, EnviaAck,
                    PasoInterno, ConsultaConexion, SiguientePendiente, BorraPendiente,
                    BuscaRemitente, FuerzaDesconexion, red
<1>4. ASSUME NEW c \in Clientes, NEW ret, Despacha(c, ret) PROVE FALSE
  BY <1>1, <1>4 DEF Despacha, HandleRegister, HandleUnregister, HandleDisconnect,
                    HandleConnect, HandleSend, HandleSendattach, red
<1>5. ASSUME NEW c \in Clientes,
             \/ SirveUsers(c) \/ Manda(c) \/ FallaPeticion(c)
             \/ PasoCliente(c) \/ MuereCliente(c)
      PROVE  FALSE
  BY <1>1, <1>5 DEF SirveUsers, HandleUsers, Manda, FallaPeticion, PasoCliente, MuereCliente,
                    vars, red
<1>6. ASSUME NEW p \in Puertos, PasoReceptor(p) PROVE FALSE
  BY <1>1, <1>6 DEF PasoReceptor, vars, red
<1>7. CASE CaidaServidor
  BY <1>1, <1>7 DEF CaidaServidor, Caida, Reinicia, SigpipeEnEntrega, SigpipeEnAck, Muere
<1> QED BY <1>2, <1>3, <1>4, <1>5, <1>6, <1>7 DEF NextSistema, Sirve
-----------------------------------------------------------------------------
(* Server, clients and what they know of each other.                       *)
InvSistema == TypeOK /\ CP!Inv /\ Acuerdo /\ EscritoLlega

(* At the start nobody has a session and no address is in use.             *)
LEMMA SistemaInicial == InitSistema => InvSistema
<1> SUFFICES ASSUME InitSistema PROVE InvSistema
  OBVIOUS
<1>1. TypeOK BY TipoInicial DEF InitSistema
<1>2. CP!Inv BY MismoCliente, CP!ClienteInicial, SistemaAssumption DEF InitSistema
<1>3. /\ \A u \in Usuarios : ~conectado[u]
      /\ \A t \in Hilos : pc[t] = "libre"
      /\ entregados = {}
  BY DEF InitSistema, Init, servicio_init
<1>4. EnUso = {} BY <1>3 DEF EnUso
<1> QED BY <1>1, <1>2, <1>3, <1>4 DEF InvSistema, Acuerdo, Concuerda, EscritoLlega

(* A new session is that of the CONNECT that its client waits for, an old  *)
(* one stays with its command and its user, and a listener that opens has  *)
(* a port that no address in use has.                                      *)
LEMMA AcuerdoPaso ==
  ASSUME InvSistema, NextSistema
  PROVE  Acuerdo'
<1>0. TypeOK /\ CP!Inv /\ (\A d \in EnUso : dueno[d.puerto] # Nada) /\ EnUso \subseteq Direcciones
  BY EnUsoTipo DEF InvSistema, Acuerdo
<1>1. [Next]_vars BY <1>0, PasoDelServidor
<1>2. [CP!Next]_(CP!vars) BY <1>0, PasoDelCliente, MismoCliente
<1>3. \A p \in Puertos : dueno[p] # Nada => dueno'[p] = dueno[p]
  BY <1>0, <1>2, CP!PuertoFijo, SistemaAssumption
<1>4. /\ \A d \in EnUso' : d \in EnUso \/ Abre(d)
      /\ \A u \in Usuarios : conectado[u] /\ conectado'[u] => dir'[u] = dir[u]
  BY <1>0, <1>1, DireccionesPaso
<1>5. ASSUME NEW u \in Usuarios, ~conectado[u], conectado'[u]
      PROVE  \E c \in Clientes :
                /\ dir'[u].puerto = escucha[c] /\ escucha[c] \in Puertos
                /\ dueno[escucha[c]] = c
                /\ escucha' = escucha /\ CP!Abriendo(c)'
                /\ shell'[c].fase = "recibe" /\ shell'[c].sobre = u
  <2>1. PICK c \in Clientes :
            /\ Pidiendo(c, "CONNECT") /\ dir'[u].puerto = escucha[c]
            /\ escucha' = escucha /\ CP!Abriendo(c)'
            /\ shell'[c].fase = "recibe" /\ shell'[c].sobre = u
    BY <1>0, <1>5, SoloConnect
  <2>2. escucha[c] \in Puertos /\ dueno[escucha[c]] = c
    BY <1>0, <2>1, Peticiones DEF Pidiendo
  <2> QED BY <2>1, <2>2
<1>6. ASSUME NEW d \in EnUso' PROVE dueno'[d.puerto] # Nada
  <2>1. CASE d \in EnUso
    <3>1. d.puerto \in Puertos BY <1>0, <2>1 DEF Direcciones
    <3> QED BY <1>0, <1>3, <2>1, <3>1
  <2>2. CASE Abre(d)
    <3>1. PICK u \in Usuarios : ~conectado[u] /\ conectado'[u] /\ d = dir'[u]
      BY <2>2 DEF Abre
    <3>2. PICK c \in Clientes : /\ dir'[u].puerto = escucha[c] /\ escucha[c] \in Puertos
                                /\ dueno[escucha[c]] = c
      BY <1>5, <3>1
    <3>3. c # Nada BY SistemaAssumption
    <3> QED BY <1>3, <3>1, <3>2, <3>3
  <2> QED BY <1>4, <2>1, <2>2
<1>7. ASSUME NEW c \in Clientes, NEW u \in Usuarios, escucha'[c] # Nada, conectado'[u],
             dir'[u].puerto = escucha'[c]
      PROVE  IF CP!Abriendo(c)' THEN shell'[c].fase = "recibe" /\ shell'[c].sobre = u
             ELSE usuario'[c] = u
  <2>1. CASE ~conectado[u]
    <3>1. PICK d \in Clientes :
              /\ dir'[u].puerto = escucha[d] /\ dueno[escucha[d]] = d
              /\ escucha' = escucha /\ CP!Abriendo(d)'
              /\ shell'[d].fase = "recibe" /\ shell'[d].sobre = u
      BY <1>5, <1>7, <2>1
    <3>2. dueno[escucha[c]] = c
      BY <1>0, <1>7, <3>1 DEF CP!Inv, CP!ConReceptor
    <3>3. c = d BY <1>7, <3>1, <3>2
    <3> QED BY <3>1, <3>3
  <2>2. CASE conectado[u]
    <3>1. dir'[u] = dir[u] BY <1>4, <1>7, <2>2
    <3>2. dueno[escucha'[c]] # Nada BY <1>0, <1>7, <2>2, <3>1, EstaEnUso
    <3>3. CP!SesionSigue(c) BY <1>0, <1>2, CP!SesionPaso, SistemaAssumption
    <3>4. CP!MismaSesion(c) BY <1>7, <3>2, <3>3 DEF CP!SesionSigue, CP!SesionNueva
    <3>5. Concuerda(c, u) BY DEF InvSistema, Acuerdo
    <3>6. IF CP!Abriendo(c) THEN shell[c].fase = "recibe" /\ shell[c].sobre = u
          ELSE usuario[c] = u
      BY <1>7, <2>2, <3>1, <3>4, <3>5, MismoEstado DEF Concuerda, CP!MismaSesion
    <3> QED BY <3>4, <3>6 DEF CP!MismaSesion
  <2> QED BY <2>1, <2>2
<1>8. \A c \in Clientes, u \in Usuarios : Concuerda(c, u)'
  BY <1>7, MismoEstadoPrima DEF Concuerda
<1> QED BY <1>6, <1>8 DEF Acuerdo

(* What was written stays on its way to the screen of an open socket, or   *)
(* is on it; what is written now is on its way.                            *)
LEMMA EscritoPaso ==
  ASSUME InvSistema, NextSistema
  PROVE  EscritoLlega'
<1>0. /\ TypeOK /\ CP!Inv /\ (\A d \in EnUso : dueno[d.puerto] # Nada)
      /\ EnUso \subseteq Direcciones
  BY EnUsoTipo DEF InvSistema, Acuerdo
<1>1. [CP!Next]_(CP!vars) BY <1>0, PasoDelCliente, MismoCliente
<1> SUFFICES ASSUME NEW e \in entregados', C!Abierto(e.dir.puerto)'
             PROVE  \/ C!EnCamino(e.dir.puerto, e.msg)'
                    \/ [puerto |-> e.dir.puerto, carta |-> e.msg] \in mostrados'
  BY DEF EscritoLlega
<1>2. CASE e \notin entregados BY <1>0, <1>2, SoloEntrega
<1>3. CASE e \in entregados
  <2> DEFINE p == e.dir.puerto
             m == e.msg
  <2>1. /\ e.dir \in EnUso /\ p \in Puertos /\ m \in Mensaje /\ dueno[p] # Nada
    <3>1. e.dir \in EnUso BY <1>3, EstaEnUso
    <3>2. e \in Envio BY <1>0, <1>3 DEF TypeOK, TipoRed
    <3> QED BY <1>0, <3>1, <3>2 DEF Envio, Direcciones
  <2>2. C!Abierto(p) \/ dueno[p] = Nada
    BY <1>0, <1>1, <2>1, CP!PuertoNuevo, MismoEstado, MismoEstadoPrima, SistemaAssumption
  <2>3. C!EnCamino(p, m) \/ [puerto |-> p, carta |-> m] \in mostrados
    BY <1>3, <2>1, <2>2 DEF InvSistema, EscritoLlega
  <2>4. mostrados \subseteq mostrados' BY <1>1, CP!PantallaCrece, SistemaAssumption
  <2>5. CASE CP!EnCamino(p, m)
    <3>1. CP!EnCamino(p, m)' \/ [puerto |-> p, carta |-> m] \in mostrados'
      BY <1>0, <1>1, <2>1, <2>5, CP!CaminoPaso, MismoEstadoPrima, SistemaAssumption
    <3> QED BY <2>1, <3>1, MismoEstadoPrima
  <2> QED BY <2>1, <2>3, <2>4, <2>5, MismoEstado
<1> QED BY <1>2, <1>3

(* Every step of the system keeps the four invariants.                     *)
LEMMA SistemaPaso == InvSistema /\ [NextSistema]_varsSistema => InvSistema'
<1> SUFFICES ASSUME InvSistema, [NextSistema]_varsSistema PROVE InvSistema'
  OBVIOUS
<1>1. CASE NextSistema
  <2>1. TypeOK /\ CP!Inv /\ \A d \in EnUso : dueno[d.puerto] # Nada
    BY DEF InvSistema, Acuerdo
  <2>2. TypeOK' BY <1>1, <2>1, PasoDelServidor, TipoPaso
  <2>3. CP!Inv'
    <3>1. [CP!Next]_(CP!vars) BY <1>1, <2>1, PasoDelCliente, MismoCliente
    <3> QED BY <2>1, <3>1, CP!PasoSeguro, SistemaAssumption
  <2> QED BY <1>1, <2>2, <2>3, AcuerdoPaso, EscritoPaso DEF InvSistema
<1>2. CASE UNCHANGED varsSistema
  <2>1. UNCHANGED vars /\ UNCHANGED C!vars BY <1>2 DEF varsSistema
  <2>2. TypeOK' BY <2>1, TipoPaso DEF InvSistema
  <2>3. CP!Inv' BY <2>1, MismoCliente, CP!PasoSeguro, SistemaAssumption DEF InvSistema
  <2>4. UNCHANGED <<conectado, dir, pc, hilo, entregados, usuario, escucha, shell, dueno,
                    receptor, bandeja, mostrados>>
    BY <2>1 DEF vars, varsServicio, tablas, red, C!vars, C!proceso, C!enchufes, C!pantalla
  <2>5. Acuerdo'
    <3>1. EnUso' = EnUso BY <2>4 DEF EnUso
    <3>2. \A c \in Clientes : C!Abriendo(c)' <=> C!Abriendo(c)
      BY <2>4 DEF C!Abriendo, C!EnCurso
    <3> QED BY <2>4, <3>1, <3>2 DEF InvSistema, Acuerdo, Concuerda
  <2>6. EscritoLlega'
    BY <2>4 DEF InvSistema, EscritoLlega, C!Abierto, C!EnCamino, C!ConCarta
  <2> QED BY <2>2, <2>3, <2>5, <2>6 DEF InvSistema
<1> QED BY <1>1, <1>2
-----------------------------------------------------------------------------
(* With these clients the server runs as one of those that GarantiasProofs *)
(* is about.                                                               *)
THEOREM SistemaEsServidor == SpecSistema => Spec
<1>1. InitSistema => Init BY DEF InitSistema
<1>2. InvSistema /\ [NextSistema]_varsSistema => [Next]_vars
  BY PasoDelServidor DEF InvSistema, varsSistema
<1> QED BY <1>1, <1>2, SistemaInicial, SistemaPaso, PTL DEF SpecSistema, Spec

(* With this server the clients run as those of ClienteProofs: what the    *)
(* handlers answer and write is what Cliente leaves open.                  *)
THEOREM SistemaEsCliente == SpecSistema => C!Spec
<1>1. InitSistema => C!Init BY DEF InitSistema
<1>2. InvSistema /\ [NextSistema]_varsSistema => [C!Next]_(C!vars)
  BY PasoDelCliente DEF InvSistema, Acuerdo, varsSistema
<1> QED BY <1>1, <1>2, SistemaInicial, SistemaPaso, PTL DEF SpecSistema, C!Spec

(* Server and client agree at every point of every command on whose the    *)
(* listener is, and the server knows no port that a client has not got.    *)
THEOREM AcuerdoCorrecto == SpecSistema => []Acuerdo
<1>1. InvSistema => Acuerdo BY DEF InvSistema
<1> QED BY <1>1, SistemaInicial, SistemaPaso, PTL DEF SpecSistema

(* The server never takes a listener for the session of a user that its    *)
(* client does not hold between commands.                                  *)
THEOREM SesionSuyaCorrecta == SpecSistema => []SesionSuya
<1>1. InvSistema => SesionSuya
  BY DEF InvSistema, Acuerdo, Concuerda, SesionSuya, C!Libre, C!Abriendo, C!EnCurso
<1> QED BY <1>1, SistemaInicial, SistemaPaso, PTL DEF SpecSistema

(* What the server wrote whole to a socket that the client has not closed  *)
(* is displayed or on its way to the screen.                               *)
THEOREM EscritoLlegaCorrecta == SpecSistema => []EscritoLlega
<1>1. InvSistema => EscritoLlega BY DEF InvSistema
<1> QED BY <1>1, SistemaInicial, SistemaPaso, PTL DEF SpecSistema

(* What was transmitted is displayed, lost with its socket or on its way.  *)
LEMMA TransmitidoParadero ==
  ASSUME TipoRed, EscritoLlega, NEW m, Transmitido(m)
  PROVE  \/ Mostrado(m) \/ Abandonado(m)
         \/ \E p \in Puertos : C!EnCamino(p, m)
<1>1. PICK e \in entregados : e.msg = m BY DEF Transmitido
<1> DEFINE q == e.dir.puerto
<1>2. q \in Puertos BY <1>1 DEF TipoRed, Envio, Direcciones
<1>3. CASE ~C!Abierto(q) BY <1>1, <1>3 DEF Abandonado
<1>4. CASE C!Abierto(q)
  <2>1. C!EnCamino(q, m) \/ [puerto |-> q, carta |-> m] \in mostrados
    BY <1>1, <1>4 DEF EscritoLlega
  <2>2. [puerto |-> q, carta |-> m] \in mostrados => Mostrado(m)
    BY DEF Mostrado
  <2> QED BY <1>2, <2>1, <2>2
<1> QED BY <1>3, <1>4

(* From the answer to the SEND on, an accepted message is on the screen of *)
(* its recipient, lost with a socket that was closed, on its way, or       *)
(* pending with somebody to deliver it while there is a session            *)
(* (server.c:313-320, :399-420, :461; client.py:182-241).                  *)
THEOREM ParaderoCorrecto == SpecSistema => []Paradero
<1>1. TypeOK /\ SinPerdida /\ SinOlvidados /\ EscritoLlega => Paradero
  <2> SUFFICES ASSUME TypeOK, SinPerdida, SinOlvidados, EscritoLlega,
                      NEW m \in aceptados, Vigente(m), ~Colisiona(m)
               PROVE  \/ Mostrado(m) \/ Abandonado(m)
                      \/ \E p \in Puertos : C!EnCamino(p, m)
                      \/ /\ Pendiente(m)
                         /\ conectado[m.destinatario] => \E t \in Hilos : Reparte(t, m)
    BY DEF Paradero
  <2>1. CASE Transmitido(m) BY <2>1, TransmitidoParadero DEF TypeOK
  <2>2. CASE Pendiente(m) BY <2>2 DEF SinOlvidados
  <2> QED BY <2>1, <2>2 DEF SinPerdida
<1> QED BY <1>1, SistemaEsServidor, TipoCorrecto, SinPerdidaCorrecta, SinOlvidadosCorrecta,
           EscritoLlegaCorrecta, PTL
=============================================================================
