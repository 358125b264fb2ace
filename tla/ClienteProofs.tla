--------------------------- MODULE ClienteProofs ---------------------------
(***************************************************************************)
(* The client keeps its types, and listens exactly when a user is          *)
(* connected, with a living receiver, for any number of clients, names and *)
(* ports, and whatever the other side answers or sends.  Sesiones is the   *)
(* inductive invariant: it follows a command through its waits, and the    *)
(* receivers that earlier sessions left behind.                            *)
(***************************************************************************)
EXTENDS Cliente, SequenceTheorems, TLAPS

Vacias == \A p \in Puertos : ~Escuchando(p) => bandeja[p] = <<>>

Vivas == {"while", "accept", "atiende"}

ConReceptor(c) ==
    escucha[c] # Nada =>
        dueno[escucha[c]] = c /\ receptor[escucha[c]].fase \in Vivas

Inv ==
    /\ TipoProceso /\ TipoEnchufes /\ Vacias
    /\ \A c \in Clientes : ConSusDos(c) /\ ConReceptor(c)
    /\ \A p \in Puertos : EnLoSuyo(p)

(* The invariant is the three properties of the run.                       *)
LEMMA InvEsEso == Inv <=> TypeOK /\ Sesiones /\ SesionConReceptor
<1>1. \A c \in Clientes :
        ConSusDos(c) /\ Libre(c) => (usuario[c] # Nada <=> escucha[c] # Nada)
  BY DEF ConSusDos, Abriendo, EnCurso, Libre
<1> QED
  BY <1>1 DEF Inv, TypeOK, Vacias, Sesiones, SesionConReceptor, ConReceptor, Vivas

(* Nobody has connected.                                                   *)
LEMMA ClienteInicial == Init => Inv
<1> SUFFICES ASSUME Init PROVE Inv
  OBVIOUS
<1>1. EnReposo \in Mandado /\ SinHilo \in Hilo
  BY DEF EnReposo, Mandado, Ordenes, SinHilo, Hilo
<1>2. TipoProceso BY <1>1 DEF Init, TipoProceso
<1>3. <<>> \in Seq(Conexion) BY EmptySeq
<1>4. TipoEnchufes BY <1>1, <1>3 DEF Init, TipoEnchufes
<1>5. Vacias BY DEF Init, Vacias
<1>6. \A c \in Clientes : ConSusDos(c) /\ ConReceptor(c)
  BY DEF Init, ConSusDos, ConReceptor, Abriendo, EnCurso, EnReposo
<1>7. \A p \in Puertos : EnLoSuyo(p) BY DEF Init, EnLoSuyo, SinHilo
<1> QED BY <1>2, <1>4, <1>5, <1>6, <1>7 DEF Inv
-----------------------------------------------------------------------------
(* A step of the shell that opens no listener and closes none: the command *)
(* moves on or ends, and connections may come to sockets that listen.      *)
LEMMA ShellSeguro ==
  ASSUME Inv, NEW c \in Clientes, NEW s \in Mandado,
         shell' = [shell EXCEPT ![c] = s],
         s.fase \in {"pide", "recibe"} =>
             /\ s.sobre \in Usuarios
             /\ s.orden \in DeUsuario => usuario[c] # Nada,
         s.fase # "join", shell[c].fase # "join",
         s.orden = "CONNECT" /\ s.fase \in {"pide", "recibe"} <=> Abriendo(c),
         cache' \in [Clientes -> [Usuarios -> Puertos \cup {Nada}]],
         UNCHANGED <<usuario, escucha, dueno, receptor>>,
         bandeja' \in [Puertos -> Seq(Conexion)],
         \A p \in Puertos : ~Escuchando(p) => bandeja'[p] = bandeja[p]
  PROVE  Inv'
<1>1. TipoProceso' BY DEF Inv, TipoProceso
<1>2. TipoEnchufes' BY DEF Inv, TipoEnchufes
<1>3. \A p \in Puertos : Escuchando(p)' <=> Escuchando(p)
  BY DEF Escuchando, Abierto, Bloqueados
<1>4. Vacias' BY <1>3 DEF Inv, Vacias
<1>5. ASSUME NEW d \in Clientes PROVE ConSusDos(d)' /\ ConReceptor(d)'
  <2>1. /\ usuario'[d] = usuario[d] /\ escucha'[d] = escucha[d]
        /\ shell'[d] = IF d = c THEN s ELSE shell[d]
    BY DEF Inv, TipoProceso
  <2>2. ConSusDos(d) /\ ConReceptor(d) BY DEF Inv
  <2>3. CASE d = c
    <3>1. shell'[d] = s BY <2>1, <2>3
    <3>2. Abriendo(d)' <=> Abriendo(d) BY <2>3, <3>1 DEF Abriendo, EnCurso
    <3> QED BY <2>1, <2>2, <2>3, <3>1, <3>2 DEF ConSusDos, EnCurso, ConReceptor
  <2>4. CASE d # c
    <3>1. shell'[d] = shell[d] BY <2>1, <2>4
    <3>2. Abriendo(d)' <=> Abriendo(d) BY <3>1 DEF Abriendo, EnCurso
    <3> QED BY <2>1, <2>2, <3>1, <3>2 DEF ConSusDos, EnCurso, ConReceptor
  <2> QED BY <2>3, <2>4
<1>6. \A p \in Puertos : EnLoSuyo(p)' BY DEF Inv, EnLoSuyo
<1> QED BY <1>1, <1>2, <1>4, <1>5, <1>6 DEF Inv

(* A connection joins the queue of a socket that listens.                  *)
LEMMA LlegaBien ==
  ASSUME TipoEnchufes, NEW p \in Puertos, NEW conn \in Conexion, Llega(p, conn)
  PROVE  /\ bandeja' \in [Puertos -> Seq(Conexion)]
         /\ \A q \in Puertos : ~Escuchando(q) => bandeja'[q] = bandeja[q]
<1>1. /\ bandeja' = [bandeja EXCEPT ![p] = Append(bandeja[p], conn)]
      /\ Escuchando(p)
  BY DEF Llega, Cabe
<1>2. Append(bandeja[p], conn) \in Seq(Conexion)
  BY AppendProperties DEF TipoEnchufes
<1> QED BY <1>1, <1>2 DEF TipoEnchufes

(* A command that waits for the server, other than CONNECT.                *)
LEMMA PideSeguro ==
  ASSUME Inv, NEW c \in Clientes, NEW orden \in Ordenes \ {"CONNECT"}, NEW u \in Usuarios,
         orden \in DeUsuario => usuario[c] # Nada,
         Libre(c), Pide(c, orden, u), UNCHANGED <<usuario, escucha, cache, enchufes>>
  PROVE  Inv'
<1> DEFINE s == [orden |-> orden, fase |-> "pide", sobre |-> u, ok |-> FALSE]
<1>1. s \in Mandado /\ s.orden = orden /\ s.fase = "pide" /\ s.sobre = u
  BY DEF Mandado
<1>2. shell' = [shell EXCEPT ![c] = s] BY DEF Pide
<1>3. UNCHANGED <<usuario, escucha, cache, dueno, receptor, bandeja>> BY DEF enchufes
<1>4. shell[c].fase = "libre" BY DEF Libre
<1>5. ~Abriendo(c) BY <1>4 DEF Abriendo, EnCurso
<1>6. /\ cache \in [Clientes -> [Usuarios -> Puertos \cup {Nada}]]
      /\ bandeja \in [Puertos -> Seq(Conexion)]
  BY DEF Inv, TipoProceso, TipoEnchufes
<1> HIDE DEF s
<1> QED BY <1>1, <1>2, <1>3, <1>4, <1>5, <1>6, ShellSeguro

(* A command ends that neither opened a listener nor closed one.           *)
LEMMA DescansaSeguro ==
  ASSUME Inv, NEW c \in Clientes, ~Abriendo(c), shell[c].fase # "join", Descansa(c),
         UNCHANGED <<usuario, escucha, cache, dueno, receptor, bandeja>>
  PROVE  Inv'
<1>1. /\ EnReposo \in Mandado /\ EnReposo.fase = "libre" /\ EnReposo.orden = "ninguna"
      /\ shell' = [shell EXCEPT ![c] = EnReposo]
  BY DEF EnReposo, Mandado, Ordenes, Descansa
<1>2. /\ cache \in [Clientes -> [Usuarios -> Puertos \cup {Nada}]]
      /\ bandeja \in [Puertos -> Seq(Conexion)]
  BY DEF Inv, TipoProceso, TipoEnchufes
<1> QED BY <1>1, <1>2, ShellSeguro

(* A GETFILE asks the receiver of a port, or gives up.                     *)
LEMMA FicheroSeguro ==
  ASSUME Inv, NEW c \in Clientes, NEW p \in Puertos, ~Abriendo(c),
         shell[c].fase # "join", PideFichero(c, p),
         UNCHANGED <<usuario, escucha, cache, dueno, receptor>>
  PROVE  Inv'
<1>1. CASE Cabe(p)
  <2> DEFINE s == [orden |-> "GETFILE", fase |-> "fichero", sobre |-> p, ok |-> FALSE]
             conn == [tipo |-> "GET FILE", carta |-> c]
  <2>1. Llega(p, conn) /\ shell' = [shell EXCEPT ![c] = s]
    BY <1>1 DEF PideFichero
  <2>2. s \in Mandado /\ s.fase = "fichero" BY DEF Mandado, Ordenes
  <2>3. conn \in Conexion BY DEF Conexion, Tipos
  <2> HIDE DEF s, conn
  <2>4. /\ bandeja' \in [Puertos -> Seq(Conexion)]
        /\ \A q \in Puertos : ~Escuchando(q) => bandeja'[q] = bandeja[q]
    BY <2>1, <2>3, LlegaBien DEF Inv
  <2>5. cache \in [Clientes -> [Usuarios -> Puertos \cup {Nada}]]
    BY DEF Inv, TipoProceso
  <2> QED BY <2>1, <2>2, <2>4, <2>5, ShellSeguro
<1>2. CASE ~Cabe(p)
  <2>1. Descansa(c) /\ UNCHANGED bandeja BY <1>2 DEF PideFichero
  <2> QED BY <2>1, DescansaSeguro
<1> QED BY <1>1, <1>2

(* The answer to the request; the addresses that it brings are ports.      *)
LEMMA ContestaSeguro ==
  ASSUME Inv, NEW c \in Clientes, NEW ok \in BOOLEAN, NEW lista,
         \A e \in lista : e.puerto \in Puertos, Contesta(c, ok, lista)
  PROVE  Inv'
<1> DEFINE s == [shell[c] EXCEPT !.fase = "recibe", !.ok = ok]
<1>1. /\ shell[c].fase = "pide" /\ shell[c] \in Mandado
      /\ UNCHANGED <<usuario, escucha, dueno, receptor, bandeja>>
  BY DEF Contesta, enchufes, Inv, TipoProceso
<1>2. shell' = [shell EXCEPT ![c] = s] BY DEF Contesta
<1>3. /\ s \in Mandado /\ s.fase = "recibe"
      /\ s.orden = shell[c].orden /\ s.sobre = shell[c].sobre
  BY <1>1 DEF Mandado
<1>4. cache' \in [Clientes -> [Usuarios -> Puertos \cup {Nada}]]
  <2>1. ASSUME NEW u \in Usuarios
        PROVE  (IF \E e \in lista : e.nombre = u
                THEN (CHOOSE e \in lista : e.nombre = u).puerto
                ELSE cache[c][u]) \in Puertos \cup {Nada}
    <3>1. CASE \E e \in lista : e.nombre = u
      <4>1. (CHOOSE e \in lista : e.nombre = u) \in lista BY <3>1
      <4> QED BY <3>1, <4>1
    <3>2. CASE ~\E e \in lista : e.nombre = u BY <3>2 DEF Inv, TipoProceso
    <3> QED BY <3>1, <3>2
  <2> QED BY <2>1 DEF Contesta, Inv, TipoProceso
<1>5. s.sobre \in Usuarios /\ (s.orden \in DeUsuario => usuario[c] # Nada)
  BY <1>1, <1>3 DEF Inv, ConSusDos, EnCurso
<1>6. bandeja \in [Puertos -> Seq(Conexion)] BY DEF Inv, TipoEnchufes
<1>7. s.orden = "CONNECT" /\ s.fase \in {"pide", "recibe"} <=> Abriendo(c)
  BY <1>1, <1>3 DEF Abriendo, EnCurso
<1> HIDE DEF s
<1> QED BY <1>1, <1>2, <1>3, <1>4, <1>5, <1>6, <1>7, ShellSeguro
-----------------------------------------------------------------------------
(* CONNECT opens a socket that nobody had: its client had none, and no     *)
(* receiver was at that port.                                              *)
LEMMA ConnectSeguro ==
  ASSUME Inv, NEW c \in Clientes, NEW u \in Usuarios, NEW p \in Puertos, connect(c, u, p)
  PROVE  Inv'
<1> DEFINE s == [orden |-> "CONNECT", fase |-> "pide", sobre |-> u, ok |-> FALSE]
           h == [SinHilo EXCEPT !.fase = "while"]
<1>1. /\ shell[c].fase = "libre" /\ usuario[c] = Nada /\ dueno[p] = Nada
      /\ shell' = [shell EXCEPT ![c] = s]
      /\ dueno' = [dueno EXCEPT ![p] = c]
      /\ escucha' = [escucha EXCEPT ![c] = p]
      /\ receptor' = [receptor EXCEPT ![p] = h]
      /\ UNCHANGED <<usuario, cache, bandeja>>
  BY DEF connect, Libre, Pide
<1>2. s \in Mandado /\ s.orden = "CONNECT" /\ s.fase = "pide" /\ s.sobre = u
  BY DEF Mandado, Ordenes
<1>3. h \in Hilo /\ h.fase = "while" /\ h.conn = Nada BY DEF Hilo, SinHilo
<1> HIDE DEF s, h
<1>4. TipoProceso' BY <1>1, <1>2 DEF Inv, TipoProceso
<1>5. TipoEnchufes' BY <1>1, <1>3 DEF Inv, TipoEnchufes
<1>6. escucha[c] = Nada /\ Nada \notin Puertos /\ Nada \notin Clientes
  <2>1. ~Abriendo(c) BY <1>1 DEF Abriendo, EnCurso
  <2> QED BY <1>1, <2>1, ClienteAssumption DEF Inv, ConSusDos, EnCurso
<1>7. receptor[p].fase = "no" BY <1>1 DEF Inv, EnLoSuyo
<1>8. /\ \A d \in Clientes : /\ escucha'[d] = IF d = c THEN p ELSE escucha[d]
                             /\ shell'[d] = IF d = c THEN s ELSE shell[d]
      /\ \A q \in Puertos : /\ dueno'[q] = IF q = p THEN c ELSE dueno[q]
                            /\ receptor'[q] = IF q = p THEN h ELSE receptor[q]
  BY <1>1 DEF Inv, TipoProceso, TipoEnchufes
<1>9. Vacias'
  <2>1. ASSUME NEW q \in Puertos, Abierto(q) PROVE Abierto(q)'
    <3>1. PICK d \in Clientes : escucha[d] = q BY <2>1 DEF Abierto
    <3> QED BY <1>6, <1>8, <3>1 DEF Abierto
  <2>2. ASSUME NEW q \in Puertos, Bloqueados(q) # {} PROVE Bloqueados(q)' # {}
    <3>1. PICK r \in Puertos : receptor[r].fase = "accept" /\ receptor[r].puerto = q
      BY <2>2 DEF Bloqueados
    <3>2. receptor'[r] = receptor[r] BY <1>7, <1>8, <3>1
    <3> QED BY <3>1, <3>2 DEF Bloqueados
  <2> QED BY <1>1, <2>1, <2>2 DEF Inv, Vacias, Escuchando
<1>10. ASSUME NEW d \in Clientes PROVE ConSusDos(d)'
  <2>1. ConSusDos(d) /\ usuario'[d] = usuario[d] BY <1>1 DEF Inv
  <2>2. CASE d = c
    BY <1>1, <1>2, <1>6, <1>8, <2>2 DEF ConSusDos, Abriendo, EnCurso, DeUsuario
  <2>3. CASE d # c
    <3>1. Abriendo(d)' <=> Abriendo(d) BY <1>8, <2>3 DEF Abriendo, EnCurso
    <3> QED BY <1>8, <2>1, <2>3, <3>1 DEF ConSusDos, EnCurso
  <2> QED BY <2>2, <2>3
<1>11. ASSUME NEW d \in Clientes PROVE ConReceptor(d)'
  <2>1. CASE d = c BY <1>3, <1>8, <2>1 DEF ConReceptor, Vivas
  <2>2. CASE d # c /\ escucha[d] # Nada
    <3>1. /\ dueno[escucha[d]] = d /\ receptor[escucha[d]].fase \in Vivas
          /\ escucha[d] \in Puertos /\ escucha'[d] = escucha[d]
      BY <1>8, <2>2 DEF Inv, ConReceptor, TipoProceso
    <3>2. escucha[d] # p BY <1>1, <1>6, <3>1
    <3> QED BY <1>8, <3>1, <3>2 DEF ConReceptor
  <2>3. CASE d # c /\ escucha[d] = Nada BY <1>8, <2>3 DEF ConReceptor
  <2> QED BY <2>1, <2>2, <2>3
<1>12. ASSUME NEW q \in Puertos PROVE EnLoSuyo(q)'
  <2>1. CASE q = p BY <1>3, <1>6, <1>8, <2>1 DEF EnLoSuyo
  <2>2. CASE q # p
    <3>1. EnLoSuyo(q) /\ dueno'[q] = dueno[q] /\ receptor'[q] = receptor[q]
      BY <1>8, <2>2 DEF Inv
    <3>2. receptor[q].fase \in {"accept", "atiende"} => receptor[q].puerto # p
      BY <1>1, <3>1 DEF EnLoSuyo
    <3> QED BY <1>8, <3>1, <3>2 DEF EnLoSuyo
  <2> QED BY <2>1, <2>2
<1> QED BY <1>4, <1>5, <1>9, <1>10, <1>11, <1>12 DEF Inv

(* The end of a process takes its own sockets and receivers along, and     *)
(* nobody else's.                                                          *)
LEMMA TerminaSeguro ==
  ASSUME Inv, NEW c \in Clientes, Termina(c)
  PROVE  Inv'
<1> DEFINE h == [SinHilo EXCEPT !.fase = "fin"]
<1>1. /\ usuario' = [usuario EXCEPT ![c] = Nada]
      /\ escucha' = [escucha EXCEPT ![c] = Nada]
      /\ cache' = [cache EXCEPT ![c] = [u \in Usuarios |-> Nada]]
      /\ shell' = [shell EXCEPT ![c] = EnReposo]
      /\ receptor' = [p \in Puertos |-> IF dueno[p] = c THEN h ELSE receptor[p]]
      /\ bandeja' = [p \in Puertos |-> IF dueno[p] = c THEN <<>> ELSE bandeja[p]]
      /\ dueno' = dueno
  BY DEF Termina, Descansa
<1>2. EnReposo \in Mandado /\ EnReposo.fase = "libre"
  BY DEF EnReposo, Mandado, Ordenes
<1>3. h \in Hilo /\ h.fase = "fin" /\ h.conn = Nada BY DEF Hilo, SinHilo
<1> HIDE DEF h
<1>4. TipoProceso' BY <1>1, <1>2 DEF Inv, TipoProceso
<1>5. TipoEnchufes'
  <2>1. <<>> \in Seq(Conexion) BY EmptySeq
  <2> QED BY <1>1, <1>3, <2>1 DEF Inv, TipoEnchufes
<1>6. /\ \A d \in Clientes : /\ escucha'[d] = IF d = c THEN Nada ELSE escucha[d]
                             /\ usuario'[d] = IF d = c THEN Nada ELSE usuario[d]
                             /\ shell'[d] = IF d = c THEN EnReposo ELSE shell[d]
      /\ \A q \in Puertos : receptor'[q] = IF dueno[q] = c THEN h ELSE receptor[q]
  BY <1>1 DEF Inv, TipoProceso
<1>7. Vacias'
  <2>1. ASSUME NEW q \in Puertos, dueno[q] # c, Abierto(q) PROVE Abierto(q)'
    <3>1. PICK d \in Clientes : escucha[d] = q BY <2>1 DEF Abierto
    <3>2. q # Nada BY ClienteAssumption
    <3>3. dueno[q] = d BY <3>1, <3>2 DEF Inv, ConReceptor
    <3> QED BY <1>6, <2>1, <3>1, <3>3 DEF Abierto
  <2>2. ASSUME NEW q \in Puertos, dueno[q] # c, Bloqueados(q) # {}
        PROVE  Bloqueados(q)' # {}
    <3>1. PICK r \in Puertos : receptor[r].fase = "accept" /\ receptor[r].puerto = q
      BY <2>2 DEF Bloqueados
    <3>2. dueno[q] = dueno[r] BY <3>1 DEF Inv, EnLoSuyo
    <3>3. receptor'[r] = receptor[r] BY <1>6, <2>2, <3>2
    <3> QED BY <3>1, <3>3 DEF Bloqueados
  <2> QED BY <1>1, <2>1, <2>2 DEF Inv, Vacias, Escuchando
<1>8. ASSUME NEW d \in Clientes PROVE ConSusDos(d)'
  <2>1. CASE d = c BY <1>2, <1>6, <2>1 DEF ConSusDos, Abriendo, EnCurso
  <2>2. CASE d # c
    <3>1. ConSusDos(d) BY DEF Inv
    <3>2. Abriendo(d)' <=> Abriendo(d) BY <1>6, <2>2 DEF Abriendo, EnCurso
    <3> QED BY <1>6, <2>2, <3>1, <3>2 DEF ConSusDos, EnCurso
  <2> QED BY <2>1, <2>2
<1>9. ASSUME NEW d \in Clientes PROVE ConReceptor(d)'
  <2>1. CASE d = c BY <1>6, <2>1 DEF ConReceptor
  <2>2. CASE d # c
    <3>1. ConReceptor(d) /\ escucha[d] \in Puertos \cup {Nada} BY DEF Inv, TipoProceso
    <3> QED BY <1>1, <1>6, <2>2, <3>1 DEF ConReceptor
  <2> QED BY <2>1, <2>2
<1>10. ASSUME NEW q \in Puertos PROVE EnLoSuyo(q)'
  <2>1. EnLoSuyo(q) BY DEF Inv
  <2> QED BY <1>1, <1>3, <1>6, <2>1, ClienteAssumption DEF EnLoSuyo
<1> QED BY <1>4, <1>5, <1>7, <1>8, <1>9, <1>10 DEF Inv

(* _stop_listener: a socket that nobody is inside accept() on is gone with *)
(* its queue.                                                              *)
LEMMA CierraSeguro ==
  ASSUME Inv, NEW c \in Clientes, _stop_listener(c), UNCHANGED cache
  PROVE  Inv'
<1> DEFINE s == [shell[c] EXCEPT !.fase = "join"]
<1>1. /\ escucha' = [escucha EXCEPT ![c] = Nada]
      /\ bandeja' = [p \in Puertos |-> IF p = escucha[c] /\ Bloqueados(p) = {}
                                       THEN <<>> ELSE bandeja[p]]
      /\ shell' = [shell EXCEPT ![c] = s]
      /\ UNCHANGED <<usuario, cache, dueno, receptor>>
  BY DEF _stop_listener
<1>2. s \in Mandado /\ s.fase = "join"
  <2>1. shell[c] \in Mandado BY DEF Inv, TipoProceso
  <2> QED BY <2>1 DEF Mandado
<1> HIDE DEF s
<1>3. TipoProceso' BY <1>1, <1>2 DEF Inv, TipoProceso
<1>4. TipoEnchufes'
  <2>1. <<>> \in Seq(Conexion) BY EmptySeq
  <2> QED BY <1>1, <2>1 DEF Inv, TipoEnchufes
<1>5. \A d \in Clientes : /\ escucha'[d] = IF d = c THEN Nada ELSE escucha[d]
                          /\ shell'[d] = IF d = c THEN s ELSE shell[d]
  BY <1>1 DEF Inv, TipoProceso
<1>6. Vacias'
  <2>1. ASSUME NEW q \in Puertos, ~Escuchando(q)' PROVE bandeja'[q] = <<>>
    <3>1. Bloqueados(q)' = Bloqueados(q) BY <1>1 DEF Bloqueados
    <3>2. Bloqueados(q) = {} BY <2>1, <3>1 DEF Escuchando
    <3>3. \A d \in Clientes : d # c => escucha[d] # q
      BY <1>5, <2>1 DEF Escuchando, Abierto
    <3>4. CASE escucha[c] = q BY <1>1, <3>2, <3>4
    <3>5. CASE escucha[c] # q
      <4>1. ~Escuchando(q) BY <3>2, <3>3, <3>5 DEF Escuchando, Abierto
      <4> QED BY <1>1, <3>5, <4>1 DEF Inv, Vacias
    <3> QED BY <3>4, <3>5
  <2> QED BY <2>1 DEF Vacias
<1>7. ASSUME NEW d \in Clientes PROVE ConSusDos(d)' /\ ConReceptor(d)'
  <2>1. CASE d = c BY <1>2, <1>5, <2>1 DEF ConSusDos, Abriendo, EnCurso, ConReceptor
  <2>2. CASE d # c
    <3>1. ConSusDos(d) /\ ConReceptor(d) BY DEF Inv
    <3>2. Abriendo(d)' <=> Abriendo(d) BY <1>5, <2>2 DEF Abriendo, EnCurso
    <3> QED BY <1>1, <1>5, <2>2, <3>1, <3>2 DEF ConSusDos, EnCurso, ConReceptor
  <2> QED BY <2>1, <2>2
<1>8. \A q \in Puertos : EnLoSuyo(q)' BY <1>1 DEF Inv, EnLoSuyo
<1> QED BY <1>3, <1>4, <1>6, <1>7, <1>8 DEF Inv

(* A command that ends with a user exactly if there is a listener.         *)
LEMMA AcabaSeguro ==
  ASSUME Inv, NEW c \in Clientes, NEW v \in Usuarios \cup {Nada},
         usuario' = [usuario EXCEPT ![c] = v], v # Nada <=> escucha[c] # Nada,
         Descansa(c), UNCHANGED <<escucha, cache, dueno, receptor, bandeja>>
  PROVE  Inv'
<1>1. shell' = [shell EXCEPT ![c] = EnReposo] BY DEF Descansa
<1>2. EnReposo \in Mandado /\ EnReposo.fase = "libre"
  BY DEF EnReposo, Mandado, Ordenes
<1>3. TipoProceso' BY <1>1, <1>2 DEF Inv, TipoProceso
<1>4. TipoEnchufes' BY DEF Inv, TipoEnchufes
<1>5. Vacias' BY DEF Inv, Vacias, Escuchando, Abierto, Bloqueados
<1>6. ASSUME NEW d \in Clientes PROVE ConSusDos(d)' /\ ConReceptor(d)'
  <2>1. /\ usuario'[d] = IF d = c THEN v ELSE usuario[d]
        /\ shell'[d] = IF d = c THEN EnReposo ELSE shell[d]
    BY <1>1 DEF Inv, TipoProceso
  <2>2. ConSusDos(d) /\ ConReceptor(d) BY DEF Inv
  <2>3. CASE d = c BY <1>2, <2>1, <2>2, <2>3 DEF ConSusDos, Abriendo, EnCurso, ConReceptor
  <2>4. CASE d # c
    <3>1. Abriendo(d)' <=> Abriendo(d) BY <2>1, <2>4 DEF Abriendo, EnCurso
    <3> QED BY <2>1, <2>2, <2>4, <3>1 DEF ConSusDos, EnCurso, ConReceptor
  <2> QED BY <2>3, <2>4
<1>7. \A q \in Puertos : EnLoSuyo(q)' BY DEF Inv, EnLoSuyo
<1> QED BY <1>3, <1>4, <1>5, <1>6, <1>7 DEF Inv
-----------------------------------------------------------------------------
(* What a receiver may become without disturbing the sessions: the queues  *)
(* of sockets that stop listening are empty, and its own client's socket   *)
(* keeps a living receiver.                                                *)
LEMMA ReceptorSeguro ==
  ASSUME Inv, NEW p \in Puertos, NEW h \in Hilo,
         receptor' = [receptor EXCEPT ![p] = h],
         h.fase # "no", receptor[p].fase # "no",
         h.fase = "fin" => \A d \in Clientes : escucha[d] # p,
         h.fase \in {"accept", "atiende"} =>
             h.puerto \in Puertos /\ dueno[h.puerto] = dueno[p],
         h.conn # Nada => h.fase = "atiende",
         bandeja' \in [Puertos -> Seq(Conexion)],
         \A q \in Puertos : ~Escuchando(q)' => bandeja'[q] = <<>>,
         UNCHANGED <<usuario, escucha, cache, dueno>>,
         shell' \in [Clientes -> Mandado],
         \A d \in Clientes : \/ shell'[d] = shell[d]
                             \/ shell[d].fase = "fichero" /\ shell'[d] = EnReposo
  PROVE  Inv'
<1>1. TipoProceso' BY DEF Inv, TipoProceso
<1>2. TipoEnchufes' BY DEF Inv, TipoEnchufes
<1>3. Vacias' BY DEF Vacias
<1>4. \A q \in Puertos : receptor'[q] = IF q = p THEN h ELSE receptor[q]
  BY DEF Inv, TipoEnchufes
<1>5. ASSUME NEW d \in Clientes PROVE ConSusDos(d)'
  <2>1. ConSusDos(d) /\ usuario'[d] = usuario[d] /\ escucha'[d] = escucha[d]
    BY DEF Inv
  <2>2. CASE shell'[d] = shell[d]
    <3>1. Abriendo(d)' <=> Abriendo(d) BY <2>2 DEF Abriendo, EnCurso
    <3> QED BY <2>1, <2>2, <3>1 DEF ConSusDos, EnCurso
  <2>3. CASE shell[d].fase = "fichero" /\ shell'[d] = EnReposo
    <3>1. shell'[d].fase = "libre" BY <2>3 DEF EnReposo
    <3>2. ~Abriendo(d)' /\ ~Abriendo(d) BY <2>3, <3>1 DEF Abriendo, EnCurso
    <3> QED BY <2>1, <2>3, <3>1, <3>2 DEF ConSusDos, EnCurso
  <2> QED BY <2>2, <2>3
<1>6. ASSUME NEW d \in Clientes PROVE ConReceptor(d)'
  <2>1. /\ ConReceptor(d) /\ escucha[d] \in Puertos \cup {Nada}
        /\ escucha'[d] = escucha[d]
    BY DEF Inv, TipoProceso
  <2>2. h.fase \in {"while", "accept", "atiende", "fin"} BY DEF Hilo
  <2> QED BY <1>4, <2>1, <2>2 DEF ConReceptor, Vivas
<1>7. ASSUME NEW q \in Puertos PROVE EnLoSuyo(q)'
  <2>1. EnLoSuyo(q) /\ EnLoSuyo(p) BY DEF Inv
  <2>2. CASE q = p BY <1>4, <2>1, <2>2 DEF EnLoSuyo
  <2>3. CASE q # p BY <1>4, <2>1, <2>3 DEF EnLoSuyo
  <2> QED BY <2>2, <2>3
<1> QED BY <1>1, <1>2, <1>3, <1>5, <1>6, <1>7 DEF Inv

(* A receiver that is not inside accept() may do so without any socket     *)
(* closing.                                                                *)
LEMMA SigueAbierto ==
  ASSUME NEW p \in Puertos, receptor[p].fase # "accept", NEW h,
         receptor \in [Puertos -> Hilo],
         receptor' = [receptor EXCEPT ![p] = h], escucha' = escucha
  PROVE  \A q \in Puertos : Escuchando(q) => Escuchando(q)'
<1>1. ASSUME NEW q \in Puertos, Bloqueados(q) # {} PROVE Bloqueados(q)' # {}
  <2>1. PICK r \in Puertos : receptor[r].fase = "accept" /\ receptor[r].puerto = q
    BY <1>1 DEF Bloqueados
  <2>2. receptor'[r] = receptor[r] BY <2>1
  <2> QED BY <2>1, <2>2 DEF Bloqueados
<1> QED BY <1>1 DEF Escuchando, Abierto

(* At the top of the loop a receiver finds a socket of its own client, or  *)
(* none.                                                                   *)
LEMMA EntraSeguro ==
  ASSUME Inv, NEW p \in Puertos, EntraEnAccept(p)
  PROVE  Inv'
<1> DEFINE d == dueno[p]
           h == IF escucha[d] # Nada
                THEN [receptor[p] EXCEPT !.fase = "accept", !.puerto = escucha[d]]
                ELSE [receptor[p] EXCEPT !.fase = "fin"]
<1>1. /\ receptor[p].fase = "while" /\ receptor' = [receptor EXCEPT ![p] = h]
      /\ UNCHANGED <<usuario, escucha, cache, shell, dueno, bandeja>>
  BY DEF EntraEnAccept, proceso
<1>2. d \in Clientes /\ receptor[p] \in Hilo
  BY <1>1 DEF Inv, EnLoSuyo, TipoEnchufes
<1>3. escucha[d] \in Puertos \cup {Nada} /\ ConReceptor(d)
  BY <1>2 DEF Inv, TipoProceso
<1>4. /\ h \in Hilo /\ h.fase \in {"accept", "fin"} /\ h.conn = Nada
      /\ h.fase = "fin" => escucha[d] = Nada
      /\ h.fase = "accept" => h.puerto \in Puertos /\ dueno[h.puerto] = d
  <2>0. receptor[p].conn = Nada BY <1>1 DEF Inv, EnLoSuyo
  <2>1. CASE escucha[d] # Nada BY <1>2, <1>3, <2>0, <2>1 DEF Hilo, ConReceptor
  <2>2. CASE escucha[d] = Nada BY <1>2, <2>0, <2>2 DEF Hilo
  <2> QED BY <2>1, <2>2
<1>5. h.fase = "fin" => \A e \in Clientes : escucha[e] # p
  <2>1. ASSUME NEW e \in Clientes, escucha[e] = p PROVE e = d /\ escucha[d] # Nada
    <3>1. p # Nada BY ClienteAssumption
    <3>2. dueno[p] = e BY <2>1, <3>1 DEF Inv, ConReceptor
    <3> QED BY <2>1, <3>1, <3>2
  <2> QED BY <1>4, <2>1
<1> HIDE DEF h, d
<1>6. \A q \in Puertos : Escuchando(q) => Escuchando(q)'
  BY <1>1, SigueAbierto DEF Inv, TipoEnchufes
<1>7. /\ bandeja \in [Puertos -> Seq(Conexion)] /\ shell \in [Clientes -> Mandado]
      /\ \A q \in Puertos : ~Escuchando(q)' => bandeja'[q] = <<>>
  BY <1>1, <1>6 DEF Inv, TipoProceso, TipoEnchufes, Vacias
<1>8. d = dueno[p] BY DEF d
<1> QED BY <1>1, <1>4, <1>5, <1>7, <1>8, ReceptorSeguro

(* The connection that is taken leaves the queue, and on a closed socket   *)
(* the last to leave accept() empties it.                                  *)
LEMMA AceptaSeguro ==
  ASSUME Inv, NEW p \in Puertos, Acepta(p)
  PROVE  Inv'
<1> DEFINE q == receptor[p].puerto
           h == [fase |-> "atiende", puerto |-> q, conn |-> Head(bandeja[q])]
<1>1. /\ receptor[p].fase = "accept" /\ bandeja[q] # <<>>
      /\ receptor' = [receptor EXCEPT ![p] = h]
      /\ bandeja' = [bandeja EXCEPT ![q] = Quedan(p, q)]
      /\ UNCHANGED <<usuario, escucha, cache, shell, dueno>>
  BY DEF Acepta, proceso
<1>2. q \in Puertos /\ dueno[q] = dueno[p] BY <1>1 DEF Inv, EnLoSuyo
<1>3. /\ bandeja[q] \in Seq(Conexion) /\ Tail(bandeja[q]) \in Seq(Conexion)
      /\ Head(bandeja[q]) \in Conexion /\ <<>> \in Seq(Conexion)
  <2>1. bandeja[q] \in Seq(Conexion) BY <1>2 DEF Inv, TipoEnchufes
  <2> QED BY <1>1, <2>1, HeadTailProperties, EmptySeq
<1>4. h \in Hilo /\ h.fase = "atiende" /\ h.puerto = q BY <1>2, <1>3 DEF Hilo
<1>5. Quedan(p, q) \in Seq(Conexion) BY <1>3 DEF Quedan
<1>6. /\ p \in Bloqueados(q) /\ Abierto(q)' = Abierto(q)
      /\ \A x \in Puertos : Abierto(x)' <=> Abierto(x)
  BY <1>1 DEF Bloqueados, Abierto
<1> HIDE DEF h
<1>7. ASSUME NEW x \in Puertos, NEW r \in Bloqueados(x), r # p PROVE r \in Bloqueados(x)'
  BY <1>1, <1>7 DEF Bloqueados, Inv, TipoEnchufes
<1>8. ASSUME NEW x \in Puertos, ~Escuchando(x)' PROVE bandeja'[x] = <<>>
  <2>1. Bloqueados(x)' = {} /\ ~Abierto(x)' BY <1>8 DEF Escuchando
  <2>2. Bloqueados(x) \subseteq {p} /\ ~Abierto(x) BY <1>6, <1>7, <2>1
  <2>3. CASE x = q
    <3>1. Bloqueados(q) = {p} BY <1>6, <2>2, <2>3
    <3>2. Quedan(p, q) = <<>> BY <2>2, <2>3, <3>1 DEF Quedan
    <3> QED BY <1>1, <1>2, <2>3, <3>2 DEF Inv, TipoEnchufes
  <2>4. CASE x # q
    <3>1. p \notin Bloqueados(x) BY <2>4 DEF Bloqueados
    <3>2. ~Escuchando(x) BY <2>2, <3>1 DEF Escuchando
    <3> QED BY <1>1, <2>4, <3>2 DEF Inv, TipoEnchufes, Vacias
  <2> QED BY <2>3, <2>4
<1>9. /\ bandeja' \in [Puertos -> Seq(Conexion)] /\ shell \in [Clientes -> Mandado]
  BY <1>1, <1>5 DEF Inv, TipoProceso, TipoEnchufes
<1> HIDE DEF q
<1> QED BY <1>1, <1>2, <1>4, <1>8, <1>9, ReceptorSeguro

(* The connection is served, and the receiver goes on; who asked for a     *)
(* file has it.                                                            *)
LEMMA AtiendeSeguro ==
  ASSUME Inv, NEW p \in Puertos, Atiende(p)
  PROVE  Inv'
<1> DEFINE h == [SinHilo EXCEPT !.fase = "while"]
           c == receptor[p].conn.carta
<1>1. /\ receptor[p].fase = "atiende"
      /\ receptor' = [receptor EXCEPT ![p] = h]
      /\ \/ shell' = shell
         \/ shell[c].fase = "fichero" /\ shell' = [shell EXCEPT ![c] = EnReposo]
      /\ UNCHANGED <<usuario, escucha, cache, dueno, bandeja>>
  BY DEF Atiende, Descansa, TrasAtender
<1>2. h \in Hilo /\ h.fase = "while" /\ h.conn = Nada BY DEF Hilo, SinHilo
<1>3. EnReposo \in Mandado BY DEF EnReposo, Mandado, Ordenes
<1> HIDE DEF h, c
<1>4. /\ shell' \in [Clientes -> Mandado]
      /\ \A d \in Clientes : \/ shell'[d] = shell[d]
                             \/ shell[d].fase = "fichero" /\ shell'[d] = EnReposo
  BY <1>1, <1>3 DEF Inv, TipoProceso
<1>5. \A q \in Puertos : Escuchando(q) => Escuchando(q)'
  BY <1>1, SigueAbierto DEF Inv, TipoEnchufes
<1>6. /\ bandeja \in [Puertos -> Seq(Conexion)]
      /\ \A q \in Puertos : ~Escuchando(q)' => bandeja'[q] = <<>>
  BY <1>1, <1>5 DEF Inv, TipoEnchufes, Vacias
<1> QED BY <1>1, <1>2, <1>4, <1>6, ReceptorSeguro

(* A connection from outside only joins a queue.                           *)
LEMMA LlegaSeguro ==
  ASSUME Inv, NEW p \in Puertos, NEW conn \in Conexion, Entra(p, conn)
  PROVE  Inv'
<1>1. Llega(p, conn) /\ UNCHANGED <<usuario, escucha, cache, shell, dueno, receptor>>
  BY DEF Entra, proceso
<1>2. /\ bandeja' \in [Puertos -> Seq(Conexion)]
      /\ \A q \in Puertos : ~Escuchando(q) => bandeja'[q] = bandeja[q]
  BY <1>1, LlegaBien DEF Inv
<1>3. TipoProceso' /\ TipoEnchufes' BY <1>1, <1>2 DEF Inv, TipoProceso, TipoEnchufes
<1>4. Vacias'
  BY <1>1, <1>2 DEF Inv, Vacias, Escuchando, Abierto, Bloqueados
<1>5. /\ \A d \in Clientes : ConSusDos(d)' /\ ConReceptor(d)'
      /\ \A q \in Puertos : EnLoSuyo(q)'
  BY <1>1 DEF Inv, ConSusDos, Abriendo, EnCurso, ConReceptor, EnLoSuyo
<1> QED BY <1>3, <1>4, <1>5 DEF Inv
-----------------------------------------------------------------------------
(* Every command that the shell may be given keeps the sessions.           *)
LEMMA MandaSeguro ==
  ASSUME Inv, NEW c \in Clientes, NEW orden, Manda(c, orden)
  PROVE  Inv'
<1>1. PICK u \in Usuarios :
        \/ register(c, u) \/ unregister(c, u) \/ (\E p \in Puertos : connect(c, u, p))
        \/ disconnect(c, u) \/ users(c) \/ send(c, u) \/ sendAttach(c, u)
        \/ getfile(c, u) \/ quit(c)
  BY DEF Manda
<1>2. usuario[c] # Nada => usuario[c] \in Usuarios BY DEF Inv, TipoProceso
<1>3. ASSUME NEW o \in Ordenes \ {"CONNECT"}, NEW v \in Usuarios,
             o \in DeUsuario => usuario[c] # Nada,
             Libre(c), Pide(c, o, v), UNCHANGED <<usuario, escucha, cache, enchufes>>
      PROVE  Inv'
  BY <1>3, PideSeguro
<1>4. CASE getfile(c, u) /\ cache[c][u] # Nada
  <2>1. cache[c][u] \in Puertos BY <1>4 DEF Inv, TipoProceso
  <2>2. ~Abriendo(c) /\ shell[c].fase # "join" BY <1>4 DEF getfile, Libre, Abriendo, EnCurso
  <2>3. /\ PideFichero(c, cache[c][u])
        /\ UNCHANGED <<usuario, escucha, cache, dueno, receptor>>
    BY <1>4 DEF getfile
  <2> QED BY <2>1, <2>2, <2>3, FicheroSeguro
<1>5. CASE getfile(c, u) /\ cache[c][u] = Nada
  <2>1. /\ Libre(c) /\ Pide(c, "GETFILE", u) /\ usuario[c] # Nada
        /\ UNCHANGED <<usuario, escucha, cache, enchufes>>
    BY <1>5 DEF getfile, enchufes
  <2> QED BY <1>3, <2>1 DEF Ordenes
<1>6. CASE quit(c) /\ usuario[c] = Nada BY <1>6, TerminaSeguro DEF quit
<1>7. CASE quit(c) /\ usuario[c] # Nada BY <1>2, <1>3, <1>7 DEF quit, Ordenes
<1>8. CASE users(c) BY <1>2, <1>3, <1>8 DEF users, Ordenes
<1>9. CASE register(c, u) \/ unregister(c, u)
  BY <1>3, <1>9 DEF register, unregister, Ordenes, DeUsuario
<1>10. CASE disconnect(c, u) BY <1>3, <1>10 DEF disconnect, Ordenes, DeUsuario
<1>11. CASE send(c, u) \/ sendAttach(c, u) BY <1>3, <1>11 DEF send, sendAttach, Ordenes
<1> QED
  BY <1>1, <1>4, <1>5, <1>6, <1>7, <1>8, <1>9, <1>10, <1>11, ConnectSeguro

(* Whatever the shell does once it has the answer keeps them too.          *)
LEMMA SigueSeguro ==
  ASSUME Inv, NEW c \in Clientes, Sigue(c)
  PROVE  Inv'
<1>1. ConSusDos(c) BY DEF Inv
<1>2. CASE RecibeConnect(c)
  <2>1. shell[c].fase = "recibe" /\ Abriendo(c) BY <1>2 DEF RecibeConnect, Abriendo, EnCurso
  <2>2. CASE shell[c].ok
    <3>1. /\ usuario' = [usuario EXCEPT ![c] = shell[c].sobre] /\ Descansa(c)
          /\ UNCHANGED <<escucha, cache, dueno, receptor, bandeja>>
      BY <1>2, <2>2 DEF RecibeConnect, enchufes
    <3>2. shell[c].sobre \in Usuarios /\ escucha[c] # Nada
      BY <1>1, <2>1 DEF ConSusDos, EnCurso
    <3> QED BY <3>1, <3>2, AcabaSeguro, ClienteAssumption
  <2>3. CASE ~shell[c].ok BY <1>2, <2>3, CierraSeguro DEF RecibeConnect
  <2> QED BY <2>2, <2>3
<1>3. CASE RecibeDisconnect(c) BY <1>3, CierraSeguro DEF RecibeDisconnect
<1>4. CASE RecibeGetfile(c)
  <2>1. /\ shell[c].fase = "recibe" /\ shell[c].sobre \in Usuarios /\ ~Abriendo(c)
        /\ UNCHANGED <<usuario, escucha, cache, dueno, receptor>>
    BY <1>1, <1>4 DEF RecibeGetfile, ConSusDos, Abriendo, EnCurso
  <2>2. CASE cache[c][shell[c].sobre] # Nada
    <3> DEFINE p == cache[c][shell[c].sobre]
    <3>1. p \in Puertos BY <2>1, <2>2 DEF Inv, TipoProceso
    <3>2. PideFichero(c, p) BY <1>4, <2>2 DEF RecibeGetfile
    <3> HIDE DEF p
    <3> QED BY <2>1, <3>1, <3>2, FicheroSeguro
  <2>3. CASE cache[c][shell[c].sobre] = Nada
    <3>1. Descansa(c) /\ UNCHANGED bandeja BY <1>4, <2>3 DEF RecibeGetfile
    <3> QED BY <2>1, <3>1, DescansaSeguro
  <2> QED BY <2>2, <2>3
<1>5. CASE RecibeOtra(c)
  <2>1. /\ shell[c].fase = "recibe" /\ ~Abriendo(c) /\ Descansa(c)
        /\ UNCHANGED <<usuario, escucha, cache, dueno, receptor, bandeja>>
    BY <1>5 DEF RecibeOtra, Acaba, enchufes, Abriendo, EnCurso
  <2> QED BY <2>1, DescansaSeguro
<1>6. CASE FinDeJoin(c)
  <2>1. escucha[c] = Nada BY <1>1, <1>6 DEF FinDeJoin, ConSusDos
  <2>2. CASE Termina(c) BY <2>2, TerminaSeguro
  <2>3. CASE ~Termina(c)
    <3>1. /\ usuario' = [usuario EXCEPT ![c] = Nada] /\ Descansa(c)
          /\ UNCHANGED <<escucha, cache, dueno, receptor, bandeja>>
      BY <1>6, <2>3 DEF FinDeJoin, enchufes
    <3> QED BY <2>1, <3>1, AcabaSeguro
  <2> QED BY <2>2, <2>3
<1>7. CASE FicheroCortado(c)
  <2>1. /\ shell[c].fase = "fichero" /\ ~Abriendo(c) /\ Descansa(c)
        /\ UNCHANGED <<usuario, escucha, cache, dueno, receptor, bandeja>>
    BY <1>7 DEF FicheroCortado, Acaba, enchufes, Abriendo, EnCurso
  <2> QED BY <2>1, DescansaSeguro
<1> QED BY <1>2, <1>3, <1>4, <1>5, <1>6, <1>7 DEF Sigue

(* So does every step, of the client and of its environment.               *)
LEMMA PasoSeguro == Inv /\ [Next]_vars => Inv'
<1> SUFFICES ASSUME Inv, [Next]_vars PROVE Inv'
  OBVIOUS
<1>1. ASSUME NEW c \in Clientes, RespuestaAjena(c) PROVE Inv'
  <2>0. PICK ok \in BOOLEAN, conectados \in SUBSET Usuarios :
          \E donde \in [conectados -> {p \in Puertos : dueno[p] # Nada}] :
             Contesta(c, ok, {[nombre |-> u, puerto |-> donde[u]] : u \in conectados})
    BY <1>1 DEF RespuestaAjena
  <2>1. PICK donde \in [conectados -> {p \in Puertos : dueno[p] # Nada}] :
          Contesta(c, ok, {[nombre |-> u, puerto |-> donde[u]] : u \in conectados})
    BY <2>0
  <2> DEFINE lista == {[nombre |-> u, puerto |-> donde[u]] : u \in conectados}
  <2>2. \A e \in lista : e.puerto \in Puertos OBVIOUS
  <2>3. Contesta(c, ok, lista) BY <2>1
  <2> HIDE DEF lista
  <2> QED BY <2>2, <2>3, ContestaSeguro
<1>2. CASE \E p \in Puertos : Recibe(p)
  BY <1>2, EntraSeguro, AceptaSeguro, AtiendeSeguro DEF Recibe
<1>3. CASE ConexionAjena
  BY <1>3, LlegaSeguro DEF ConexionAjena
<1>4. CASE UNCHANGED vars
  <2>1. UNCHANGED <<usuario, escucha, cache, shell, dueno, receptor, bandeja>>
    BY <1>4 DEF vars, proceso, enchufes
  <2> QED
    BY <2>1 DEF Inv, TipoProceso, TipoEnchufes, Vacias, Escuchando, Abierto, Bloqueados,
                ConSusDos, Abriendo, EnCurso, ConReceptor, EnLoSuyo
<1> QED
  BY <1>1, <1>2, <1>3, <1>4, MandaSeguro, SigueSeguro, TerminaSeguro DEF Next, Muere

-----------------------------------------------------------------------------
(* What a step of the client or of its environment does to listeners, for  *)
(* the proofs about the whole system.                                      *)

(* How the shell of c goes from one state to the next while c listens at   *)
(* the same port: it waits on, or its CONNECT succeeds, or it has a user   *)
(* and keeps that one.                                                     *)
MismaSesion(c) ==
    /\ escucha'[c] = escucha[c]
    /\ IF Abriendo(c)
       THEN \/ /\ Abriendo(c)' /\ shell'[c].sobre = shell[c].sobre
               /\ shell'[c].fase = "recibe" \/ shell'[c].fase = shell[c].fase
            \/ /\ ~Abriendo(c)' /\ shell[c].fase = "recibe"
               /\ usuario'[c] = shell[c].sobre
       ELSE ~Abriendo(c)' /\ usuario'[c] = usuario[c]

(* A listener that c opens has a port that nobody had.                     *)
SesionNueva(c) ==
    \E p \in Puertos : dueno[p] = Nada /\ escucha'[c] = p /\ Abriendo(c)'

(* After any step c has the listener that it had, a new one or none.       *)
SesionSigue(c) == escucha'[c] = Nada \/ MismaSesion(c) \/ SesionNueva(c)

(* Whoever does not take part in a step keeps the session.                 *)
LEMMA SesionQuieta ==
  ASSUME NEW c \in Clientes, escucha'[c] = escucha[c], usuario'[c] = usuario[c],
         \/ shell'[c] = shell[c]
         \/ shell[c].fase \notin {"pide", "recibe"} /\ shell'[c].fase \notin {"pide", "recibe"}
         \/ ~Abriendo(c) /\ ~Abriendo(c)'
  PROVE  SesionSigue(c)
BY DEF SesionSigue, MismaSesion, Abriendo, EnCurso

(* No command of another client touches the session of c, and those of c   *)
(* itself follow SesionSigue.                                              *)
LEMMA SesionPaso ==
  ASSUME Inv, [Next]_vars, NEW c \in Clientes
  PROVE  SesionSigue(c)
<1>1. ASSUME UNCHANGED <<usuario, escucha, shell>> PROVE SesionSigue(c)
  BY <1>1, SesionQuieta
<1>2. ASSUME NEW d \in Clientes, NEW s, shell' = [shell EXCEPT ![d] = s],
             UNCHANGED <<usuario, escucha>>,
             d = c => ~Abriendo(c) /\ ~(s.orden = "CONNECT" /\ s.fase \in {"pide", "recibe"})
      PROVE  SesionSigue(c)
  <2>1. shell'[c] = IF c = d THEN s ELSE shell[c]
    BY <1>2 DEF Inv, TipoProceso
  <2> QED BY <1>2, <2>1, SesionQuieta DEF Abriendo, EnCurso
<1>3. /\ EnReposo.orden = "ninguna"
      /\ \A d \in Clientes : Descansa(d) => shell' = [shell EXCEPT ![d] = EnReposo]
  BY DEF EnReposo, Descansa
<1>4. ASSUME NEW d \in Clientes, Descansa(d), UNCHANGED <<usuario, escucha>>,
             d = c => ~Abriendo(c)
      PROVE  SesionSigue(c)
  BY <1>2, <1>3, <1>4
<1>5. ASSUME NEW d \in Clientes, NEW p, PideFichero(d, p), UNCHANGED <<usuario, escucha>>,
             d = c => ~Abriendo(c)
      PROVE  SesionSigue(c)
  <2>1. CASE Cabe(p)
    <3> DEFINE s == [orden |-> "GETFILE", fase |-> "fichero", sobre |-> p, ok |-> FALSE]
    <3>1. shell' = [shell EXCEPT ![d] = s] /\ s.orden # "CONNECT"
      BY <1>5, <2>1 DEF PideFichero
    <3> HIDE DEF s
    <3> QED BY <1>2, <1>5, <3>1
  <2>2. CASE ~Cabe(p) BY <1>4, <1>5, <2>2 DEF PideFichero
  <2> QED BY <2>1, <2>2
<1>6. ASSUME NEW d \in Clientes, NEW orden \in Ordenes \ {"CONNECT"}, NEW u,
             Libre(d), Pide(d, orden, u), UNCHANGED <<usuario, escucha>>
      PROVE  SesionSigue(c)
  <2> DEFINE s == [orden |-> orden, fase |-> "pide", sobre |-> u, ok |-> FALSE]
  <2>1. /\ shell' = [shell EXCEPT ![d] = s] /\ s.orden # "CONNECT"
        /\ d = c => ~Abriendo(c)
    BY <1>6 DEF Pide, Libre, Abriendo, EnCurso
  <2> HIDE DEF s
  <2> QED BY <1>2, <1>6, <2>1
<1>7. ASSUME NEW d \in Clientes, Termina(d) PROVE SesionSigue(c)
  <2>1. /\ escucha' = [escucha EXCEPT ![d] = Nada]
        /\ usuario' = [usuario EXCEPT ![d] = Nada]
        /\ shell' = [shell EXCEPT ![d] = EnReposo]
    BY <1>7 DEF Termina, Descansa
  <2>2. CASE d = c BY <2>1, <2>2 DEF Inv, TipoProceso, SesionSigue
  <2>3. CASE d # c BY <2>1, <2>3, SesionQuieta DEF Inv, TipoProceso
  <2> QED BY <2>2, <2>3
<1>8. ASSUME NEW d \in Clientes, NEW u \in Usuarios, NEW p \in Puertos, connect(d, u, p)
      PROVE  SesionSigue(c)
  <2> DEFINE s == [orden |-> "CONNECT", fase |-> "pide", sobre |-> u, ok |-> FALSE]
  <2>1. /\ dueno[p] = Nada /\ usuario' = usuario
        /\ escucha' = [escucha EXCEPT ![d] = p]
        /\ shell' = [shell EXCEPT ![d] = s]
        /\ s.orden = "CONNECT" /\ s.fase = "pide"
    BY <1>8 DEF connect, Pide
  <2> HIDE DEF s
  <2>2. CASE d = c
    BY <2>1, <2>2 DEF Inv, TipoProceso, SesionSigue, SesionNueva, Abriendo, EnCurso
  <2>3. CASE d # c BY <2>1, <2>3, SesionQuieta DEF Inv, TipoProceso
  <2> QED BY <2>2, <2>3
<1>9. ASSUME NEW d \in Clientes, _stop_listener(d) PROVE SesionSigue(c)
  <2>1. /\ escucha' = [escucha EXCEPT ![d] = Nada] /\ usuario' = usuario
        /\ shell' = [shell EXCEPT ![d].fase = "join"]
    BY <1>9 DEF _stop_listener
  <2>2. CASE d = c BY <2>1, <2>2 DEF Inv, TipoProceso, SesionSigue
  <2>3. CASE d # c BY <2>1, <2>3, SesionQuieta DEF Inv, TipoProceso
  <2> QED BY <2>2, <2>3
<1>10. ASSUME NEW d \in Clientes, NEW orden, Manda(d, orden) PROVE SesionSigue(c)
  <2>1. PICK u \in Usuarios :
          \/ register(d, u) \/ unregister(d, u) \/ (\E p \in Puertos : connect(d, u, p))
          \/ disconnect(d, u) \/ users(d) \/ send(d, u) \/ sendAttach(d, u)
          \/ getfile(d, u) \/ quit(d)
    BY <1>10 DEF Manda
  <2>2. CASE register(d, u) \/ unregister(d, u) \/ disconnect(d, u)
    BY <1>6, <2>2 DEF register, unregister, disconnect, Ordenes
  <2>3. CASE users(d) \/ send(d, u) \/ sendAttach(d, u)
    BY <1>6, <2>3 DEF users, send, sendAttach, Ordenes
  <2>4. CASE getfile(d, u)
    <3>1. UNCHANGED <<usuario, escucha>> /\ Libre(d) BY <2>4 DEF getfile
    <3>2. ~Abriendo(d) BY <3>1 DEF Libre, Abriendo, EnCurso
    <3>3. CASE cache[d][u] # Nada BY <1>5, <2>4, <3>1, <3>2, <3>3 DEF getfile
    <3>4. CASE cache[d][u] = Nada BY <1>6, <2>4, <3>1, <3>4 DEF getfile, Ordenes
    <3> QED BY <3>3, <3>4
  <2>5. CASE quit(d)
    <3>1. CASE usuario[d] # Nada BY <1>6, <2>5, <3>1 DEF quit, Ordenes
    <3>2. CASE usuario[d] = Nada BY <1>7, <2>5, <3>2 DEF quit
    <3> QED BY <3>1, <3>2
  <2> QED BY <1>8, <2>1, <2>2, <2>3, <2>4, <2>5
<1>11. ASSUME NEW d \in Clientes, Sigue(d) PROVE SesionSigue(c)
  <2>0. ConSusDos(d) BY DEF Inv
  <2>1. CASE RecibeConnect(d)
    <3>1. CASE shell[d].ok
      <4>1. /\ usuario' = [usuario EXCEPT ![d] = shell[d].sobre] /\ escucha' = escucha
            /\ shell' = [shell EXCEPT ![d] = EnReposo]
            /\ Abriendo(d) /\ shell[d].fase = "recibe"
        BY <2>1, <3>1, <1>3 DEF RecibeConnect, Abriendo, EnCurso
      <4>2. CASE d = c
        <5>1. usuario'[c] = shell[c].sobre /\ shell'[c] = EnReposo
          BY <4>1, <4>2 DEF Inv, TipoProceso
        <5>2. ~Abriendo(c)' BY <5>1, <1>3 DEF Abriendo
        <5> QED BY <4>1, <4>2, <5>1, <5>2 DEF SesionSigue, MismaSesion
      <4>3. CASE d # c BY <4>1, <4>3, SesionQuieta DEF Inv, TipoProceso
      <4> QED BY <4>2, <4>3
    <3>2. CASE ~shell[d].ok BY <1>9, <2>1, <3>2 DEF RecibeConnect
    <3> QED BY <3>1, <3>2
  <2>2. CASE RecibeDisconnect(d) BY <1>9, <2>2 DEF RecibeDisconnect
  <2>3. CASE RecibeGetfile(d)
    <3>1. UNCHANGED <<usuario, escucha>> /\ ~Abriendo(d)
      BY <2>3 DEF RecibeGetfile, Abriendo
    <3> QED BY <1>4, <1>5, <2>3, <3>1 DEF RecibeGetfile
  <2>4. CASE RecibeOtra(d) BY <1>4, <2>4 DEF RecibeOtra, Acaba, Abriendo
  <2>5. CASE FinDeJoin(d)
    <3>1. CASE Termina(d) BY <1>7, <3>1
    <3>2. CASE ~Termina(d)
      <4>1. /\ usuario' = [usuario EXCEPT ![d] = Nada] /\ escucha' = escucha
            /\ shell' = [shell EXCEPT ![d] = EnReposo] /\ escucha[d] = Nada
        BY <2>0, <2>5, <3>2, <1>3 DEF FinDeJoin, ConSusDos
      <4>2. CASE d = c BY <4>1, <4>2 DEF SesionSigue
      <4>3. CASE d # c BY <4>1, <4>3, SesionQuieta DEF Inv, TipoProceso
      <4> QED BY <4>2, <4>3
    <3> QED BY <3>1, <3>2
  <2>6. CASE FicheroCortado(d) BY <1>4, <2>6 DEF FicheroCortado, Acaba, Abriendo, EnCurso
  <2> QED BY <1>11, <2>1, <2>2, <2>3, <2>4, <2>5, <2>6 DEF Sigue
<1>12. ASSUME NEW d \in Clientes, NEW ok, NEW lista, Contesta(d, ok, lista)
       PROVE  SesionSigue(c)
  <2> DEFINE s == [shell[d] EXCEPT !.fase = "recibe", !.ok = ok]
  <2>1. /\ shell[d].fase = "pide" /\ shell[d] \in Mandado
        /\ UNCHANGED <<usuario, escucha>> /\ shell' = [shell EXCEPT ![d] = s]
    BY <1>12 DEF Contesta, Inv, TipoProceso
  <2>2. s.fase = "recibe" /\ s.orden = shell[d].orden /\ s.sobre = shell[d].sobre
    BY <2>1 DEF Mandado
  <2> HIDE DEF s
  <2>3. CASE d = c
    <3>1. shell'[c] = s BY <2>1, <2>3 DEF Inv, TipoProceso
    <3>2. Abriendo(c)' <=> Abriendo(c) BY <2>1, <2>2, <2>3, <3>1 DEF Abriendo, EnCurso
    <3> QED BY <2>1, <2>2, <2>3, <3>1, <3>2 DEF SesionSigue, MismaSesion
  <2>4. CASE d # c BY <2>1, <2>4, SesionQuieta DEF Inv, TipoProceso
  <2> QED BY <2>3, <2>4
<1>13. ASSUME NEW p \in Puertos, Recibe(p) PROVE SesionSigue(c)
  <2>1. CASE EntraEnAccept(p) \/ Acepta(p)
    BY <1>1, <2>1 DEF EntraEnAccept, Acepta, proceso
  <2>2. CASE Atiende(p)
    <3> DEFINE d == receptor[p].conn.carta
    <3>1. /\ UNCHANGED <<usuario, escucha>>
          /\ \/ shell' = shell
             \/ shell[d].fase = "fichero" /\ shell' = [shell EXCEPT ![d] = EnReposo]
      BY <2>2, <1>3 DEF Atiende, Descansa
    <3> HIDE DEF d
    <3>2. EnReposo.fase = "libre" BY DEF EnReposo
    <3> QED BY <3>1, <3>2, SesionQuieta DEF Inv, TipoProceso
  <2> QED BY <1>13, <2>1, <2>2 DEF Recibe
<1>14. CASE ConexionAjena BY <1>1, <1>14 DEF ConexionAjena, Entra, proceso
<1>15. CASE UNCHANGED vars BY <1>1, <1>15 DEF vars, proceso
<1> QED
  BY <1>7, <1>10, <1>11, <1>12, <1>13, <1>14, <1>15 DEF Next, Muere, RespuestaAjena

(* bind gives no port twice, and a socket that opens has a new one.        *)
LEMMA PuertoNuevo ==
  ASSUME Inv, [Next]_vars, NEW p \in Puertos
  PROVE  Abierto(p)' => Abierto(p) \/ dueno[p] = Nada
<1> SUFFICES ASSUME NEW c \in Clientes, escucha'[c] = p PROVE Abierto(p) \/ dueno[p] = Nada
  BY DEF Abierto
<1>1. SesionSigue(c) /\ p # Nada BY SesionPaso, ClienteAssumption
<1> QED BY <1>1 DEF SesionSigue, MismaSesion, SesionNueva, Abierto

(* It belongs for good to the client that got it.                          *)
LEMMA PuertoFijo ==
  ASSUME Inv, [Next]_vars, NEW p \in Puertos, dueno[p] # Nada
  PROVE  dueno'[p] = dueno[p]
<1>1. ASSUME NEW c \in Clientes, NEW orden, Manda(c, orden) PROVE dueno'[p] = dueno[p]
  <2>1. \/ dueno' = dueno
        \/ \E q \in Puertos : dueno[q] = Nada /\ dueno' = [dueno EXCEPT ![q] = c]
    BY <1>1 DEF Manda, register, unregister, connect, disconnect, users, send, sendAttach,
                getfile, quit, Termina, enchufes
  <2> QED BY <2>1 DEF Inv, TipoEnchufes
<1>2. ASSUME NEW c \in Clientes, Sigue(c) PROVE dueno' = dueno
  BY <1>2 DEF Sigue, RecibeConnect, RecibeDisconnect, RecibeGetfile, RecibeOtra, FinDeJoin,
              FicheroCortado, Acaba, _stop_listener, Termina, enchufes
<1>3. ASSUME NEW c \in Clientes, RespuestaAjena(c) \/ Muere(c) PROVE dueno' = dueno
  BY <1>3 DEF RespuestaAjena, Contesta, Muere, Termina, enchufes
<1>4. CASE (\E q \in Puertos : Recibe(q)) \/ ConexionAjena
  BY <1>4 DEF Recibe, EntraEnAccept, Acepta, Atiende, ConexionAjena, Entra
<1>5. CASE UNCHANGED vars BY <1>5 DEF vars, enchufes
<1> QED BY <1>1, <1>2, <1>3, <1>4, <1>5 DEF Next

(* A connection keeps its place behind those that came before it.          *)
LEMMA CaminoSigue ==
  ASSUME TipoEnchufes, NEW p \in Puertos, NEW m, EnCamino(p, m),
         \/ bandeja'[p] = bandeja[p]
         \/ \E x \in Conexion : bandeja'[p] = Append(bandeja[p], x),
         \A q \in Puertos : receptor[q].fase = "atiende" /\ receptor[q].puerto = p =>
                             receptor'[q] = receptor[q]
  PROVE  EnCamino(p, m)'
<1> DEFINE conn == ConCarta(m)
           Trae(q) == /\ receptor[q].fase = "atiende" /\ receptor[q].puerto = p
                      /\ receptor[q].conn = conn
<1>1. CASE \E i \in DOMAIN bandeja[p] : bandeja[p][i] = conn
  <2>1. PICK i \in DOMAIN bandeja[p] : bandeja[p][i] = conn BY <1>1
  <2>2. ASSUME NEW x \in Conexion, bandeja'[p] = Append(bandeja[p], x)
        PROVE  i \in DOMAIN bandeja'[p] /\ bandeja'[p][i] = bandeja[p][i]
    <3>1. bandeja[p] \in Seq(Conexion) BY DEF TipoEnchufes
    <3>2. /\ DOMAIN bandeja[p] = 1..Len(bandeja[p]) /\ Len(bandeja[p]) \in Nat
          /\ Append(bandeja[p], x) \in Seq(Conexion)
          /\ Len(Append(bandeja[p], x)) = Len(bandeja[p]) + 1
          /\ \A j \in 1..Len(bandeja[p]) : Append(bandeja[p], x)[j] = bandeja[p][j]
      BY <3>1, AppendProperties, LenProperties
    <3>3. DOMAIN Append(bandeja[p], x) = 1..(Len(bandeja[p]) + 1)
      BY <3>2, LenProperties
    <3> QED BY <2>2, <3>2, <3>3
  <2>3. i \in DOMAIN bandeja'[p] /\ bandeja'[p][i] = conn BY <2>1, <2>2
  <2> QED BY <2>3 DEF EnCamino
<1>2. CASE \E q \in Puertos : Trae(q)
  <2>1. PICK q \in Puertos : Trae(q)
    BY <1>2
  <2>2. receptor'[q] = receptor[q] BY <2>1
  <2> QED BY <2>1, <2>2 DEF EnCamino
<1> QED BY <1>1, <1>2 DEF EnCamino

(* What was written to a socket that stays open is displayed before it is  *)
(* forgotten: no command, of whichever client, and no receiver but the one *)
(* that displays it, takes it from there.                                  *)
LEMMA CaminoPaso ==
  ASSUME Inv, [Next]_vars, NEW p \in Puertos, NEW m, EnCamino(p, m), Abierto(p)'
  PROVE  EnCamino(p, m)' \/ [puerto |-> p, carta |-> m] \in mostrados'
<1>0. TipoEnchufes BY DEF Inv
<1>1. PICK e \in Clientes : escucha'[e] = p BY DEF Abierto
<1>2. p # Nada BY ClienteAssumption
<1>3. ASSUME UNCHANGED <<bandeja, receptor>> PROVE EnCamino(p, m)'
  BY <1>0, <1>3, CaminoSigue
<1>4. ASSUME NEW q, NEW conn \in Conexion, Llega(q, conn), receptor' = receptor
      PROVE  EnCamino(p, m)'
  <2>1. bandeja' = [bandeja EXCEPT ![q] = Append(@, conn)] BY <1>4 DEF Llega
  <2>2. bandeja'[p] = bandeja[p] \/ bandeja'[p] = Append(bandeja[p], conn)
    BY <1>0, <2>1 DEF TipoEnchufes
  <2> QED BY <1>0, <1>4, <2>2, CaminoSigue
<1>5. ASSUME NEW d \in Clientes, NEW q, PideFichero(d, q), receptor' = receptor
      PROVE  EnCamino(p, m)'
  <2>1. [tipo |-> "GET FILE", carta |-> d] \in Conexion BY DEF Conexion, Tipos
  <2> QED BY <1>3, <1>4, <1>5, <2>1 DEF PideFichero
<1>6. ASSUME NEW d \in Clientes, escucha' = [escucha EXCEPT ![d] = Nada]
      PROVE  dueno[p] # d /\ escucha[d] # p
  <2>1. d # e /\ escucha[e] = p BY <1>1, <1>2, <1>6 DEF Inv, TipoProceso
  <2>2. dueno[p] = e BY <1>2, <2>1 DEF Inv, ConReceptor
  <2>3. escucha[d] = p => dueno[p] = d BY <1>2 DEF Inv, ConReceptor
  <2> QED BY <2>1, <2>2, <2>3
<1>7. ASSUME NEW d \in Clientes, Termina(d) PROVE EnCamino(p, m)'
  <2>1. /\ dueno[p] # d
        /\ \A q \in Puertos : dueno[q] # d =>
              receptor'[q] = receptor[q] /\ bandeja'[q] = bandeja[q]
    BY <1>6, <1>7 DEF Termina
  <2>2. \A q \in Puertos :
          receptor[q].fase = "atiende" /\ receptor[q].puerto = p => dueno[q] = dueno[p]
    BY DEF Inv, EnLoSuyo
  <2> QED BY <1>0, <2>1, <2>2, CaminoSigue
<1>8. ASSUME NEW d \in Clientes, _stop_listener(d) PROVE EnCamino(p, m)'
  <2>1. bandeja'[p] = bandeja[p] /\ receptor' = receptor
    BY <1>6, <1>8 DEF _stop_listener
  <2> QED BY <1>0, <2>1, CaminoSigue
<1>9. ASSUME NEW d \in Clientes, NEW u \in Usuarios, NEW x \in Puertos, connect(d, u, x)
      PROVE  EnCamino(p, m)'
  <2>1. receptor[x].fase = "no" BY <1>9 DEF connect, Inv, EnLoSuyo
  <2>2. \A q \in Puertos : receptor[q].fase = "atiende" => receptor'[q] = receptor[q]
    BY <1>0, <1>9, <2>1 DEF connect, TipoEnchufes
  <2>3. bandeja' = bandeja BY <1>9 DEF connect
  <2> QED BY <1>0, <2>2, <2>3, CaminoSigue
<1>10. ASSUME NEW c \in Clientes, NEW orden, Manda(c, orden) PROVE EnCamino(p, m)'
  <2>1. PICK u \in Usuarios :
          \/ register(c, u) \/ unregister(c, u) \/ (\E x \in Puertos : connect(c, u, x))
          \/ disconnect(c, u) \/ users(c) \/ send(c, u) \/ sendAttach(c, u)
          \/ getfile(c, u) \/ quit(c)
    BY <1>10 DEF Manda
  <2>2. CASE getfile(c, u)
    BY <1>3, <1>5, <2>2 DEF getfile
  <2>3. CASE quit(c) BY <1>3, <1>7, <2>3 DEF quit, enchufes
  <2>4. CASE \/ register(c, u) \/ unregister(c, u) \/ disconnect(c, u)
             \/ users(c) \/ send(c, u) \/ sendAttach(c, u)
    BY <1>3, <2>4 DEF register, unregister, disconnect, users, send, sendAttach, enchufes
  <2> QED BY <1>9, <2>1, <2>2, <2>3, <2>4
<1>11. ASSUME NEW c \in Clientes, Sigue(c) PROVE EnCamino(p, m)'
  <2>1. CASE RecibeConnect(c) \/ RecibeDisconnect(c)
    BY <1>3, <1>8, <2>1 DEF RecibeConnect, RecibeDisconnect, enchufes
  <2>2. CASE RecibeGetfile(c) BY <1>3, <1>5, <2>2 DEF RecibeGetfile
  <2>3. CASE FinDeJoin(c) BY <1>3, <1>7, <2>3 DEF FinDeJoin, enchufes
  <2>4. CASE RecibeOtra(c) \/ FicheroCortado(c)
    BY <1>3, <2>4 DEF RecibeOtra, FicheroCortado, Acaba, enchufes
  <2> QED BY <1>11, <2>1, <2>2, <2>3, <2>4 DEF Sigue
<1>12. ASSUME NEW x \in Puertos, EntraEnAccept(x) PROVE EnCamino(p, m)'
  <2>1. \A q \in Puertos : receptor[q].fase = "atiende" => receptor'[q] = receptor[q]
    BY <1>0, <1>12 DEF EntraEnAccept, TipoEnchufes
  <2>2. bandeja' = bandeja BY <1>12 DEF EntraEnAccept
  <2> QED BY <1>0, <2>1, <2>2, CaminoSigue
<1>13. ASSUME NEW x \in Puertos, Acepta(x) PROVE EnCamino(p, m)'
  <2> DEFINE q == receptor[x].puerto
             h == [fase |-> "atiende", puerto |-> q, conn |-> Head(bandeja[q])]
  <2>1. /\ receptor[x].fase = "accept" /\ bandeja[q] # <<>> /\ escucha' = escucha
        /\ receptor' = [receptor EXCEPT ![x] = h]
        /\ bandeja' = [bandeja EXCEPT ![q] = Quedan(x, q)]
    BY <1>13 DEF Acepta, proceso
  <2>2. /\ receptor'[x] = h
        /\ \A y \in Puertos : receptor[y].fase = "atiende" => receptor'[y] = receptor[y]
    BY <1>0, <2>1 DEF TipoEnchufes
  <2>3. CASE q # p
    <3>1. bandeja'[p] = bandeja[p] BY <1>0, <2>1, <2>3 DEF TipoEnchufes
    <3> QED BY <1>0, <2>2, <3>1, CaminoSigue
  <2>4. CASE q = p
    <3> DEFINE s == bandeja[p]
               conn == ConCarta(m)
               Trae(y) == /\ receptor[y].fase = "atiende" /\ receptor[y].puerto = p
                          /\ receptor[y].conn = conn
    <3>1. Abierto(p) BY <1>1, <2>1 DEF Abierto
    <3>2. bandeja'[p] = Tail(s) BY <1>0, <2>1, <2>4, <3>1 DEF TipoEnchufes, Quedan
    <3>3. s \in Seq(Conexion) /\ s # <<>> BY <1>0, <2>1, <2>4 DEF TipoEnchufes
    <3>4. CASE \E i \in DOMAIN s : s[i] = conn
      <4>1. PICK i \in DOMAIN s : s[i] = conn BY <3>4
      <4>2. CASE i = 1
        <5>1. Head(s) = conn BY <3>3, <4>1, <4>2, HeadTailProperties
        <5>2. receptor'[x].fase = "atiende" /\ receptor'[x].puerto = p /\ receptor'[x].conn = conn
          BY <2>2, <2>4, <5>1
        <5> QED BY <5>2 DEF EnCamino
      <4>3. CASE i # 1
        <5>1. Len(s) \in Nat /\ i \in 1..Len(s) BY <3>3, <4>1, LenProperties
        <5>2. /\ Tail(s) \in Seq(Conexion) /\ Len(Tail(s)) = Len(s) - 1
              /\ \A j \in 1..Len(Tail(s)) : Tail(s)[j] = s[j + 1]
          BY <3>3, HeadTailProperties
        <5>3. i - 1 \in 1..Len(Tail(s)) /\ Tail(s)[i - 1] = conn
          BY <4>1, <4>3, <5>1, <5>2
        <5>4. i - 1 \in DOMAIN Tail(s) BY <5>2, <5>3, LenProperties
        <5> QED BY <3>2, <5>3, <5>4 DEF EnCamino
      <4> QED BY <4>2, <4>3
    <3>5. CASE \E y \in Puertos : Trae(y)
      <4>1. PICK y \in Puertos : Trae(y)
        BY <3>5
      <4>2. receptor'[y] = receptor[y] BY <2>2, <4>1
      <4> QED BY <4>1, <4>2 DEF EnCamino
    <3> QED BY <3>4, <3>5 DEF EnCamino
  <2> QED BY <2>3, <2>4
<1>14. ASSUME NEW x \in Puertos, Atiende(x)
       PROVE  EnCamino(p, m)' \/ [puerto |-> p, carta |-> m] \in mostrados'
  <2> DEFINE conn == ConCarta(m)
             Trae(q) == /\ receptor[q].fase = "atiende" /\ receptor[q].puerto = p
                        /\ receptor[q].conn = conn
  <2>1. /\ bandeja' = bandeja
        /\ \A q \in Puertos : q # x => receptor'[q] = receptor[q]
    BY <1>0, <1>14 DEF Atiende, TipoEnchufes
  <2>2. CASE Trae(x)
    <3>1. receptor[x].puerto = p /\ receptor[x].conn = conn BY <2>2
    <3>2. conn.tipo = "SEND MESSAGE" /\ conn.carta = m BY DEF ConCarta
    <3> HIDE DEF conn
    <3> QED BY <1>14, <3>1, <3>2 DEF Atiende, Muestra
  <2>3. CASE ~Trae(x)
    <3>1. CASE \E i \in DOMAIN bandeja[p] : bandeja[p][i] = conn
      BY <2>1, <3>1 DEF EnCamino
    <3>2. CASE \E q \in Puertos : Trae(q)
      BY <2>1, <2>3, <3>2 DEF EnCamino
    <3> QED BY <3>1, <3>2 DEF EnCamino
  <2> QED BY <2>2, <2>3
<1>15. CASE ConexionAjena BY <1>4, <1>15 DEF ConexionAjena, Entra
<1>16. CASE UNCHANGED vars BY <1>3, <1>16 DEF vars, enchufes
<1>17. ASSUME NEW c \in Clientes, RespuestaAjena(c) PROVE EnCamino(p, m)'
  BY <1>3, <1>17 DEF RespuestaAjena, Contesta, enchufes
<1> QED
  BY <1>7, <1>10, <1>11, <1>12, <1>13, <1>14, <1>15, <1>16, <1>17 DEF Next, Muere, Recibe

(* Nothing that was displayed is taken back.                               *)
LEMMA PantallaCrece == [Next]_vars => mostrados \subseteq mostrados'
<1> SUFFICES ASSUME [Next]_vars PROVE mostrados \subseteq mostrados'
  OBVIOUS
<1>1. ASSUME NEW c \in Clientes, NEW orden, Manda(c, orden) PROVE mostrados' = mostrados
  BY <1>1 DEF Manda, register, unregister, connect, disconnect, users, send, sendAttach,
              getfile, quit, Termina, pantalla
<1>2. ASSUME NEW c \in Clientes, Sigue(c) PROVE mostrados' = mostrados
  BY <1>2 DEF Sigue, RecibeConnect, RecibeDisconnect, RecibeGetfile, RecibeOtra, FinDeJoin,
              FicheroCortado, Termina, pantalla
<1>3. ASSUME NEW c \in Clientes, RespuestaAjena(c) \/ Muere(c) PROVE mostrados' = mostrados
  BY <1>3 DEF RespuestaAjena, Contesta, Muere, Termina, pantalla
<1>4. ASSUME NEW p \in Puertos, Recibe(p) PROVE mostrados \subseteq mostrados'
  BY <1>4 DEF Recibe, EntraEnAccept, Acepta, Atiende, Muestra, pantalla
<1>5. CASE ConexionAjena BY <1>5 DEF ConexionAjena, Entra, pantalla
<1>6. CASE UNCHANGED vars BY <1>6 DEF vars, pantalla
<1> QED BY <1>1, <1>2, <1>3, <1>4, <1>5, <1>6 DEF Next

-----------------------------------------------------------------------------
(* Every variable of the client keeps its type, and a socket that is gone  *)
(* keeps no connection.                                                    *)
THEOREM ClienteTipoCorrecto == Spec => []TypeOK
BY ClienteInicial, PasoSeguro, InvEsEso, PTL DEF Spec

(* User and listener go together through every command and every failure,  *)
(* and no receiver strays to the socket of another client.                 *)
THEOREM SesionesCorrecta == Spec => []Sesiones
BY ClienteInicial, PasoSeguro, InvEsEso, PTL DEF Spec

(* Between commands a client listens exactly when a user is connected, and *)
(* then with a receiver that is alive.                                     *)
THEOREM SesionConReceptorCorrecta == Spec => []SesionConReceptor
BY ClienteInicial, PasoSeguro, InvEsEso, PTL DEF Spec
=============================================================================
