-------------------------- MODULE GarantiasProofs ---------------------------
(***************************************************************************)
(* What the server promises about the messages it accepts, for every value *)
(* of the constants, in three parts:                                       *)
(*                                                                         *)
(* 1. Type correctness, what the operations of the list of pending         *)
(*    messages do to every list, and the effects that a step can have, on  *)
(*    which the other parts go case by case.                               *)
(* 2. The history, the tables and the copies that the threads took of them *)
(*    stay in step (Cronologia, with TypeOK the first inductive            *)
(*    invariant).  From it follow that no accepted message is lost, that a *)
(*    registration inherits nothing from an earlier one, and that two      *)
(*    messages of one registration share a number only after the whole     *)
(*    range of numbers.                                                    *)
(* 3. The lists keep the order of arrival and every thread goes through    *)
(*    its list in that order (Turnos, the second inductive invariant).     *)
(*    From it follow that a drain never goes back, that stored messages go *)
(*    out in their order, that an ACK is final and that no message is      *)
(*    forgotten.  Here too, since it follows a thread from the copy of an  *)
(*    address to its use: an ACK goes to no registration before the one    *)
(*    that sent the message.                                               *)
(***************************************************************************)
EXTENDS Garantias, SequenceTheorems, WellFoundedInduction, TLAPS

(* Names of sets of points, which the provers may always see through.      *)
USE DEF EnMano, Retirado
-----------------------------------------------------------------------------
(* Part 1: the list of pending messages.                                   *)

(* A non-empty set of numbers has a least element, which Min chooses.      *)
LEMMA MinimoNat ==
  ASSUME NEW I \in SUBSET Nat, I # {}
  PROVE  Min(I) \in I /\ \A j \in I : Min(I) <= j
<1>1. \E x \in I : \A y \in I : ~(<<y, x>> \in OpToRel(<, Nat))
  BY NatLessThanWellFounded, WFMin
<1>2. OpToRel(<, Nat) = {ss \in Nat \X Nat : ss[1] < ss[2]}
  BY Zenon DEF OpToRel
<1>3. \E x \in I : \A y \in I : x <= y
  <2>1. PICK x \in I :
           \A y \in I : ~(<<y, x>> \in {ss \in Nat \X Nat : ss[1] < ss[2]})
    BY <1>1, <1>2
  <2>2. ASSUME NEW y \in I PROVE x <= y
    <3>1. /\ ~(<<y, x>> \in {ss \in Nat \X Nat : ss[1] < ss[2]})
          /\ <<y, x>> \in Nat \X Nat
      BY <2>1
    <3>2. ~(<<y, x>>[1] < <<y, x>>[2])
      BY ONLY <3>1, Zenon
    <3> QED BY <3>2
  <2> QED BY <2>2
<1> QED BY <1>3 DEF Min

(* RemoveAt closes the gap that the element at position k leaves.          *)
LEMMA QuitarPosicion ==
  ASSUME NEW S, NEW s \in Seq(S), NEW k \in 1..Len(s)
  PROVE  /\ RemoveAt(s, k) \in Seq(S)
         /\ Len(RemoveAt(s, k)) = Len(s) - 1
         /\ \A i \in 1..(Len(s) - 1) :
               RemoveAt(s, k)[i] = IF i < k THEN s[i] ELSE s[i + 1]
<1> DEFINE a == SubSeq(s, 1, k - 1)
           b == SubSeq(s, k + 1, Len(s))
<1>1. /\ Len(s) \in Nat /\ k \in Nat
      /\ \A i \in 1..Len(s) : s[i] \in S
  BY LenProperties, ElementOfSeq
<1>2. /\ a \in Seq(S) /\ Len(a) = k - 1
      /\ \A i \in 1..(k - 1) : a[i] = s[i]
  BY <1>1, SubSeqProperties
<1>3. /\ b \in Seq(S) /\ Len(b) = Len(s) - k
      /\ \A i \in 1..(Len(s) - k) : b[i] = s[i + k]
  <2>1. \A i \in (k + 1)..Len(s) : s[i] \in S BY <1>1
  <2>2. /\ b \in Seq(S)
        /\ Len(b) = IF k + 1 <= Len(s) THEN Len(s) - (k + 1) + 1 ELSE 0
        /\ \A i \in 1..(Len(s) - (k + 1) + 1) : b[i] = s[k + 1 + i - 1]
    <3> HIDE DEF b
    <3> QED BY <1>1, <2>1, SubSeqProperties DEF b
  <2> QED BY <2>2, <1>1
<1> HIDE DEF a, b
<1>4. RemoveAt(s, k) = a \o b
  BY DEF RemoveAt, a, b
<1>5. /\ a \o b \in Seq(S)
      /\ Len(a \o b) = Len(a) + Len(b)
      /\ \A i \in 1..(Len(a) + Len(b)) :
            (a \o b)[i] = IF i <= Len(a) THEN a[i] ELSE b[i - Len(a)]
  BY <1>2, <1>3, ConcatProperties
<1> QED BY <1>1, <1>2, <1>3, <1>4, <1>5

(* eliminar_mensaje_por_id_y_remitente unlinks the first node that has the *)
(* number and the sender, keeps the rest in its order, and leaves a list   *)
(* without such a node as it is.                                           *)
THEOREM EliminarPropiedades ==
  ASSUME NEW S, NEW lista \in Seq(S), NEW id, NEW rem, NEW r,
         r = eliminar_mensaje_por_id_y_remitente(lista, id, rem)
  PROVE  /\ r \in Seq(S)
         /\ \/ /\ r = lista
               /\ \A i \in 1..Len(lista) : ~Coincide(lista[i], id, rem)
            \/ \E k \in 1..Len(lista) :
                  /\ Coincide(lista[k], id, rem)
                  /\ \A i \in 1..(k - 1) : ~Coincide(lista[i], id, rem)
                  /\ Len(r) = Len(lista) - 1
                  /\ \A i \in 1..Len(r) :
                        r[i] = IF i < k THEN lista[i] ELSE lista[i + 1]
<1> DEFINE I == {i \in 1..Len(lista) : Coincide(lista[i], id, rem)}
<1>0. Len(lista) \in Nat BY LenProperties
<1>1. CASE I = {}
  <2>1. r = lista
    BY <1>1 DEF eliminar_mensaje_por_id_y_remitente, RemoveFirstMatch
  <2> QED BY <2>1, <1>1
<1>2. CASE I # {}
  <2>1. Min(I) \in I /\ \A j \in I : Min(I) <= j
    <3> HIDE DEF I
    <3>1. I \in SUBSET Nat BY <1>0 DEF I
    <3> QED BY <3>1, <1>2, MinimoNat
  <2>2. r = RemoveAt(lista, Min(I))
    BY <1>2 DEF eliminar_mensaje_por_id_y_remitente, RemoveFirstMatch,
                SelectInSeq
  <2>3. PICK k \in 1..Len(lista) :
            /\ r = RemoveAt(lista, k) /\ Coincide(lista[k], id, rem)
            /\ \A j \in I : k <= j
    BY <2>1, <2>2
  <2>4. \A i \in 1..(k - 1) : ~Coincide(lista[i], id, rem)
    BY <2>3, <1>0
  <2>5. /\ r \in Seq(S)
        /\ Len(r) = Len(lista) - 1
        /\ \A i \in 1..Len(r) :
              r[i] = IF i < k THEN lista[i] ELSE lista[i + 1]
    BY <2>3, QuitarPosicion
  <2> QED BY <2>3, <2>4, <2>5
<1> QED BY <1>1, <1>2

(* The same, of the set of the messages of the list: a removal adds none,  *)
(* and takes away only one that matches.                                   *)
THEOREM EliminarConjunto ==
  ASSUME NEW S, NEW lista \in Seq(S), NEW id, NEW rem, NEW r,
         r = eliminar_mensaje_por_id_y_remitente(lista, id, rem)
  PROVE  /\ r \in Seq(S)
         /\ ToSet(r) \subseteq ToSet(lista)
         /\ \A m \in ToSet(lista) : m \in ToSet(r) \/ Coincide(m, id, rem)
<1>1. /\ DOMAIN lista = 1..Len(lista) /\ Len(lista) \in Nat
      /\ r \in Seq(S) /\ DOMAIN r = 1..Len(r) /\ Len(r) \in Nat
  BY EliminarPropiedades, LenProperties
<1>2. CASE r = lista
  BY <1>1, <1>2 DEF ToSet
<1>3. ASSUME NEW k \in 1..Len(lista),
             Coincide(lista[k], id, rem),
             Len(r) = Len(lista) - 1,
             \A i \in 1..Len(r) : r[i] = IF i < k THEN lista[i] ELSE lista[i + 1]
      PROVE  /\ ToSet(r) \subseteq ToSet(lista)
             /\ \A m \in ToSet(lista) : m \in ToSet(r) \/ Coincide(m, id, rem)
  <2>1. ASSUME NEW i \in 1..Len(r) PROVE r[i] \in ToSet(lista)
    BY <1>1, <1>3 DEF ToSet
  <2>2. ASSUME NEW j \in 1..Len(lista), j # k PROVE lista[j] \in ToSet(r)
    <3>1. CASE j < k
      <4>1. j \in 1..Len(r) /\ r[j] = lista[j] BY <1>1, <1>3, <3>1
      <4> QED BY <4>1, <1>1 DEF ToSet
    <3>2. CASE j > k
      <4>1. j - 1 \in 1..Len(r) /\ r[j - 1] = lista[j] BY <1>1, <1>3, <3>2
      <4> QED BY <4>1, <1>1 DEF ToSet
    <3> QED BY <2>2, <3>1, <3>2
  <2> QED BY <1>1, <1>3, <2>1, <2>2 DEF ToSet
<1>4. \/ r = lista
      \/ \E k \in 1..Len(lista) :
            /\ Coincide(lista[k], id, rem)
            /\ Len(r) = Len(lista) - 1
            /\ \A i \in 1..Len(r) :
                  r[i] = IF i < k THEN lista[i] ELSE lista[i + 1]
  BY EliminarPropiedades
<1> QED BY <1>1, <1>2, <1>3, <1>4

(* agregar_mensaje adds the message, and nothing else, to the list.        *)
THEOREM AgregarConjunto ==
  ASSUME NEW S, NEW lista \in Seq(S), NEW msg \in S
  PROVE  /\ agregar_mensaje(lista, msg) \in Seq(S)
         /\ ToSet(agregar_mensaje(lista, msg)) = ToSet(lista) \cup {msg}
<1> DEFINE r == agregar_mensaje(lista, msg)
<1>1. /\ r \in Seq(S) /\ Len(r) = Len(lista) + 1 /\ Len(lista) \in Nat
      /\ \A i \in 1..Len(lista) : r[i] = lista[i]
      /\ r[Len(lista) + 1] = msg
      /\ DOMAIN lista = 1..Len(lista) /\ DOMAIN r = 1..Len(r)
  BY AppendProperties, LenProperties DEF agregar_mensaje
<1> HIDE DEF r
<1>2. ToSet(r) = ToSet(lista) \cup {msg}
  BY <1>1 DEF ToSet
<1> QED BY <1>1, <1>2 DEF r
-----------------------------------------------------------------------------
(* The types.                                                              *)

(* The message that a send creates (servicio_mensajes.c:163-169) is a      *)
(* message: its number is the next one of the sender and never 0, and its  *)
(* history is that of the current state.                                   *)
LEMMA NuevoTipo ==
  ASSUME TipoServicio, NEW r \in Usuarios, NEW d \in Usuarios, NEW adj \in BOOLEAN
  PROVE  LET m == MensajeNuevo(r, d, adj)
         IN  /\ m \in Mensaje /\ m.id \in 0..(ModId - 1)
             /\ m.id = SiguienteId(ultimo_id[r]) /\ m.remitente = r
             /\ m.texto = serie + 1 /\ m.destinatario = d
             /\ m.alta_dest = alta[d] /\ m.alta_rem = alta[r]
             /\ m.vivo = conectado[d]
<1>1. SiguienteId(ultimo_id[r]) \in 1..(ModId - 1)
  <2>1. ultimo_id[r] \in 0..(ModId - 1) BY DEF TipoServicio
  <2> QED BY <2>1, ServicioAssumption DEF SiguienteId
<1>2. /\ serie + 1 \in Nat \ {0} /\ alta[d] \in Nat /\ alta[r] \in Nat
      /\ conectado[d] \in BOOLEAN
  BY DEF TipoServicio
<1> QED
  BY <1>1, <1>2, ServicioAssumption DEF MensajeNuevo, crear_mensaje, Mensaje

(* The tables are empty and no thread runs when the server starts.         *)
LEMMA TipoInicial == Init => TypeOK
BY ServicioAssumption
   DEF Init, servicio_init, TypeOK, TipoServicio, TipoHilos, TipoRed, Puntos,
       Locales

(* marcar_conectado and marcar_desconectado keep the tables well formed:   *)
(* an address if and only if connected.                                    *)
LEMMA MarcarTipo ==
  ASSUME TipoServicio, NEW u \in Usuarios, registrado[u], UNCHANGED historia,
         \/ marcar_desconectado(u)
         \/ \E d \in Direcciones : marcar_conectado(u, d)
  PROVE  TipoServicio'
<1>1. CASE marcar_desconectado(u)
  BY <1>1, ServicioAssumption DEF marcar_desconectado, historia, TipoServicio
<1>2. CASE \E d \in Direcciones : marcar_conectado(u, d)
  BY <1>2, ServicioAssumption DEF marcar_conectado, historia, TipoServicio
<1> QED BY <1>1, <1>2

(* So do insertar_usuario and eliminar_usuario: a new or a missing node    *)
(* has no address and no pending message.                                  *)
LEMMA NodoTipo ==
  ASSUME TipoServicio, NEW u \in Usuarios, NEW b \in BOOLEAN,
         registrado' = [registrado EXCEPT ![u] = b], NodoInicial(u),
         alta' \in [Usuarios -> Nat], UNCHANGED <<serie, aceptados>>
  PROVE  TipoServicio'
<1>1. /\ registrado' \in [Usuarios -> BOOLEAN]
      /\ conectado' \in [Usuarios -> BOOLEAN]
      /\ dir' \in [Usuarios -> Direcciones \cup {SinDir}]
  BY DEF NodoInicial, TipoServicio
<1>2. ultimo_id' \in [Usuarios -> 0..(ModId - 1)]
  <2>1. 0 \in 0..(ModId - 1) BY ServicioAssumption
  <2> QED BY <2>1 DEF NodoInicial, TipoServicio
<1>3. pendientes' \in [Usuarios -> Seq(Mensaje)]
  <2>1. <<>> \in Seq(Mensaje) OBVIOUS
  <2> QED BY <2>1 DEF NodoInicial, TipoServicio
<1>4. ASSUME NEW v \in Usuarios
      PROVE  /\ conectado'[v] <=> dir'[v] # SinDir
             /\ conectado'[v] => registrado'[v]
             /\ ~registrado'[v] => pendientes'[v] = <<>>
  BY <1>4 DEF NodoInicial, TipoServicio
<1> QED BY <1>1, <1>2, <1>3, <1>4 DEF TipoServicio

(* So do servicio_send and servicio_sendattach, whichever way they end.    *)
LEMMA AceptarTipo ==
  ASSUME TipoServicio, NEW r \in Usuarios, NEW d \in Usuarios, NEW adj \in BOOLEAN,
         NEW ret, Aceptar(r, d, adj, ret)
  PROVE  TipoServicio'
<1> DEFINE m == MensajeNuevo(r, d, adj)
<1>1. /\ m \in Mensaje /\ m.id \in 0..(ModId - 1)
      /\ m.texto = serie + 1
  BY NuevoTipo
<1>2. pendientes[d] \in Seq(Mensaje) BY DEF TipoServicio
<1> HIDE DEF m
<1>3. agregar_mensaje(pendientes[d], m) \in Seq(Mensaje)
  BY <1>1, <1>2, AgregarConjunto
<1>4. CASE UNCHANGED varsServicio
  BY <1>4 DEF varsServicio, tablas, historia, TipoServicio
<1>5. CASE /\ registrado[d]
           /\ ultimo_id' = [ultimo_id EXCEPT ![r] = m.id]
           /\ serie' = m.texto
           /\ \/ UNCHANGED <<pendientes, aceptados>>
              \/ /\ pendientes' = [pendientes EXCEPT ![d] = agregar_mensaje(@, m)]
                 /\ aceptados' = aceptados \cup {m}
           /\ UNCHANGED <<registrado, conectado, dir, alta>>
  <2>1. /\ ultimo_id' \in [Usuarios -> 0..(ModId - 1)]
        /\ serie' \in Nat /\ aceptados' \in SUBSET Mensaje
    BY <1>1, <1>5 DEF TipoServicio
  <2>2. /\ pendientes' \in [Usuarios -> Seq(Mensaje)]
        /\ \A v \in Usuarios : ~registrado[v] => pendientes'[v] = <<>>
    BY <1>3, <1>5 DEF TipoServicio
  <2> QED BY <1>5, <2>1, <2>2 DEF TipoServicio
<1> QED BY <1>4, <1>5 DEF Aceptar, buscar_usuario, m

(* So does servicio_eliminar_pendiente.                                    *)
LEMMA EliminarTipo ==
  ASSUME TipoServicio, NEW u \in Usuarios, NEW id, NEW r,
         servicio_eliminar_pendiente(u, id, r)
  PROVE  TipoServicio'
<1>1. eliminar_mensaje_por_id_y_remitente(pendientes[u], id, r) \in Seq(Mensaje)
  BY EliminarConjunto DEF TipoServicio
<1> QED BY <1>1
   DEF servicio_eliminar_pendiente, buscar_usuario, historia, TipoServicio

(* A thread that jumps to a point with the local variables of that point   *)
(* written keeps every thread well formed.                                 *)
LEMMA LanzaTipo ==
  ASSUME TipoHilos, NEW t \in Hilos, NEW p \in Puntos, NEW d \in Tarea \cup {NoHilo},
         Locales(p, d), Lanza(t, p, d)
  PROVE  TipoHilos'
<1>1. /\ pc' \in [Hilos -> Puntos] /\ hilo' \in [Hilos -> Tarea \cup {NoHilo}]
      /\ \A s \in Hilos : /\ pc'[s] = IF s = t THEN p ELSE pc[s]
                          /\ hilo'[s] = IF s = t THEN d ELSE hilo[s]
  BY DEF Lanza, Salta, TipoHilos
<1> QED BY <1>1 DEF TipoHilos

(* A thread that ends needs no local variables.                            *)
LEMMA AcabaTipo ==
  ASSUME TipoHilos, NEW t \in Hilos, Acaba(t)
  PROVE  TipoHilos'
BY LanzaTipo DEF Acaba, Puntos, Locales

(* TypeOK is inductive: one step of the proof for each handler and for     *)
(* each step of a thread.                                                  *)
LEMMA TipoPaso == TypeOK /\ [Next]_vars => TypeOK'
<1> SUFFICES ASSUME TypeOK, [Next]_vars PROVE TypeOK'
  OBVIOUS
<1>0. TipoServicio /\ TipoHilos /\ TipoRed
  BY DEF TypeOK
<1>a. UNCHANGED <<pc, hilo>> => TipoHilos'
  BY <1>0 DEF TipoHilos
<1>b. UNCHANGED red => TipoRed'
  BY <1>0 DEF TipoRed, red
<1>c. UNCHANGED varsServicio => TipoServicio'
  BY <1>0 DEF TipoServicio, varsServicio, tablas, historia
<1>1. ASSUME NEW u \in Usuarios, NEW ret \in Codigos, HandleRegister(u, ret)
      PROVE  TypeOK'
  <2>1. servicio_register(u, ret)
    BY <1>1 DEF HandleRegister
  <2>2. CASE UNCHANGED varsServicio
    BY <1>1, <2>2, <1>a, <1>b, <1>c DEF HandleRegister, TypeOK
  <2>3. CASE /\ insertar_usuario(u) /\ alta' = [alta EXCEPT ![u] = @ + 1]
             /\ UNCHANGED <<serie, aceptados>>
    <3>1. alta' \in [Usuarios -> Nat] BY <1>0, <2>3 DEF TipoServicio
    <3>2. TipoServicio' BY <1>0, <2>3, <3>1, NodoTipo DEF insertar_usuario
    <3> QED BY <1>1, <3>2, <1>a, <1>b DEF HandleRegister, TypeOK
  <2> QED BY <2>1, <2>2, <2>3 DEF servicio_register
<1>2. ASSUME NEW u \in Usuarios, NEW ret \in Codigos, HandleUnregister(u, ret)
      PROVE  TypeOK'
  <2>1. servicio_unregister(u, ret)
    BY <1>2 DEF HandleUnregister
  <2>2. CASE UNCHANGED varsServicio
    BY <1>2, <2>2, <1>a, <1>b, <1>c DEF HandleUnregister, TypeOK
  <2>3. CASE eliminar_usuario(u) /\ UNCHANGED historia
    <3>1. alta' \in [Usuarios -> Nat] BY <1>0, <2>3 DEF TipoServicio, historia
    <3>2. TipoServicio'
      BY <1>0, <2>3, <3>1, NodoTipo DEF eliminar_usuario, historia
    <3> QED BY <1>2, <3>2, <1>a, <1>b DEF HandleUnregister, TypeOK
  <2> QED BY <2>1, <2>2, <2>3 DEF servicio_unregister
<1>3. ASSUME NEW u \in Usuarios, NEW ip \in Ips, NEW ret \in Codigos,
             HandleDisconnect(u, ip, ret)
      PROVE  TypeOK'
  <2>1. servicio_disconnect(u, ip, ret)
    BY <1>3 DEF HandleDisconnect
  <2>2. TipoServicio'
    BY <1>0, <1>c, <2>1, MarcarTipo DEF servicio_disconnect, buscar_usuario
  <2> QED BY <1>3, <2>2, <1>a, <1>b DEF HandleDisconnect, TypeOK
<1>4. ASSUME NEW t \in Hilos, NEW u \in Usuarios, NEW ip \in Ips,
             NEW puerto \in Puertos, NEW ret \in Codigos,
             HandleConnect(t, u, ip, puerto, ret)
      PROVE  TypeOK'
  <2> DEFINE d == [ip |-> ip, puerto |-> puerto, alta |-> alta[u]]
             h == [usuario |-> u, msg |-> SinMsg, dir |-> SinDir, rem |-> SinDir,
                   drena |-> TRUE, previo |-> 0]
  <2>1. d \in Direcciones BY <1>0 DEF TipoServicio, Direcciones
  <2>2. /\ servicio_connect(u, ip, puerto, ret)
        /\ \/ Lanza(t, "consulta", h)
           \/ UNCHANGED <<pc, hilo>>
    BY <1>4 DEF HandleConnect, Ocupa
  <2>3. TipoServicio'
    BY <1>0, <1>c, <2>1, <2>2, MarcarTipo DEF servicio_connect, buscar_usuario
  <2>4. TipoHilos'
    <3>1. h \in Tarea /\ "consulta" \in Puntos /\ Locales("consulta", h)
      BY DEF Tarea, Puntos, Locales
    <3> QED BY <1>0, <1>a, <2>2, <3>1, LanzaTipo
  <2> QED BY <1>4, <2>3, <2>4, <1>b DEF HandleConnect, TypeOK
<1>5. ASSUME NEW t \in Hilos, NEW r \in Usuarios, NEW u \in Usuarios,
             NEW ret \in Codigos,
             HandleSend(t, r, u, ret) \/ HandleSendattach(t, r, u, ret)
      PROVE  TypeOK'
  <2>1. PICK adj \in BOOLEAN :
            /\ Aceptar(r, u, adj, ret)
            /\ Responde(t, u, MensajeNuevo(r, u, adj), ret)
    BY <1>5
       DEF HandleSend, HandleSendattach, servicio_send, servicio_sendattach
  <2> DEFINE m == MensajeNuevo(r, u, adj)
             h == [usuario |-> u, msg |-> m, dir |-> dir[u], rem |-> SinDir,
                   drena |-> FALSE, previo |-> 0]
  <2>2. TipoServicio' BY <1>0, <2>1, AceptarTipo
  <2>3. TipoHilos'
    <3>1. m \in Mensaje BY <1>0, NuevoTipo
    <3> HIDE DEF m
    <3>2. CASE conectado[u] /\ Lanza(t, "entrega", h)
      <4>1. dir[u] \in Direcciones BY <1>0, <3>2 DEF TipoServicio
      <4>2. h \in Tarea /\ "entrega" \in Puntos /\ Locales("entrega", h)
        BY <3>1, <4>1 DEF Tarea, Puntos, Locales
      <4> QED BY <1>0, <3>2, <4>2, LanzaTipo
    <3> QED BY <1>a, <2>1, <3>2 DEF Responde, Ocupa, m
  <2> QED BY <1>5, <2>2, <2>3, <1>b DEF HandleSend, HandleSendattach, TypeOK
<1>6. ASSUME NEW t \in Hilos, ConsultaConexion(t) PROVE TypeOK'
  <2>1. hilo[t] \in Tarea /\ hilo[t].drena
    BY <1>0, <1>6 DEF ConsultaConexion, TipoHilos, Locales
  <2>2. PICK d \in Direcciones \cup {SinDir} :
            IF d = SinDir THEN Acaba(t)
            ELSE Lanza(t, "bucle", [hilo[t] EXCEPT !.dir = d])
    <3>1. /\ hilo[t].dir \in Direcciones \cup {SinDir}
          /\ dir[hilo[t].usuario] \in Direcciones \cup {SinDir}
      BY <1>0, <2>1 DEF TipoServicio, Tarea
    <3> QED BY <1>6, <3>1 DEF ConsultaConexion, servicio_get_info_conexion
  <2>3. CASE d = SinDir
    BY <1>0, <1>6, <1>b, <1>c, <2>2, <2>3, AcabaTipo
       DEF ConsultaConexion, TypeOK
  <2>4. CASE d # SinDir
    <3> DEFINE h == [hilo[t] EXCEPT !.dir = d]
    <3>1. h \in Tarea /\ "bucle" \in Puntos /\ Locales("bucle", h)
      BY <2>1, <2>2, <2>4 DEF Tarea, Puntos, Locales
    <3>2. TipoHilos' BY <1>0, <2>2, <2>4, <3>1, LanzaTipo
    <3> QED BY <1>6, <1>b, <1>c, <3>2 DEF ConsultaConexion, TypeOK
  <2> QED BY <2>3, <2>4
<1>7. ASSUME NEW t \in Hilos, SiguientePendiente(t) PROVE TypeOK'
  <2>1. /\ hilo[t] \in Tarea /\ hilo[t].drena /\ hilo[t].dir \in Direcciones
        /\ hilo[t].usuario \in Usuarios
    BY <1>0, <1>7 DEF SiguientePendiente, TipoHilos, Locales, Tarea
  <2> DEFINE u == hilo[t].usuario
             h == [hilo[t] EXCEPT !.msg = Head(pendientes[u])]
  <2>2. CASE HayPendientes(u)
    <3>1. Head(pendientes[u]) \in Mensaje
      BY <1>0, <2>1, <2>2 DEF TipoServicio, HayPendientes
    <3>2. h \in Tarea /\ "entrega" \in Puntos /\ Locales("entrega", h)
      BY <2>1, <3>1 DEF Tarea, Puntos, Locales
    <3>3. Lanza(t, "entrega", h)
      BY <1>7, <2>2 DEF SiguientePendiente, servicio_obtener_primer_pendiente
    <3>4. TipoHilos' BY <1>0, <3>2, <3>3, LanzaTipo
    <3> QED BY <1>7, <1>b, <1>c, <3>4 DEF SiguientePendiente, TypeOK
  <2>3. CASE ~HayPendientes(u)
    BY <1>0, <1>7, <1>b, <1>c, <2>3, AcabaTipo DEF SiguientePendiente, TypeOK
  <2> QED BY <2>2, <2>3
<1>8. ASSUME NEW t \in Hilos, Entrega(t) PROVE TypeOK'
  <2>1. /\ hilo[t] \in Tarea /\ hilo[t].msg \in Mensaje
        /\ hilo[t].dir \in Direcciones /\ pc[t] = "entrega"
    BY <1>0, <1>8 DEF Entrega, TipoHilos, Locales
  <2>2. TipoRed' BY <1>0, <1>8, <2>1 DEF Entrega, TipoRed, Envio
  <2>3. TipoHilos'
    <3>1. /\ "borra" \in Puntos /\ Locales("borra", hilo[t])
          /\ Lanza(t, "borra", hilo[t])
      BY <1>0, <1>8, <2>1 DEF Entrega, Lanza, TipoHilos, Puntos, Locales
    <3> QED BY <1>0, <2>1, <3>1, LanzaTipo
  <2> QED BY <1>8, <1>c, <2>2, <2>3 DEF Entrega, TypeOK
<1>9. ASSUME NEW t \in Hilos, FallaEntrega(t) PROVE TypeOK'
  <2>1. /\ hilo[t] \in Tarea /\ hilo[t].msg \in Mensaje
        /\ hilo[t].dir \in Direcciones /\ pc[t] = "entrega"
    BY <1>0, <1>9 DEF FallaEntrega, TipoHilos, Locales
  <2>2. TipoHilos'
    <3>1. /\ "fuerza" \in Puntos /\ Locales("fuerza", hilo[t])
          /\ Lanza(t, "fuerza", hilo[t])
      BY <1>0, <1>9, <2>1 DEF FallaEntrega, Lanza, TipoHilos, Puntos, Locales
    <3> QED BY <1>0, <2>1, <3>1, LanzaTipo
  <2> QED BY <1>9, <1>b, <1>c, <2>2 DEF FallaEntrega, TypeOK
<1>10. ASSUME NEW t \in Hilos, BorraPendiente(t) PROVE TypeOK'
  <2>1. /\ hilo[t] \in Tarea /\ hilo[t].msg \in Mensaje
        /\ hilo[t].dir \in Direcciones /\ pc[t] = "borra"
        /\ hilo[t].usuario \in Usuarios
    BY <1>0, <1>10 DEF BorraPendiente, TipoHilos, Locales, Tarea
  <2>2. TipoHilos'
    <3>1. /\ "ack" \in Puntos /\ Locales("ack", hilo[t])
          /\ Lanza(t, "ack", hilo[t])
      BY <1>0, <1>10, <2>1
         DEF BorraPendiente, Lanza, TipoHilos, Puntos, Locales
    <3> QED BY <1>0, <2>1, <3>1, LanzaTipo
  <2>3. TipoServicio'
    BY <1>0, <1>10, <2>1, EliminarTipo DEF BorraPendiente
  <2> QED BY <1>10, <1>b, <2>2, <2>3 DEF BorraPendiente, TypeOK
<1>11. ASSUME NEW t \in Hilos, NEW n \in Nat, Vuelve(t, n),
              pc[t] # "libre"
       PROVE  TipoHilos'
  <2>1. hilo[t] \in Tarea BY <1>0, <1>11 DEF TipoHilos, Locales
  <2> DEFINE h == [hilo[t] EXCEPT !.msg = SinMsg, !.rem = SinDir, !.previo = n]
  <2>2. CASE hilo[t].drena
    <3>1. h \in Tarea /\ "consulta" \in Puntos /\ Locales("consulta", h)
      BY <2>1, <2>2 DEF Tarea, Puntos, Locales
    <3> QED BY <1>0, <1>11, <2>2, <3>1, LanzaTipo DEF Vuelve
  <2>3. CASE ~hilo[t].drena
    BY <1>0, <1>11, <2>3, AcabaTipo DEF Vuelve
  <2> QED BY <2>2, <2>3
<1>12. ASSUME NEW t \in Hilos, NEW escrito \in BOOLEAN, EnviaAck(t, escrito)
       PROVE  TypeOK'
  <2>1. /\ hilo[t] \in Tarea /\ hilo[t].msg \in Mensaje /\ pc[t] = "envia"
        /\ hilo[t].rem \in Direcciones /\ hilo[t].msg.texto \in Nat
    BY <1>0, <1>12 DEF EnviaAck, TipoHilos, Locales, Mensaje
  <2>2. TipoHilos' BY <1>11, <1>12, <2>1 DEF EnviaAck
  <2>3. TipoRed' BY <1>0, <1>12, <2>1 DEF EnviaAck, TipoRed, Envio
  <2> QED BY <1>12, <1>c, <2>2, <2>3 DEF EnviaAck, TypeOK
<1>13. ASSUME NEW t \in Hilos, FuerzaDesconexion(t) PROVE TypeOK'
  <2>1. /\ hilo[t] \in Tarea /\ pc[t] = "fuerza"
        /\ hilo[t].usuario \in Usuarios /\ hilo[t].previo \in Nat
    BY <1>0, <1>13 DEF FuerzaDesconexion, TipoHilos, Locales, Tarea
  <2>2. TipoHilos' BY <1>11, <1>13, <2>1 DEF FuerzaDesconexion
  <2>3. TipoServicio'
    BY <1>0, <1>13, <1>c, <2>1, MarcarTipo
       DEF FuerzaDesconexion, servicio_marcar_desconectado_forzado, buscar_usuario,
           varsServicio
  <2> QED BY <1>13, <1>b, <2>2, <2>3 DEF FuerzaDesconexion, TypeOK
<1>14. ASSUME NEW t \in Hilos, BuscaRemitente(t) PROVE TypeOK'
  <2>1. /\ hilo[t] \in Tarea /\ hilo[t].msg \in Mensaje /\ hilo[t].dir \in Direcciones
        /\ pc[t] = "ack" /\ hilo[t].msg.remitente \in Usuarios
        /\ hilo[t].msg.texto \in Nat
    BY <1>0, <1>14 DEF BuscaRemitente, TipoHilos, Locales, Mensaje
  <2> DEFINE d == dir[hilo[t].msg.remitente]
             h == [hilo[t] EXCEPT !.rem = d]
  <2>2. CASE conectado[hilo[t].msg.remitente] /\ Lanza(t, "envia", h)
    <3>1. d \in Direcciones BY <1>0, <2>1, <2>2 DEF TipoServicio
    <3>2. h \in Tarea /\ "envia" \in Puntos /\ Locales("envia", h)
      BY <2>1, <3>1 DEF Tarea, Puntos, Locales
    <3> QED BY <1>0, <1>14, <1>b, <1>c, <2>2, <3>2, LanzaTipo DEF BuscaRemitente, TypeOK
  <2>3. CASE Vuelve(t, hilo[t].msg.texto)
    BY <1>11, <1>14, <1>b, <1>c, <2>1, <2>3 DEF BuscaRemitente, TypeOK
  <2> QED BY <1>14, <2>2, <2>3 DEF BuscaRemitente, servicio_get_info_conexion
<1>15. ASSUME Muere PROVE TypeOK'
  <2>1. TipoServicio'
    BY <1>0, <1>15, ServicioAssumption
       DEF Muere, servicio_destroy, historia, TipoServicio
  <2>2. TipoHilos' BY <1>15 DEF Muere, TipoHilos, Puntos, Locales
  <2> QED BY <1>0, <1>15, <2>1, <2>2 DEF Muere, TypeOK, TipoRed
<1>16. CASE UNCHANGED vars
  BY <1>16, <1>a, <1>b, <1>c DEF vars, TypeOK
<1> QED
  BY <1>1, <1>2, <1>3, <1>4, <1>5, <1>6, <1>7, <1>8, <1>9, <1>10, <1>12, <1>13,
     <1>14, <1>15, <1>16
     DEF Next, Peticion, Paso, Caida, Reinicia, SigpipeEnEntrega, SigpipeEnAck

(* TypeOK holds in every state the server can reach. *)
THEOREM TipoCorrecto == Spec => []TypeOK
BY TipoInicial, TipoPaso, PTL DEF Spec

-----------------------------------------------------------------------------
(* What a request does to the variables, whoever asks and whatever the      *)
(* code answers: a registration, its end, a disconnection asked for, a     *)
(* connection, a message accepted, and a message for which malloc fails.   *)
Registra(u) ==
    /\ ~registrado[u]
    /\ registrado' = [registrado EXCEPT ![u] = TRUE]
    /\ NodoInicial(u)
    /\ alta' = [alta EXCEPT ![u] = @ + 1]
    /\ UNCHANGED <<serie, aceptados, pc, hilo, red>>

DaDeBaja(u) ==
    /\ registrado[u]
    /\ registrado' = [registrado EXCEPT ![u] = FALSE]
    /\ NodoInicial(u)
    /\ UNCHANGED <<historia, pc, hilo, red>>

Desconecta(u) ==
    /\ registrado[u] /\ conectado[u]
    /\ marcar_desconectado(u)
    /\ UNCHANGED <<historia, pc, hilo, red>>

Conecta(t, u, d) ==
    /\ registrado[u] /\ ~conectado[u] /\ d.alta = alta[u]
    /\ marcar_conectado(u, d)
    /\ Ocupa(t, "consulta", [usuario |-> u, msg |-> SinMsg, dir |-> SinDir,
                             rem |-> SinDir, drena |-> TRUE, previo |-> 0])
    /\ UNCHANGED <<historia, red>>

Acepta(t, r, u, m) ==
    /\ registrado[r] /\ registrado[u] /\ serie < MaxMensajes
    /\ ultimo_id' = [ultimo_id EXCEPT ![r] = m.id]
    /\ serie' = serie + 1
    /\ pendientes' = [pendientes EXCEPT ![u] = agregar_mensaje(@, m)]
    /\ aceptados' = aceptados \cup {m}
    /\ IF conectado[u]
       THEN Ocupa(t, "entrega", [usuario |-> u, msg |-> m, dir |-> dir[u],
                                 rem |-> SinDir, drena |-> FALSE, previo |-> 0])
       ELSE UNCHANGED <<pc, hilo>>
    /\ UNCHANGED <<registrado, conectado, dir, alta, red>>

SinNodo(r) ==
    /\ registrado[r] /\ serie < MaxMensajes
    /\ ultimo_id' = [ultimo_id EXCEPT ![r] = SiguienteId(@)]
    /\ serie' = serie + 1
    /\ UNCHANGED <<registrado, conectado, dir, pendientes, alta, aceptados,
                   pc, hilo, red>>

(* Every step is one of these, whatever handler took it.                   *)
Efecto ==
    \/ UNCHANGED vars
    \/ \E u \in Usuarios : Registra(u) \/ DaDeBaja(u) \/ Desconecta(u)
    \/ \E t \in Hilos, u \in Usuarios, d \in Direcciones : Conecta(t, u, d)
    \/ \E t \in Hilos, r \in Usuarios, u \in Usuarios, adj \in BOOLEAN :
          Acepta(t, r, u, MensajeNuevo(r, u, adj))
    \/ \E r \in Usuarios : SinNodo(r)
    \/ \E t \in Hilos : Paso(t)
    \/ Muere

(* Of Next there remain the effects: the requests that are refused change  *)
(* nothing, and SEND and SENDATTACH do the same.                           *)
LEMMA TodoPasoEsEfecto == TypeOK /\ [Next]_vars => Efecto
<1> SUFFICES ASSUME TypeOK, [Next]_vars PROVE Efecto
  OBVIOUS
<1>1. ASSUME NEW u \in Usuarios, NEW ret \in Codigos, HandleRegister(u, ret)
      PROVE  Efecto
  BY <1>1
     DEF HandleRegister, servicio_register, insertar_usuario, buscar_usuario,
     Efecto, Registra, vars
<1>2. ASSUME NEW u \in Usuarios, NEW ret \in Codigos, HandleUnregister(u, ret)
      PROVE  Efecto
  BY <1>2
     DEF HandleUnregister, servicio_unregister, eliminar_usuario,
         buscar_usuario,
     Efecto, DaDeBaja, vars
<1>3. ASSUME NEW u \in Usuarios, NEW ip \in Ips, NEW ret \in Codigos,
             HandleDisconnect(u, ip, ret)
      PROVE  Efecto
  BY <1>3 DEF HandleDisconnect, servicio_disconnect, buscar_usuario,
     Efecto, Desconecta, vars
<1>4. ASSUME NEW t \in Hilos, NEW u \in Usuarios, NEW ip \in Ips,
             NEW puerto \in Puertos, NEW ret \in Codigos,
             HandleConnect(t, u, ip, puerto, ret)
      PROVE  Efecto
  <2> DEFINE d == [ip |-> ip, puerto |-> puerto, alta |-> alta[u]]
  <2>1. d \in Direcciones /\ d.alta = alta[u]
    BY DEF TypeOK, TipoServicio, Direcciones
  <2>2. /\ servicio_connect(u, ip, puerto, ret)
        /\ IF ret = "SVC_OK"
           THEN Ocupa(t, "consulta", [usuario |-> u, msg |-> SinMsg,
                                      dir |-> SinDir, rem |-> SinDir,
                                      drena |-> TRUE, previo |-> 0])
           ELSE UNCHANGED <<pc, hilo>>
    BY <1>4 DEF HandleConnect
  <2>3. CASE ret = "SVC_OK"
    <3>1. Conecta(t, u, d)
      BY <1>4, <2>1, <2>2, <2>3
         DEF HandleConnect, servicio_connect, buscar_usuario, Conecta
    <3> QED BY <2>1, <3>1 DEF Efecto
  <2>4. CASE ret # "SVC_OK"
    BY <1>4, <2>2, <2>4 DEF HandleConnect, servicio_connect, Efecto, vars
  <2> QED BY <2>3, <2>4
<1>5. ASSUME NEW t \in Hilos, NEW r \in Usuarios, NEW u \in Usuarios,
             NEW ret \in Codigos,
             HandleSend(t, r, u, ret) \/ HandleSendattach(t, r, u, ret)
      PROVE  Efecto
  <2>1. PICK adj \in BOOLEAN :
            /\ Aceptar(r, u, adj, ret)
            /\ Responde(t, u, MensajeNuevo(r, u, adj), ret)
    BY <1>5
       DEF HandleSend, HandleSendattach, servicio_send, servicio_sendattach
  <2> DEFINE m == MensajeNuevo(r, u, adj)
  <2>2. m.texto = serie + 1 /\ m.id = SiguienteId(ultimo_id[r])
    BY NuevoTipo DEF TypeOK
  <2> HIDE DEF m
  <2>3. UNCHANGED red
    BY <1>5 DEF HandleSend, HandleSendattach
  <2>4. CASE ret = "SVC_OK"
    <3>1. Acepta(t, r, u, m)
      BY <2>1, <2>2, <2>3, <2>4
         DEF Aceptar, Responde, buscar_usuario, Acepta, m
    <3> QED BY <3>1 DEF Efecto, m
  <2>5. CASE ret # "SVC_OK"
    <3>1. CASE UNCHANGED varsServicio
      BY <2>1, <2>3, <2>5, <3>1 DEF Responde, vars, Efecto
    <3>2. ASSUME ~UNCHANGED varsServicio PROVE SinNodo(r)
      <4>1. /\ registrado[r] /\ serie < MaxMensajes
            /\ ultimo_id' = [ultimo_id EXCEPT ![r] = m.id] /\ serie' = m.texto
            /\ UNCHANGED <<pendientes, aceptados, registrado, conectado, dir, alta>>
        BY <2>1, <2>5, <3>2 DEF Aceptar, buscar_usuario, m
      <4> QED BY <2>1, <2>2, <2>3, <2>5, <4>1 DEF Responde, SinNodo
    <3> QED BY <3>1, <3>2 DEF Efecto
  <2> QED BY <2>4, <2>5
<1> QED
  BY <1>1, <1>2, <1>3, <1>4, <1>5
     DEF Next, Peticion, Caida, Reinicia, SigpipeEnEntrega, SigpipeEnAck, Efecto
-----------------------------------------------------------------------------
(* Part 2: the history and the copies.                                     *)

(* A running thread writes the tables in two places only: the removal of a *)
(* delivered message and the forced disconnection.                         *)
LEMMA PasoTablas ==
  ASSUME TypeOK, NEW t \in Hilos, Paso(t)
  PROVE  /\ UNCHANGED historia
         /\ \/ UNCHANGED tablas
            \/ /\ pc[t] = "borra"
               /\ servicio_eliminar_pendiente(hilo[t].usuario, hilo[t].msg.id,
                                              hilo[t].msg.remitente)
            \/ /\ pc[t] = "fuerza" /\ registrado[hilo[t].usuario]
               /\ marcar_desconectado(hilo[t].usuario)
<1> USE DEF varsServicio
<1>1. CASE ConsultaConexion(t) BY <1>1 DEF ConsultaConexion
<1>2. CASE SiguientePendiente(t) BY <1>2 DEF SiguientePendiente
<1>3. CASE Entrega(t) BY <1>3 DEF Entrega
<1>4. CASE FallaEntrega(t) BY <1>4 DEF FallaEntrega
<1>5. CASE BorraPendiente(t)
  BY <1>5 DEF BorraPendiente, servicio_eliminar_pendiente
<1>6. CASE \E escrito \in BOOLEAN : EnviaAck(t, escrito) BY <1>6 DEF EnviaAck
<1>7. CASE FuerzaDesconexion(t)
  BY <1>7
     DEF FuerzaDesconexion, servicio_marcar_desconectado_forzado,
         buscar_usuario
<1>8. CASE BuscaRemitente(t) BY <1>8 DEF BuscaRemitente
<1> QED BY <1>1, <1>2, <1>3, <1>4, <1>5, <1>6, <1>7, <1>8 DEF Paso

(* It writes a message to a socket in one place only.                      *)
LEMMA PasoEnvios ==
  ASSUME NEW t \in Hilos, Paso(t)
  PROVE  \/ entregados' = entregados
         \/ /\ pc[t] = "entrega"
            /\ entregados' = entregados \cup {[msg |-> hilo[t].msg, dir |-> hilo[t].dir]}
BY DEF Paso, ConsultaConexion, SiguientePendiente, Entrega, FallaEntrega,
   BorraPendiente, BuscaRemitente, EnviaAck, FuerzaDesconexion, red

(* The history only grows.                                                 *)
LEMMA Monotonia ==
  ASSUME TypeOK, Efecto
  PROVE  /\ aceptados \subseteq aceptados' /\ entregados \subseteq entregados'
         /\ serie <= serie'
         /\ \A u \in Usuarios : alta[u] <= alta'[u]
<1>0. serie \in Nat /\ alta \in [Usuarios -> Nat]
  BY DEF TypeOK, TipoServicio
<1>1. CASE UNCHANGED vars
  BY <1>0, <1>1 DEF vars, varsServicio, historia, red
<1>2. CASE \E u \in Usuarios : Registra(u) \/ DaDeBaja(u) \/ Desconecta(u)
  BY <1>0, <1>2 DEF Registra, DaDeBaja, Desconecta, historia, red
<1>3. CASE \E t \in Hilos, u \in Usuarios, d \in Direcciones : Conecta(t, u, d)
  BY <1>0, <1>3 DEF Conecta, historia, red
<1>4. CASE \E t \in Hilos, r \in Usuarios, u \in Usuarios, adj \in BOOLEAN :
          Acepta(t, r, u, MensajeNuevo(r, u, adj))
  BY <1>0, <1>4 DEF Acepta, red
<1>5. CASE \E r \in Usuarios : SinNodo(r)
  BY <1>0, <1>5 DEF SinNodo, red
<1>6. CASE \E t \in Hilos : Paso(t)
  BY <1>0, <1>6, PasoTablas, PasoEnvios DEF historia
<1>7. CASE Muere
  BY <1>0, <1>7 DEF Muere, servicio_destroy, historia
<1> QED BY <1>1, <1>2, <1>3, <1>4, <1>5, <1>6, <1>7 DEF Efecto

(* A new message differs from every earlier one, and only accepted         *)
(* messages are written to a socket.                                       *)
LEMMA MensajesPaso ==
  ASSUME TypeOK, TypeOK', Cronologia, Efecto
  PROVE  CronoMensajes'
<1>0. /\ serie \in Nat /\ serie' \in Nat /\ aceptados \subseteq Mensaje
      /\ alta \in [Usuarios -> Nat] /\ alta' \in [Usuarios -> Nat]
      /\ CronoMensajes /\ CronoHilos
  BY DEF TypeOK, TipoServicio, Cronologia
<1>1. \A m \in aceptados : /\ m.texto <= serie' /\ m.alta_dest <= alta'[m.destinatario]
                           /\ m.texto \in Nat /\ m.destinatario \in Usuarios
                           /\ m.alta_dest \in Nat
  BY <1>0, Monotonia DEF CronoMensajes, Mensaje
<1>2. CASE aceptados' = aceptados
  <2>1. \A e \in entregados' : e.msg \in aceptados
    <3>1. CASE entregados' = entregados BY <1>0, <3>1 DEF CronoMensajes
    <3>2. CASE \E t \in Hilos : Paso(t)
      BY <1>0, <3>2, PasoEnvios DEF CronoMensajes, CronoHilos, Copias
    <3> QED
      BY <3>1, <3>2
         DEF Efecto, vars, red, Registra, DaDeBaja, Desconecta, Conecta, Acepta, SinNodo, Muere
  <2> QED BY <1>0, <1>1, <1>2, <2>1 DEF CronoMensajes
<1>3. ASSUME NEW t \in Hilos, NEW r \in Usuarios, NEW u \in Usuarios,
             NEW adj \in BOOLEAN, Acepta(t, r, u, MensajeNuevo(r, u, adj))
      PROVE  CronoMensajes'
  <2> DEFINE m == MensajeNuevo(r, u, adj)
  <2>1. /\ m \in Mensaje /\ m.texto = serie + 1 /\ m.destinatario = u
        /\ m.alta_dest = alta[u]
    BY NuevoTipo DEF TypeOK
  <2>2. /\ aceptados' = aceptados \cup {m} /\ serie' = serie + 1 /\ alta' = alta
        /\ entregados' = entregados
    BY <1>3 DEF Acepta, red
  <2> HIDE DEF m
  <2>3. \A o \in aceptados : o.texto # m.texto
    BY <1>0, <1>1, <2>1 DEF CronoMensajes
  <2>4. \A o \in aceptados' : o.texto <= serie' /\ o.alta_dest <= alta'[o.destinatario]
    BY <1>0, <1>1, <2>1, <2>2
  <2>5. \A o, q \in aceptados' : o.texto = q.texto => o = q
    BY <1>0, <2>2, <2>3 DEF CronoMensajes
  <2>6. \A e \in entregados' : e.msg \in aceptados'
    BY <1>0, <2>2 DEF CronoMensajes
  <2> QED BY <2>4, <2>5, <2>6 DEF CronoMensajes
<1>4. aceptados' = aceptados \/
      \E t \in Hilos, r \in Usuarios, u \in Usuarios, adj \in BOOLEAN :
          Acepta(t, r, u, MensajeNuevo(r, u, adj))
  BY PasoTablas
     DEF Efecto, vars, varsServicio, historia, Registra, DaDeBaja, Desconecta, Conecta,
         SinNodo, Muere, servicio_destroy
<1> QED BY <1>2, <1>3, <1>4

(* A list keeps holding accepted messages of its owner's current           *)
(* registration: registering and unregistering empty it, an insertion adds *)
(* the message with the current registration, a removal adds none.         *)
LEMMA TablasPaso ==
  ASSUME TypeOK, TypeOK', Cronologia, Efecto
  PROVE  CronoTablas'
<1> DEFINE C(u) == /\ conectado[u] => dir[u].alta = alta[u]
                   /\ \A m \in ToSet(pendientes[u]) :
                        m \in aceptados /\ m.destinatario = u /\ m.alta_dest = alta[u]
<1>0. /\ TipoServicio /\ TipoServicio'
      /\ \A u \in Usuarios : C(u)
      /\ aceptados \subseteq aceptados'
  BY Monotonia DEF TypeOK, Cronologia, CronoTablas
<1> SUFFICES ASSUME NEW v \in Usuarios PROVE C(v)'
  BY DEF CronoTablas
<1>1. ToSet(<<>>) = {}
  BY DEF ToSet
<1>2. ASSUME /\ conectado'[v] = conectado[v] /\ dir'[v] = dir[v]
             /\ alta'[v] = alta[v] /\ pendientes'[v] = pendientes[v]
      PROVE  C(v)'
  BY <1>0, <1>2
<1>3. ASSUME NEW u \in Usuarios, Registra(u) \/ DaDeBaja(u) PROVE C(v)'
  <2>1. CASE v = u
    <3>1. ~conectado'[v] /\ pendientes'[v] = <<>>
      BY <1>0, <1>3, <2>1 DEF Registra, DaDeBaja, NodoInicial, TipoServicio
    <3> QED BY <3>1, <1>1
  <2>2. CASE v # u
    BY <1>0, <1>2, <1>3, <2>2
       DEF Registra, DaDeBaja, NodoInicial, TipoServicio, historia
  <2> QED BY <2>1, <2>2
<1>4. ASSUME NEW u \in Usuarios, marcar_desconectado(u), UNCHANGED historia
      PROVE  C(v)'
  <2>1. /\ conectado'[v] => conectado[v] /\ dir'[v] = dir[v]
        /\ pendientes' = pendientes /\ alta' = alta
    BY <1>0, <1>4 DEF marcar_desconectado, historia, TipoServicio
  <2> QED BY <1>0, <2>1
<1>5. ASSUME NEW t \in Hilos, NEW u \in Usuarios, NEW d \in Direcciones, Conecta(t, u, d)
      PROVE  C(v)'
  <2>1. /\ conectado'[v] => \/ conectado[v] /\ dir'[v] = dir[v]
                            \/ dir'[v].alta = alta[v]
        /\ pendientes' = pendientes /\ alta' = alta
    BY <1>0, <1>5 DEF Conecta, marcar_conectado, historia, TipoServicio
  <2> QED BY <1>0, <2>1
<1>6. ASSUME NEW t \in Hilos, NEW r \in Usuarios, NEW u \in Usuarios,
             NEW adj \in BOOLEAN, Acepta(t, r, u, MensajeNuevo(r, u, adj))
      PROVE  C(v)'
  <2> DEFINE m == MensajeNuevo(r, u, adj)
  <2>1. m \in Mensaje /\ m.destinatario = u /\ m.alta_dest = alta[u]
    BY <1>0, NuevoTipo
  <2>2. /\ aceptados' = aceptados \cup {m}
        /\ UNCHANGED <<conectado, dir, alta>>
        /\ pendientes' = [pendientes EXCEPT ![u] = agregar_mensaje(@, m)]
    BY <1>6 DEF Acepta
  <2> HIDE DEF m
  <2>3. CASE v = u
    <3>1. pendientes[u] \in Seq(Mensaje) /\ pendientes'[u] = agregar_mensaje(pendientes[u], m)
      BY <1>0, <2>2 DEF TipoServicio
    <3>2. ToSet(pendientes'[u]) = ToSet(pendientes[u]) \cup {m}
      BY <2>1, <3>1, AgregarConjunto
    <3> QED BY <1>0, <2>1, <2>2, <2>3, <3>2
  <2>4. CASE v # u
    BY <1>0, <1>2, <2>2, <2>4 DEF TipoServicio
  <2> QED BY <2>3, <2>4
<1>7. ASSUME NEW t \in Hilos, Paso(t) PROVE C(v)'
  <2>1. CASE UNCHANGED tablas /\ UNCHANGED historia
    BY <1>2, <2>1 DEF tablas, historia
  <2>2. CASE /\ servicio_eliminar_pendiente(hilo[t].usuario, hilo[t].msg.id, hilo[t].msg.remitente)
             /\ UNCHANGED historia
    <3>1. /\ UNCHANGED <<conectado, dir, alta>>
          /\ \/ pendientes'[v] = pendientes[v]
             \/ pendientes'[v] = eliminar_mensaje_por_id_y_remitente(pendientes[v],
                                    hilo[t].msg.id, hilo[t].msg.remitente)
      BY <1>0, <2>2 DEF servicio_eliminar_pendiente, TipoServicio, historia
    <3>2. pendientes[v] \in Seq(Mensaje)
      BY <1>0 DEF TipoServicio
    <3>3. ToSet(pendientes'[v]) \subseteq ToSet(pendientes[v])
      BY <3>1, <3>2, EliminarConjunto
    <3> QED BY <1>0, <3>1, <3>3
  <2>3. CASE pc[t] = "fuerza" /\ marcar_desconectado(hilo[t].usuario) /\ UNCHANGED historia
    <3>1. hilo[t].usuario \in Usuarios
      BY <2>3 DEF TypeOK, TipoHilos, Locales, Tarea
    <3> QED BY <1>4, <2>3, <3>1
  <2> QED BY <1>7, <2>1, <2>2, <2>3, PasoTablas
<1>8. CASE Muere
  BY <1>1, <1>8 DEF Muere, servicio_destroy
<1>9. CASE UNCHANGED vars \/ \E r \in Usuarios : SinNodo(r)
  BY <1>2, <1>9 DEF vars, varsServicio, tablas, historia, SinNodo
<1> QED BY <1>3, <1>4, <1>5, <1>6, <1>7, <1>8, <1>9 DEF Efecto, Desconecta

(* Copias as a condition on values, so that a thread's data of one state   *)
(* can be compared with the history of the next.                           *)
Bien(punto, datos, A, E, L) ==
    /\ punto # "libre" /\ datos.dir # SinDir => datos.dir.alta <= L[datos.usuario]
    /\ punto \in EnMano =>
          /\ datos.msg \in A
          /\ datos.msg.destinatario = datos.usuario
          /\ datos.dir.alta <= datos.msg.alta_dest
    /\ punto \in {"borra"} \cup Retirado => \E e \in E : e.msg = datos.msg

(* What a thread holds stays right while the history grows.                *)
LEMMA BienQueda ==
  ASSUME NEW p, NEW h, NEW A, NEW A2, NEW E, NEW E2,
         NEW L \in [Usuarios -> Nat], NEW L2 \in [Usuarios -> Nat],
         A \subseteq A2, E \subseteq E2, \A u \in Usuarios : L[u] <= L2[u],
         Locales(p, h), Bien(p, h, A, E, L)
  PROVE  Bien(p, h, A2, E2, L2)
<1>1. p # "libre" => /\ h.usuario \in Usuarios
                     /\ h.dir # SinDir => h.dir.alta \in Nat
  BY DEF Locales, Tarea, Direcciones
<1> QED BY <1>1 DEF Bien

(* Every point of a thread finds the facts that Copias asks: taken from    *)
(* the tables in consulta and bucle, and kept afterwards because the       *)
(* history only grows.                                                     *)
LEMMA HilosPaso ==
  ASSUME TypeOK, TypeOK', Cronologia, Efecto
  PROVE  CronoHilos'
<1> SUFFICES ASSUME NEW s \in Hilos
             PROVE  Bien(pc'[s], hilo'[s], aceptados', entregados', alta')
  BY DEF CronoHilos, Copias, Transmitido, Bien
<1>0. /\ pc \in [Hilos -> Puntos] /\ hilo \in [Hilos -> Tarea \cup {NoHilo}]
      /\ \A t \in Hilos : /\ Locales(pc[t], hilo[t])
                          /\ Bien(pc[t], hilo[t], aceptados, entregados, alta)
      /\ dir \in [Usuarios -> Direcciones \cup {SinDir}]
      /\ alta \in [Usuarios -> Nat] /\ alta' \in [Usuarios -> Nat]
      /\ CronoTablas /\ CronoMensajes /\ TipoServicio
  BY DEF TypeOK, TipoHilos, TipoServicio, Cronologia, CronoHilos, Copias,
     Transmitido, Bien
<1>1. Bien(pc[s], hilo[s], aceptados', entregados', alta')
  BY <1>0, Monotonia, BienQueda
<1>2. CASE pc'[s] = pc[s] /\ hilo'[s] = hilo[s]
  BY <1>1, <1>2
<1>3. ASSUME NEW t \in Hilos, NEW p, NEW h, Lanza(t, p, h),
             Bien(p, h, aceptados', entregados', alta')
      PROVE  Bien(pc'[s], hilo'[s], aceptados', entregados', alta')
  <2>1. /\ pc'[s] = IF s = t THEN p ELSE pc[s]
        /\ hilo'[s] = IF s = t THEN h ELSE hilo[s]
    BY <1>0, <1>3 DEF Lanza, Salta
  <2> QED BY <1>1, <1>3, <2>1
<1>4. ASSUME NEW t \in Hilos, Acaba(t)
      PROVE  Bien(pc'[s], hilo'[s], aceptados', entregados', alta')
  <2>1. Bien("libre", NoHilo, aceptados', entregados', alta') BY DEF Bien
  <2> QED BY <1>3, <1>4, <2>1 DEF Acaba
<1>5. ASSUME NEW t \in Hilos, NEW u \in Usuarios, NEW d \in Direcciones, Conecta(t, u, d)
      PROVE  Bien(pc'[s], hilo'[s], aceptados', entregados', alta')
  <2> DEFINE h == [usuario |-> u, msg |-> SinMsg, dir |-> SinDir, rem |-> SinDir,
                   drena |-> TRUE, previo |-> 0]
  <2>1. Bien("consulta", h, aceptados', entregados', alta') BY DEF Bien
  <2> HIDE DEF h
  <2> QED BY <1>3, <1>5, <2>1 DEF Conecta, Ocupa, h
<1>6. ASSUME NEW t \in Hilos, NEW r \in Usuarios, NEW u \in Usuarios,
             NEW adj \in BOOLEAN, Acepta(t, r, u, MensajeNuevo(r, u, adj))
      PROVE  Bien(pc'[s], hilo'[s], aceptados', entregados', alta')
  <2> DEFINE m == MensajeNuevo(r, u, adj)
             h == [usuario |-> u, msg |-> m, dir |-> dir[u], rem |-> SinDir,
                   drena |-> FALSE, previo |-> 0]
  <2>1. m \in Mensaje /\ m.destinatario = u /\ m.alta_dest = alta[u]
    BY <1>0, NuevoTipo
  <2>2. /\ aceptados' = aceptados \cup {m} /\ alta' = alta
        /\ IF conectado[u] THEN Lanza(t, "entrega", h) ELSE UNCHANGED <<pc, hilo>>
    BY <1>6 DEF Acepta, Ocupa
  <2> HIDE DEF m
  <2>3. CASE conectado[u]
    <3>1. dir[u].alta = alta[u] /\ alta[u] \in Nat
      BY <1>0, <2>3 DEF CronoTablas
    <3>2. Bien("entrega", h, aceptados', entregados', alta')
      BY <2>1, <2>2, <3>1 DEF Bien
    <3> QED BY <1>3, <2>2, <2>3, <3>2
  <2>4. CASE ~conectado[u]
    BY <1>2, <2>2, <2>4
  <2> QED BY <2>3, <2>4
<1>7. ASSUME NEW t \in Hilos, ConsultaConexion(t)
      PROVE  Bien(pc'[s], hilo'[s], aceptados', entregados', alta')
  <2>1. hilo[t] \in Tarea /\ pc[t] = "consulta"
    BY <1>0, <1>7 DEF ConsultaConexion, Locales
  <2>2. UNCHANGED <<aceptados, entregados, alta>>
    BY <1>7 DEF ConsultaConexion, varsServicio, historia, red
  <2>3. PICK d \in Direcciones \cup {SinDir} :
            /\ d # SinDir => d.alta <= alta[hilo[t].usuario]
            /\ IF d = SinDir THEN Acaba(t)
               ELSE Lanza(t, "bucle", [hilo[t] EXCEPT !.dir = d])
    <3>1. /\ hilo[t].dir \in Direcciones \cup {SinDir}
          /\ hilo[t].usuario \in Usuarios
          /\ dir[hilo[t].usuario] \in Direcciones \cup {SinDir}
      BY <1>0, <2>1 DEF Tarea
    <3>2. /\ hilo[t].dir # SinDir => hilo[t].dir.alta <= alta[hilo[t].usuario]
          /\ conectado[hilo[t].usuario] =>
                dir[hilo[t].usuario].alta <= alta[hilo[t].usuario]
      BY <1>0, <2>1, <3>1 DEF Bien, CronoTablas
    <3> QED BY <1>7, <3>1, <3>2
       DEF ConsultaConexion, servicio_get_info_conexion
  <2>4. CASE d # SinDir
    <3> DEFINE h == [hilo[t] EXCEPT !.dir = d]
    <3>1. h.dir = d /\ h.usuario = hilo[t].usuario BY <2>1 DEF Tarea
    <3>2. Bien("bucle", h, aceptados', entregados', alta')
      BY <2>2, <2>3, <3>1 DEF Bien
    <3> QED BY <1>3, <2>3, <2>4, <3>2
  <2> QED BY <1>4, <2>3, <2>4
<1>8. ASSUME NEW t \in Hilos, SiguientePendiente(t)
      PROVE  Bien(pc'[s], hilo'[s], aceptados', entregados', alta')
  <2>1. /\ hilo[t] \in Tarea /\ hilo[t].dir \in Direcciones /\ pc[t] = "bucle"
        /\ hilo[t].usuario \in Usuarios
    BY <1>0, <1>8 DEF SiguientePendiente, Locales, Tarea
  <2>2. UNCHANGED <<aceptados, entregados, alta>>
    BY <1>8 DEF SiguientePendiente, varsServicio, historia, red
  <2> DEFINE u == hilo[t].usuario
             m == Head(pendientes[u])
             h == [hilo[t] EXCEPT !.msg = m]
  <2>3. CASE HayPendientes(u)
    <3>1. m \in ToSet(pendientes[u])
      <4>1. pendientes[u] \in Seq(Mensaje) /\ pendientes[u] # <<>>
        BY <1>0, <2>1, <2>3 DEF TipoServicio, HayPendientes
      <4> QED BY <4>1 DEF ToSet
    <3>2. m \in aceptados /\ m.destinatario = u /\ m.alta_dest = alta[u]
      BY <1>0, <2>1, <3>1 DEF CronoTablas
    <3>3. h.msg = m /\ h.dir = hilo[t].dir /\ h.usuario = u BY <2>1 DEF Tarea
    <3>4. hilo[t].dir.alta <= alta[u]
      BY <1>0, <2>1, ServicioAssumption DEF Bien
    <3> HIDE DEF m
    <3>5. Bien("entrega", h, aceptados', entregados', alta')
      BY <2>2, <3>2, <3>3, <3>4 DEF Bien
    <3> QED
      BY <1>3, <1>8, <2>3, <3>5
         DEF SiguientePendiente, servicio_obtener_primer_pendiente, m
  <2> QED BY <1>4, <1>8, <2>3 DEF SiguientePendiente
<1>9. ASSUME NEW t \in Hilos, Entrega(t) \/ FallaEntrega(t) \/ BorraPendiente(t)
      PROVE  Bien(pc'[s], hilo'[s], aceptados', entregados', alta')
  <2>1. PICK q : Lanza(t, q, hilo[t]) /\ q \in {"borra", "fuerza", "ack"}
                 /\ (q = "borra" => Entrega(t)) /\ (q = "ack" => pc[t] = "borra")
    <3>1. hilo = [hilo EXCEPT ![t] = hilo[t]] BY <1>0
    <3>2. CASE Entrega(t)
      <4>1. Lanza(t, "borra", hilo[t]) BY <3>1, <3>2 DEF Entrega, Lanza
      <4> QED BY <3>2, <4>1
    <3>3. CASE FallaEntrega(t)
      <4>1. Lanza(t, "fuerza", hilo[t]) BY <3>1, <3>3 DEF FallaEntrega, Lanza
      <4> QED BY <4>1
    <3>4. CASE BorraPendiente(t)
      <4>1. Lanza(t, "ack", hilo[t]) /\ pc[t] = "borra"
        BY <3>1, <3>4 DEF BorraPendiente, Lanza
      <4> QED BY <4>1
    <3> QED BY <1>9, <3>2, <3>3, <3>4
  <2>2. pc[t] \in {"entrega", "borra"}
    BY <1>9 DEF Entrega, FallaEntrega, BorraPendiente
  <2>3. Bien(pc[t], hilo[t], aceptados', entregados', alta')
    BY <1>0, Monotonia, BienQueda
  <2>4. q \in {"borra", "ack"} => \E e \in entregados' : e.msg = hilo[t].msg
    <3>1. CASE q = "borra"
      <4> DEFINE e == [msg |-> hilo[t].msg, dir |-> hilo[t].dir]
      <4>1. e \in entregados' /\ e.msg = hilo[t].msg BY <2>1, <3>1 DEF Entrega
      <4> QED BY <4>1
    <3>2. CASE q = "ack"
      BY <2>1, <2>3, <3>2 DEF Bien
    <3> QED BY <3>1, <3>2
  <2>5. Bien(q, hilo[t], aceptados', entregados', alta')
    BY <2>1, <2>2, <2>3, <2>4 DEF Bien
  <2> QED BY <1>3, <2>1, <2>5
<1>10. ASSUME NEW t \in Hilos, NEW n, Vuelve(t, n), hilo[t] \in Tarea, pc[t] # "libre"
       PROVE  Bien(pc'[s], hilo'[s], aceptados', entregados', alta')
  <2>1. Bien(pc[t], hilo[t], aceptados', entregados', alta')
    BY <1>0, Monotonia, BienQueda
  <2> DEFINE h == [hilo[t] EXCEPT !.msg = SinMsg, !.rem = SinDir, !.previo = n]
  <2>2. h.dir = hilo[t].dir /\ h.usuario = hilo[t].usuario BY <1>10 DEF Tarea
  <2>3. Bien("consulta", h, aceptados', entregados', alta')
    BY <1>10, <2>1, <2>2 DEF Bien
  <2> QED BY <1>3, <1>4, <1>10, <2>3 DEF Vuelve
<1>11. ASSUME NEW t \in Hilos,
              \/ \E escrito \in BOOLEAN : EnviaAck(t, escrito)
              \/ FuerzaDesconexion(t)
       PROVE  Bien(pc'[s], hilo'[s], aceptados', entregados', alta')
  <2>1. hilo[t] \in Tarea /\ pc[t] # "libre"
    BY <1>0, <1>11 DEF EnviaAck, FuerzaDesconexion, Locales
  <2> QED BY <1>10, <1>11, <2>1 DEF EnviaAck, FuerzaDesconexion
<1>12. ASSUME NEW t \in Hilos, BuscaRemitente(t)
       PROVE  Bien(pc'[s], hilo'[s], aceptados', entregados', alta')
  <2>1. hilo[t] \in Tarea /\ pc[t] = "ack"
    BY <1>0, <1>12 DEF BuscaRemitente, Locales
  <2>2. Bien(pc[t], hilo[t], aceptados', entregados', alta')
    BY <1>0, Monotonia, BienQueda
  <2> DEFINE h == [hilo[t] EXCEPT !.rem = dir[hilo[t].msg.remitente]]
  <2>3. h.dir = hilo[t].dir /\ h.usuario = hilo[t].usuario /\ h.msg = hilo[t].msg
    BY <2>1 DEF Tarea
  <2>4. Bien("envia", h, aceptados', entregados', alta')
    BY <2>1, <2>2, <2>3 DEF Bien
  <2>5. Lanza(t, "envia", h) \/ Vuelve(t, hilo[t].msg.texto)
    BY <1>12 DEF BuscaRemitente, servicio_get_info_conexion
  <2> QED BY <1>3, <1>10, <2>1, <2>4, <2>5
<1>13. CASE Muere
  <2>1. pc'[s] = "libre" /\ hilo'[s] = NoHilo BY <1>13 DEF Muere
  <2> QED BY <2>1 DEF Bien
<1>14. CASE UNCHANGED <<pc, hilo>>
  BY <1>2, <1>14
<1> QED
  BY <1>5, <1>6, <1>7, <1>8, <1>9, <1>11, <1>12, <1>13, <1>14
     DEF Efecto, Paso, vars, Registra, DaDeBaja, Desconecta, SinNodo

(* The three parts of Cronologia together.                                 *)
LEMMA CronologiaPaso ==
  ASSUME TypeOK, TypeOK', Cronologia, Efecto
  PROVE  Cronologia'
BY MensajesPaso, TablasPaso, HilosPaso DEF Cronologia

(* Nothing was accepted and no thread runs when the server starts.         *)
LEMMA CronologiaInicial == Init => Cronologia
<1>1. ToSet(<<>>) = {} BY DEF ToSet
<1> QED
  BY <1>1
     DEF Init, servicio_init, Cronologia, CronoMensajes, CronoTablas,
         CronoHilos, Copias

(* The history, the tables and the threads agree in every reachable state. *)
THEOREM CronologiaCorrecta == Spec => []Cronologia
<1>1. TypeOK /\ TypeOK' /\ Cronologia /\ [Next]_vars => Cronologia'
  BY TodoPasoEsEfecto, CronologiaPaso
<1> QED BY <1>1, CronologiaInicial, TipoCorrecto, PTL DEF Spec
-----------------------------------------------------------------------------
(* Only three kinds of step change a list of pending messages of a         *)
(* registration that goes on: an insertion, a removal, or none.            *)
LEMMA ColaPaso ==
  ASSUME TypeOK, Efecto, NEW u \in Usuarios, registrado'[u]
  PROVE  \/ pendientes'[u] = pendientes[u] /\ alta'[u] = alta[u] /\ registrado[u]
         \/ ~registrado[u] /\ alta'[u] = alta[u] + 1 /\ pendientes'[u] = <<>>
         \/ \E t \in Hilos, r \in Usuarios, adj \in BOOLEAN :
               /\ Acepta(t, r, u, MensajeNuevo(r, u, adj))
               /\ pendientes'[u] = agregar_mensaje(pendientes[u], MensajeNuevo(r, u, adj))
               /\ alta' = alta /\ registrado[u]
         \/ \E t \in Hilos :
               /\ BorraPendiente(t) /\ hilo[t].usuario = u /\ pc[t] = "borra"
               /\ pendientes'[u] = eliminar_mensaje_por_id_y_remitente(
                        pendientes[u], hilo[t].msg.id, hilo[t].msg.remitente)
               /\ alta' = alta /\ registrado[u]
<1>0. TipoServicio BY DEF TypeOK
<1>1. ASSUME NEW v \in Usuarios, Registra(v)
      PROVE  \/ pendientes'[u] = pendientes[u] /\ alta'[u] = alta[u] /\ registrado[u]
             \/ ~registrado[u] /\ alta'[u] = alta[u] + 1 /\ pendientes'[u] = <<>>
  BY <1>0, <1>1 DEF Registra, NodoInicial, TipoServicio
<1>2. ASSUME NEW v \in Usuarios, DaDeBaja(v) \/ Desconecta(v)
      PROVE  pendientes'[u] = pendientes[u] /\ alta'[u] = alta[u] /\ registrado[u]
  BY <1>0, <1>2
     DEF DaDeBaja, Desconecta, marcar_desconectado, NodoInicial, historia,
         TipoServicio
<1>3. ASSUME NEW t \in Hilos, NEW v \in Usuarios, NEW d \in Direcciones, Conecta(t, v, d)
      PROVE  pendientes'[u] = pendientes[u] /\ alta'[u] = alta[u] /\ registrado[u]
  BY <1>3 DEF Conecta, marcar_conectado, historia
<1>4. ASSUME NEW t \in Hilos, NEW r \in Usuarios, NEW v \in Usuarios,
             NEW adj \in BOOLEAN, Acepta(t, r, v, MensajeNuevo(r, v, adj))
      PROVE  \/ pendientes'[u] = pendientes[u] /\ alta'[u] = alta[u] /\ registrado[u]
             \/ /\ u = v
                /\ pendientes'[u] = agregar_mensaje(pendientes[u], MensajeNuevo(r, u, adj))
                /\ alta' = alta /\ registrado[u]
  <2> DEFINE m == MensajeNuevo(r, v, adj)
  <2>1. /\ pendientes' = [pendientes EXCEPT ![v] = agregar_mensaje(@, m)]
        /\ alta' = alta /\ registrado' = registrado
    BY <1>4 DEF Acepta
  <2> HIDE DEF m
  <2>2. CASE u = v BY <1>0, <2>1, <2>2 DEF TipoServicio, m
  <2>3. CASE u # v BY <1>0, <2>1, <2>3 DEF TipoServicio
  <2> QED BY <2>2, <2>3
<1>5. ASSUME NEW r \in Usuarios, SinNodo(r)
      PROVE  pendientes'[u] = pendientes[u] /\ alta'[u] = alta[u] /\ registrado[u]
  BY <1>5 DEF SinNodo
<1>6. ASSUME NEW t \in Hilos, Paso(t)
      PROVE  \/ pendientes'[u] = pendientes[u] /\ alta'[u] = alta[u] /\ registrado[u]
             \/ /\ BorraPendiente(t) /\ hilo[t].usuario = u /\ pc[t] = "borra"
                /\ pendientes'[u] = eliminar_mensaje_por_id_y_remitente(
                        pendientes[u], hilo[t].msg.id, hilo[t].msg.remitente)
                /\ alta' = alta /\ registrado[u]
  <2>1. CASE BorraPendiente(t)
    BY <1>0, <2>1
       DEF BorraPendiente, servicio_eliminar_pendiente, TipoServicio,
           historia, buscar_usuario
  <2>2. CASE FuerzaDesconexion(t)
    BY <2>2
       DEF FuerzaDesconexion, servicio_marcar_desconectado_forzado,
           marcar_desconectado, tablas, historia
  <2> QED
    BY <1>6, <2>1, <2>2
       DEF Paso, ConsultaConexion, SiguientePendiente, Entrega, FallaEntrega,
           BuscaRemitente, EnviaAck, varsServicio, tablas, historia
<1>7. ~Muere
  BY DEF Muere, servicio_destroy
<1>8. CASE UNCHANGED vars BY <1>8 DEF vars, varsServicio, tablas, historia
<1> QED BY <1>1, <1>2, <1>3, <1>4, <1>5, <1>6, <1>7, <1>8 DEF Efecto

(* Collisions and transmissions are never undone.                          *)
LEMMA HistoriaQueda ==
  ASSUME TypeOK, Efecto, NEW m
  PROVE  /\ Colisiona(m) => Colisiona(m)'
         /\ Transmitido(m) => Transmitido(m)'
BY Monotonia DEF Colisiona, Transmitido

(* SinPerdida is kept by every step.  The case that matters is             *)
(* BorraPendiente: the node it unlinks has the number and the sender of    *)
(* the message just transmitted, so that it is this message or the two of  *)
(* them collide.                                                           *)
LEMMA PerdidaPaso ==
  ASSUME TypeOK, TypeOK', Cronologia, SinPerdida, Efecto
  PROVE  SinPerdida'
<1> SUFFICES ASSUME NEW m \in aceptados', Vigente(m)', ~Colisiona(m)'
             PROVE  Pendiente(m)' \/ Transmitido(m)'
  BY DEF SinPerdida
<1>0. /\ TipoServicio /\ TipoServicio' /\ CronoMensajes /\ CronoTablas /\ CronoHilos
      /\ m \in Mensaje /\ m.destinatario \in Usuarios
  BY DEF TypeOK, TipoServicio, Cronologia, Mensaje
<1> DEFINE u == m.destinatario
<1>1. registrado'[u] /\ alta'[u] = m.alta_dest
  BY DEF Vigente
<1>2. pendientes[u] \in Seq(Mensaje) /\ alta[u] \in Nat
  BY <1>0 DEF TipoServicio
<1>3. CASE m \in aceptados
  <2>1. m.alta_dest <= alta[u] /\ m.alta_dest \in Nat
    BY <1>0, <1>3 DEF CronoMensajes, Mensaje
  <2>2. ~Colisiona(m) /\ (Transmitido(m) => Transmitido(m)')
    BY HistoriaQueda
  <2>3. CASE pendientes'[u] = pendientes[u] /\ alta'[u] = alta[u] /\ registrado[u]
    <3>1. Vigente(m) BY <1>1, <2>3 DEF Vigente
    <3> QED BY <1>3, <2>2, <2>3, <3>1 DEF SinPerdida, Pendiente
  <2>4. CASE \E t \in Hilos, r \in Usuarios, adj \in BOOLEAN :
               /\ Acepta(t, r, u, MensajeNuevo(r, u, adj))
               /\ pendientes'[u] = agregar_mensaje(pendientes[u], MensajeNuevo(r, u, adj))
               /\ alta' = alta /\ registrado[u]
    <3>1. Vigente(m) BY <1>1, <2>4 DEF Vigente
    <3>2. PICK n \in Mensaje : pendientes'[u] = agregar_mensaje(pendientes[u], n)
      BY <1>0, <2>4, NuevoTipo
    <3>3. ToSet(pendientes'[u]) = ToSet(pendientes[u]) \cup {n}
      BY <1>2, <3>2, AgregarConjunto
    <3> QED BY <1>3, <2>2, <3>1, <3>3 DEF SinPerdida, Pendiente
  <2>5. ASSUME NEW t \in Hilos, hilo[t].usuario = u, pc[t] = "borra",
               pendientes'[u] = eliminar_mensaje_por_id_y_remitente(
                        pendientes[u], hilo[t].msg.id, hilo[t].msg.remitente),
               alta' = alta, registrado[u]
        PROVE  Pendiente(m)' \/ Transmitido(m)'
    <3>1. Vigente(m) BY <1>1, <2>5 DEF Vigente
    <3>2. /\ hilo[t].msg \in aceptados /\ hilo[t].msg.destinatario = u
          /\ Transmitido(hilo[t].msg)
      BY <1>0, <2>5 DEF CronoHilos, Copias
    <3>3. \/ Pendiente(m)'
          \/ m \notin ToSet(pendientes[u])
          \/ Coincide(m, hilo[t].msg.id, hilo[t].msg.remitente)
      BY <1>2, <2>5, EliminarConjunto DEF Pendiente
    <3>4. CASE Coincide(m, hilo[t].msg.id, hilo[t].msg.remitente)
      <4>1. hilo[t].msg.texto = m.texto
        BY <2>2, <3>2, <3>4 DEF Colisiona, Coincide
      <4>2. hilo[t].msg = m
        BY <1>0, <1>3, <3>2, <4>1 DEF CronoMensajes
      <4> QED BY <2>2, <3>2, <4>2
    <3> QED BY <1>3, <2>2, <3>1, <3>3, <3>4 DEF SinPerdida, Pendiente
  <2> QED BY <1>0, <1>1, <1>2, <2>1, <2>3, <2>4, <2>5, ColaPaso
<1>4. CASE m \notin aceptados
  <2>1. PICK t \in Hilos, r \in Usuarios, v \in Usuarios, adj \in BOOLEAN :
            Acepta(t, r, v, MensajeNuevo(r, v, adj))
    BY <1>4, PasoTablas
       DEF Efecto, vars, varsServicio, historia, Registra, DaDeBaja, Desconecta,
           Conecta, SinNodo, Muere, servicio_destroy
  <2> DEFINE n == MensajeNuevo(r, v, adj)
  <2>2. n \in Mensaje /\ n.destinatario = v BY <1>0, NuevoTipo
  <2>3. /\ aceptados' = aceptados \cup {n}
        /\ pendientes' = [pendientes EXCEPT ![v] = agregar_mensaje(@, n)]
    BY <2>1 DEF Acepta
  <2> HIDE DEF n
  <2>4. m = n BY <1>4, <2>3
  <2>5. pendientes'[v] = agregar_mensaje(pendientes[v], n) /\ pendientes[v] \in Seq(Mensaje)
    BY <1>0, <2>3 DEF TipoServicio
  <2> QED BY <2>2, <2>4, <2>5, AgregarConjunto DEF Pendiente
<1> QED BY <1>3, <1>4

(* No message is lost: see SinPerdida. *)
THEOREM SinPerdidaCorrecta == Spec => []SinPerdida
<1>1. Init => SinPerdida
  BY DEF Init, servicio_init, SinPerdida
<1>2. TypeOK /\ TypeOK' /\ Cronologia /\ SinPerdida /\ [Next]_vars => SinPerdida'
  BY TodoPasoEsEfecto, PerdidaPaso
<1> QED BY <1>1, <1>2, TipoCorrecto, CronologiaCorrecta, PTL DEF Spec

(* No address of a later registration receives a message of an earlier    *)
(* one (see NoHereda): a thread that carries a message copied its address  *)
(* in the registration of that message or in an earlier one (Copias).      *)
THEOREM NoHeredaCorrecta == Spec => []NoHereda
<1>1. Init => NoHereda
  BY DEF Init, NoHereda
<1>2. TypeOK /\ Cronologia /\ NoHereda /\ [Next]_vars => NoHereda'
  <2> SUFFICES ASSUME TypeOK, Cronologia, NoHereda, Efecto PROVE NoHereda'
    BY TodoPasoEsEfecto
  <2>1. CASE entregados' = entregados
    BY <2>1 DEF NoHereda
  <2>2. ASSUME NEW t \in Hilos, Paso(t) PROVE NoHereda'
    <3>1. pc[t] = "entrega" => hilo[t].dir.alta <= hilo[t].msg.alta_dest
      BY DEF Cronologia, CronoHilos, Copias
    <3> QED BY <2>1, <2>2, <3>1, PasoEnvios DEF NoHereda
  <2> QED
    BY <2>1, <2>2
       DEF Efecto, vars, red, Registra, DaDeBaja, Desconecta, Conecta, Acepta, SinNodo, Muere
<1> QED BY <1>1, <1>2, TipoCorrecto, CronologiaCorrecta, PTL DEF Spec
-----------------------------------------------------------------------------
(* Only an accepted SEND or SENDATTACH adds to the accepted messages.      *)
LEMMA AceptadosPaso ==
  ASSUME TypeOK, Efecto
  PROVE  \/ aceptados' = aceptados
         \/ \E t \in Hilos, r \in Usuarios, u \in Usuarios, adj \in BOOLEAN, m \in Mensaje :
               /\ m = MensajeNuevo(r, u, adj)
               /\ Acepta(t, r, u, m)
               /\ aceptados' = aceptados \cup {m}
<1>1. ASSUME NEW t \in Hilos, NEW r \in Usuarios, NEW u \in Usuarios, NEW adj \in BOOLEAN,
             Acepta(t, r, u, MensajeNuevo(r, u, adj))
      PROVE  \E m \in Mensaje : /\ m = MensajeNuevo(r, u, adj)
                               /\ Acepta(t, r, u, m)
                               /\ aceptados' = aceptados \cup {m}
  <2> DEFINE m == MensajeNuevo(r, u, adj)
  <2>1. m \in Mensaje BY NuevoTipo DEF TypeOK
  <2>2. aceptados' = aceptados \cup {m} BY <1>1 DEF Acepta
  <2> QED BY <1>1, <2>1, <2>2
<1>2. \/ aceptados' = aceptados
      \/ \E t \in Hilos, r \in Usuarios, u \in Usuarios, adj \in BOOLEAN :
            Acepta(t, r, u, MensajeNuevo(r, u, adj))
  BY PasoTablas
     DEF Efecto, vars, varsServicio, historia, Registra, DaDeBaja, Desconecta, Conecta,
         SinNodo, Muere, servicio_destroy
<1> QED BY <1>1, <1>2

(* The next number is one further from every other, except from itself; if *)
(* it is the number of a message, that message is the whole range away.    *)
LEMMA DistanciaSiguiente ==
  ASSUME NEW a \in 1..(ModId - 1), NEW b \in 1..(ModId - 1)
  PROVE  /\ Distancia(a, a) = 0
         /\ Distancia(a, b) \in Nat
         /\ Distancia(a, SiguienteId(b)) <= Distancia(a, b) + 1
         /\ SiguienteId(b) = a => Distancia(a, b) = ModId - 2
BY ServicioAssumption DEF Distancia, SiguienteId

(* What a step does to the counter of numbers of r: nothing, one more      *)
(* number together with one more message, or the end or the beginning of   *)
(* the registration.                                                       *)
LEMMA ContadorPaso ==
  ASSUME TypeOK, Efecto, NEW r \in Usuarios
  PROVE  /\ serie' \in Nat /\ serie <= serie'
         /\ \/ UNCHANGED <<registrado[r], alta[r], ultimo_id[r]>>
            \/ /\ UNCHANGED <<registrado[r], alta[r]>> /\ registrado[r]
               /\ ultimo_id'[r] = SiguienteId(ultimo_id[r]) /\ serie' = serie + 1
            \/ ~registrado'[r] /\ alta'[r] = alta[r]
            \/ alta'[r] = alta[r] + 1
<1>0. TipoServicio /\ serie \in Nat
  BY DEF TypeOK, TipoServicio
<1>1. CASE \E u \in Usuarios : Registra(u) \/ DaDeBaja(u) \/ Desconecta(u)
  BY <1>0, <1>1
     DEF Registra, DaDeBaja, Desconecta, NodoInicial, marcar_desconectado, historia,
         TipoServicio
<1>2. CASE \E t \in Hilos, u \in Usuarios, d \in Direcciones : Conecta(t, u, d)
  BY <1>0, <1>2 DEF Conecta, marcar_conectado, historia
<1>3. ASSUME NEW t \in Hilos, NEW q \in Usuarios, NEW u \in Usuarios,
             NEW adj \in BOOLEAN, Acepta(t, q, u, MensajeNuevo(q, u, adj))
      PROVE  /\ serie' = serie + 1 /\ UNCHANGED <<registrado, alta>>
             /\ \/ UNCHANGED ultimo_id[r]
                \/ registrado[r] /\ ultimo_id'[r] = SiguienteId(ultimo_id[r])
  <2> DEFINE m == MensajeNuevo(q, u, adj)
  <2>1. m.id = SiguienteId(ultimo_id[q]) BY <1>0, NuevoTipo
  <2>2. /\ serie' = serie + 1 /\ UNCHANGED <<registrado, alta>> /\ registrado[q]
        /\ ultimo_id' = [ultimo_id EXCEPT ![q] = m.id]
    BY <1>3 DEF Acepta
  <2> HIDE DEF m
  <2> QED BY <1>0, <2>1, <2>2 DEF TipoServicio
<1>4. CASE \E q \in Usuarios : SinNodo(q)
  BY <1>0, <1>4 DEF SinNodo, TipoServicio
<1>5. CASE \E t \in Hilos : Paso(t)
  BY <1>0, <1>5, PasoTablas
     DEF servicio_eliminar_pendiente, marcar_desconectado, tablas, historia
<1>6. CASE Muere
  BY <1>0, <1>6 DEF Muere, servicio_destroy, historia
<1>7. CASE UNCHANGED vars
  BY <1>0, <1>7 DEF vars, varsServicio, tablas, historia
<1> QED BY <1>0, <1>1, <1>2, <1>3, <1>4, <1>5, <1>6, <1>7 DEF Efecto

(* What Numeracion says of a message m, given its sender's registration    *)
(* (reg, al), its counter and how many messages were created.              *)
EnRonda(m, reg, al, ult, n) ==
    /\ m.alta_rem <= al
    /\ reg /\ m.alta_rem = al => ult # 0 /\ Distancia(m.id, ult) <= n - m.texto

(* Numeracion is kept by every step.                                       *)
LEMMA NumeracionPaso ==
  ASSUME TypeOK, TypeOK', Cronologia, Numeracion, Efecto
  PROVE  Numeracion'
<1> DEFINE N(m) == LET r == m.remitente
                   IN  EnRonda(m, registrado[r], alta[r], ultimo_id[r], serie)
           P(m) == LET r == m.remitente
                   IN  EnRonda(m, registrado'[r], alta'[r], ultimo_id'[r], serie')
<1>0. /\ TipoServicio /\ serie \in Nat /\ serie' \in Nat /\ alta \in [Usuarios -> Nat]
      /\ alta' \in [Usuarios -> Nat]
      /\ ultimo_id \in [Usuarios -> 0..(ModId - 1)]
      /\ ultimo_id' \in [Usuarios -> 0..(ModId - 1)]
      /\ \A m \in aceptados : N(m)
      /\ \A m \in aceptados : /\ m.id \in 1..(ModId - 1) /\ m.remitente \in Usuarios
                              /\ m.alta_rem \in Nat /\ m.texto \in Nat
  BY DEF TypeOK, TipoServicio, Numeracion, EnRonda, Mensaje
<1>1. ASSUME NEW m \in aceptados PROVE P(m)
  <2> DEFINE r == m.remitente
  <2>1. r \in Usuarios /\ N(m) /\ serie <= serie' BY <1>0, <1>1, ContadorPaso
  <2>2. ASSUME registrado[r], m.alta_rem = alta[r]
        PROVE  /\ ultimo_id[r] \in 1..(ModId - 1)
               /\ Distancia(m.id, ultimo_id[r]) \in Nat
               /\ Distancia(m.id, ultimo_id[r]) <= serie - m.texto
    <3>1. ultimo_id[r] \in 1..(ModId - 1)
      BY <1>0, <2>1, <2>2, ServicioAssumption DEF EnRonda
    <3> QED BY <1>0, <2>1, <2>2, <3>1, DistanciaSiguiente DEF EnRonda
  <2>3. CASE UNCHANGED <<registrado[r], alta[r], ultimo_id[r]>>
    BY <1>0, <1>1, <2>1, <2>2, <2>3 DEF EnRonda
  <2>4. CASE /\ UNCHANGED <<registrado[r], alta[r]>> /\ registrado[r]
             /\ ultimo_id'[r] = SiguienteId(ultimo_id[r]) /\ serie' = serie + 1
    <3>1. ASSUME m.alta_rem = alta[r]
          PROVE  /\ ultimo_id'[r] # 0
                 /\ Distancia(m.id, ultimo_id'[r]) <= serie' - m.texto
      <4>1. SiguienteId(ultimo_id[r]) \in 1..(ModId - 1)
        BY <2>2, <2>4, <3>1, ServicioAssumption DEF SiguienteId
      <4>2. /\ Distancia(m.id, SiguienteId(ultimo_id[r])) \in Nat
            /\ Distancia(m.id, SiguienteId(ultimo_id[r]))
                   <= Distancia(m.id, ultimo_id[r]) + 1
        BY <1>0, <2>2, <2>4, <3>1, <4>1, DistanciaSiguiente
      <4> QED BY <1>0, <2>2, <2>4, <3>1, <4>1, <4>2
    <3> QED BY <2>1, <2>4, <3>1 DEF EnRonda
  <2>5. CASE ~registrado'[r] /\ alta'[r] = alta[r] BY <2>1, <2>5 DEF EnRonda
  <2>6. CASE alta'[r] = alta[r] + 1 BY <1>0, <1>1, <2>1, <2>6 DEF EnRonda
  <2> QED BY <2>1, <2>3, <2>4, <2>5, <2>6, ContadorPaso
<1>2. ASSUME NEW t \in Hilos, NEW r \in Usuarios, NEW u \in Usuarios, NEW adj \in BOOLEAN,
             NEW m \in Mensaje, m = MensajeNuevo(r, u, adj), Acepta(t, r, u, m)
      PROVE  P(m)
  <2>1. /\ m.id \in 1..(ModId - 1) /\ m.remitente = r
        /\ m.texto = serie + 1 /\ m.alta_rem = alta[r]
    BY <1>0, <1>2, NuevoTipo DEF Mensaje
  <2>2. /\ ultimo_id'[r] = m.id /\ serie' = serie + 1
        /\ UNCHANGED <<registrado, alta>>
    BY <1>0, <1>2 DEF Acepta
  <2>3. Distancia(m.id, m.id) = 0 BY <2>1, DistanciaSiguiente
  <2> QED BY <1>0, <2>1, <2>2, <2>3 DEF EnRonda
<1> HIDE DEF P
<1>3. \A m \in aceptados' : P(m)
  BY <1>1, <1>2, AceptadosPaso
<1> QED BY <1>3 DEF P, EnRonda, Numeracion

(* The counter and the messages agree in every reachable state: see        *)
(* Numeracion. *)
THEOREM NumeracionCorrecta == Spec => []Numeracion
<1>1. Init => Numeracion
  BY DEF Init, servicio_init, Numeracion
<1>2. TypeOK /\ TypeOK' /\ Cronologia /\ Numeracion /\ [Next]_vars => Numeracion'
  BY TodoPasoEsEfecto, NumeracionPaso
<1> QED BY <1>1, <1>2, TipoCorrecto, CronologiaCorrecta, PTL DEF Spec

(* Two messages of one registration with the same number are at least the  *)
(* whole range apart: see ColisionAcotada. *)
THEOREM ColisionAcotadaCorrecta == Spec => []ColisionAcotada
<1>1. Init => ColisionAcotada
  BY DEF Init, servicio_init, ColisionAcotada
<1>2. ASSUME TypeOK, Cronologia, Numeracion, ColisionAcotada, Efecto
      PROVE  ColisionAcotada'
  <2>0. /\ TipoServicio /\ serie \in Nat /\ CronoMensajes
        /\ \A m \in aceptados : /\ m.id \in 1..(ModId - 1) /\ m.remitente \in Usuarios
                                /\ m.texto \in Nat /\ m.texto <= serie
    BY <1>2 DEF TypeOK, TipoServicio, Cronologia, CronoMensajes, Mensaje
  <2>1. ASSUME NEW t \in Hilos, NEW r \in Usuarios, NEW u \in Usuarios,
               NEW adj \in BOOLEAN, NEW o \in Mensaje, o = MensajeNuevo(r, u, adj),
               Acepta(t, r, u, o), aceptados' = aceptados \cup {o}
        PROVE  ColisionAcotada'
    <3>1. /\ o.id = SiguienteId(ultimo_id[r]) /\ o.remitente = r
          /\ o.texto = serie + 1 /\ o.alta_rem = alta[r]
      BY <2>0, <2>1, NuevoTipo
    <3>2. ASSUME NEW m \in aceptados,
                 o.id = m.id, o.remitente = m.remitente, o.alta_rem = m.alta_rem
          PROVE  o.texto - m.texto >= ModId - 1
      <4>1. registrado[r] BY <2>1 DEF Acepta
      <4>2. ultimo_id[r] # 0 /\ Distancia(m.id, ultimo_id[r]) <= serie - m.texto
        BY <1>2, <3>1, <3>2, <4>1 DEF Numeracion
      <4>3. ultimo_id[r] \in 1..(ModId - 1)
        BY <2>0, <4>2, ServicioAssumption DEF TipoServicio
      <4>4. Distancia(m.id, ultimo_id[r]) = ModId - 2
        BY <2>0, <3>1, <3>2, <4>3, DistanciaSiguiente
      <4> QED BY <2>0, <3>1, <3>2, <4>2, <4>4, ServicioAssumption
    <3>3. \A m \in aceptados : ~(m.texto > o.texto)
      BY <2>0, <3>1
    <3>4. ~(o.texto > o.texto) BY <2>0, <3>1
    <3> QED BY <1>2, <2>1, <3>2, <3>3, <3>4 DEF ColisionAcotada
  <2> QED BY <1>2, <2>1, AceptadosPaso DEF ColisionAcotada
<1>3. TypeOK /\ Cronologia /\ Numeracion /\ ColisionAcotada /\ [Next]_vars => ColisionAcotada'
  BY <1>2, TodoPasoEsEfecto
<1> QED
  BY <1>1, <1>3, TipoCorrecto, CronologiaCorrecta, NumeracionCorrecta, PTL DEF Spec
-----------------------------------------------------------------------------
(* Part 3: the order.                                                      *)

(* A message newer than all keeps the order of the list it is added to.    *)
LEMMA AgregarOrden ==
  ASSUME NEW lista \in Seq(Mensaje), NEW msg \in Mensaje, EnOrden(lista),
         \A m \in ToSet(lista) : m.texto < msg.texto
  PROVE  EnOrden(agregar_mensaje(lista, msg))
<1> DEFINE r == agregar_mensaje(lista, msg)
<1>1. /\ Len(r) = Len(lista) + 1 /\ Len(lista) \in Nat
      /\ \A i \in 1..Len(lista) : r[i] = lista[i]
      /\ r[Len(lista) + 1] = msg
      /\ \A i \in 1..Len(lista) : lista[i] \in ToSet(lista)
  BY AppendProperties, LenProperties DEF agregar_mensaje, ToSet
<1> HIDE DEF r
<1> QED BY <1>1 DEF EnOrden, r

(* The first message of a list in order is the oldest.                     *)
LEMMA CabezaOrden ==
  ASSUME NEW lista \in Seq(Mensaje), lista # <<>>, EnOrden(lista)
  PROVE  /\ Head(lista) \in ToSet(lista)
         /\ \A m \in ToSet(lista) : Head(lista).texto <= m.texto
<1>1. /\ Len(lista) \in Nat \ {0} /\ DOMAIN lista = 1..Len(lista)
      /\ Head(lista) = lista[1]
      /\ \A i \in 1..Len(lista) : lista[i] \in Mensaje
  BY LenProperties, EmptySeq, ElementOfSeq
<1>2. \A i \in 1..Len(lista) : lista[i].texto \in Nat
  BY <1>1 DEF Mensaje
<1>3. \A i \in 1..Len(lista) : lista[1].texto <= lista[i].texto
  BY <1>1, <1>2 DEF EnOrden
<1> QED BY <1>1, <1>3 DEF ToSet

(* A removal keeps the order; a message that alone matches is gone after   *)
(* it, and the oldest message, if it matches, is behind all that remain.   *)
LEMMA EliminarOrden ==
  ASSUME NEW lista \in Seq(Mensaje), EnOrden(lista), NEW id, NEW rem, NEW r,
         r = eliminar_mensaje_por_id_y_remitente(lista, id, rem)
  PROVE  /\ EnOrden(r)
         /\ \A m \in ToSet(lista) :
               /\ Coincide(m, id, rem)
               /\ \A o \in ToSet(lista) : Coincide(o, id, rem) => o = m
               => m \notin ToSet(r)
         /\ \A m \in ToSet(lista) :
               /\ Coincide(m, id, rem)
               /\ \A o \in ToSet(lista) : m.texto <= o.texto
               => \A o \in ToSet(r) : m.texto < o.texto
<1>1. /\ DOMAIN lista = 1..Len(lista) /\ Len(lista) \in Nat
      /\ r \in Seq(Mensaje) /\ DOMAIN r = 1..Len(r) /\ Len(r) \in Nat
      /\ \A i \in 1..Len(lista) : lista[i].texto \in Nat
  <2>1. r \in Seq(Mensaje) BY EliminarPropiedades
  <2>2. \A i \in 1..Len(lista) : lista[i] \in Mensaje BY ElementOfSeq
  <2>3. \A i \in 1..Len(lista) : lista[i].texto \in Nat BY <2>2 DEF Mensaje
  <2> QED BY <2>1, <2>3, LenProperties
<1>2. CASE /\ r = lista
           /\ \A i \in 1..Len(lista) : ~Coincide(lista[i], id, rem)
  <2>1. \A m \in ToSet(lista) : ~Coincide(m, id, rem)
    BY <1>1, <1>2 DEF ToSet
  <2>2. EnOrden(r) BY <1>2
  <2>3. \A m \in ToSet(lista) :
           Coincide(m, id, rem) => /\ m \notin ToSet(r)
                                   /\ \A o \in ToSet(r) : m.texto < o.texto
    BY <2>1
  <2> QED BY <2>2, <2>3
<1>3. ASSUME NEW k \in 1..Len(lista),
             Coincide(lista[k], id, rem),
             Len(r) = Len(lista) - 1,
             \A i \in 1..Len(r) : r[i] = IF i < k THEN lista[i] ELSE lista[i + 1]
      PROVE  /\ EnOrden(r)
             /\ \A i \in 1..Len(r) : \E j \in 1..Len(lista) : j # k /\ r[i] = lista[j]
  <2>1. ASSUME NEW i \in 1..Len(r)
        PROVE  \E j \in 1..Len(lista) : j # k /\ r[i] = lista[j]
    <3>1. CASE i < k
      BY <1>1, <1>3, <3>1
    <3>2. CASE ~(i < k)
      <4>1. i + 1 \in 1..Len(lista) /\ i + 1 # k /\ r[i] = lista[i + 1]
        BY <1>1, <1>3, <3>2
      <4> QED BY <4>1
    <3> QED BY <3>1, <3>2
  <2>2. ASSUME NEW i \in 1..Len(r), NEW j \in 1..Len(r), i < j
        PROVE  r[i].texto < r[j].texto
    <3> DEFINE p == IF i < k THEN i ELSE i + 1
               q == IF j < k THEN j ELSE j + 1
    <3>1. /\ p \in 1..Len(lista) /\ q \in 1..Len(lista) /\ p < q
          /\ r[i] = lista[p] /\ r[j] = lista[q]
      BY <1>1, <1>3, <2>2
    <3> HIDE DEF p, q
    <3> QED BY <3>1 DEF EnOrden
  <2> QED BY <2>1, <2>2 DEF EnOrden
<1>4. ASSUME NEW k \in 1..Len(lista),
             Coincide(lista[k], id, rem),
             \A i \in 1..(k - 1) : ~Coincide(lista[i], id, rem),
             EnOrden(r),
             \A i \in 1..Len(r) : \E j \in 1..Len(lista) : j # k /\ r[i] = lista[j],
             NEW m \in ToSet(lista), Coincide(m, id, rem)
      PROVE  /\ (\A o \in ToSet(lista) : Coincide(o, id, rem) => o = m) => m \notin ToSet(r)
             /\ (\A o \in ToSet(lista) : m.texto <= o.texto)
                   => \A o \in ToSet(r) : m.texto < o.texto
  <2>1. PICK p \in 1..Len(lista) : m = lista[p]
    BY <1>1 DEF ToSet
  <2>2. \A i, j \in 1..Len(lista) : lista[i].texto = lista[j].texto => i = j
    BY <1>1 DEF EnOrden
  <2>3. \A o \in ToSet(r) : \E j \in 1..Len(lista) : j # k /\ o = lista[j]
    BY <1>1, <1>4 DEF ToSet
  <2>4. lista[k] \in ToSet(lista) BY <1>1 DEF ToSet
  <2>5. ASSUME \A o \in ToSet(lista) : Coincide(o, id, rem) => o = m
        PROVE  m \notin ToSet(r)
    <3>1. lista[k] = m BY <1>4, <2>4, <2>5
    <3> QED BY <2>2, <2>3, <3>1
  <2>6. ASSUME \A o \in ToSet(lista) : m.texto <= o.texto, NEW o \in ToSet(r)
        PROVE  m.texto < o.texto
    <3>1. PICK j \in 1..Len(lista) : j # k /\ o = lista[j] BY <2>3, <2>6
    <3>2. o \in ToSet(lista) BY <1>1, <3>1 DEF ToSet
    <3>3. 1 \in 1..Len(lista) /\ lista[1] \in ToSet(lista) BY <1>1 DEF ToSet
    <3>4. p = 1
      BY <1>1, <2>1, <2>6, <3>3 DEF EnOrden
    <3>5. k = 1 BY <1>1, <1>4, <2>1, <3>4
    <3> QED BY <1>1, <2>1, <2>2, <2>6, <3>1, <3>2, <3>4, <3>5
  <2> QED BY <2>5, <2>6
<1>5. \/ /\ r = lista
         /\ \A i \in 1..Len(lista) : ~Coincide(lista[i], id, rem)
      \/ \E k \in 1..Len(lista) :
            /\ Coincide(lista[k], id, rem)
            /\ \A i \in 1..(k - 1) : ~Coincide(lista[i], id, rem)
            /\ Len(r) = Len(lista) - 1
            /\ \A i \in 1..Len(r) :
                  r[i] = IF i < k THEN lista[i] ELSE lista[i + 1]
  BY EliminarPropiedades
<1>6. CASE \E k \in 1..Len(lista) :
            /\ Coincide(lista[k], id, rem)
            /\ \A i \in 1..(k - 1) : ~Coincide(lista[i], id, rem)
            /\ Len(r) = Len(lista) - 1
            /\ \A i \in 1..Len(r) :
                  r[i] = IF i < k THEN lista[i] ELSE lista[i + 1]
  <2>1. PICK k \in 1..Len(lista) :
            /\ Coincide(lista[k], id, rem)
            /\ \A i \in 1..(k - 1) : ~Coincide(lista[i], id, rem)
            /\ Len(r) = Len(lista) - 1
            /\ \A i \in 1..Len(r) :
                  r[i] = IF i < k THEN lista[i] ELSE lista[i + 1]
    BY <1>6
  <2>2. /\ EnOrden(r)
        /\ \A i \in 1..Len(r) : \E j \in 1..Len(lista) : j # k /\ r[i] = lista[j]
    BY <1>3, <2>1
  <2> QED BY <1>4, <2>1, <2>2
<1> QED BY <1>2, <1>5, <1>6
-----------------------------------------------------------------------------
(* No message comes back to a list: what a list holds after a step it held *)
(* before, or it was accepted in that step and is the newest of all.       *)
LEMMA NadaVuelve ==
  ASSUME TypeOK, TypeOK', Cronologia, Efecto, NEW u \in Usuarios,
         NEW m \in ToSet(pendientes'[u])
  PROVE  \/ m \in ToSet(pendientes[u])
         \/ m \notin aceptados /\ m.texto = serie + 1 /\ serie' = serie + 1
<1>0. /\ TipoServicio /\ serie \in Nat /\ CronoMensajes
      /\ pendientes[u] \in Seq(Mensaje) /\ aceptados \subseteq Mensaje
      /\ ~registrado'[u] => pendientes'[u] = <<>>
  BY DEF TypeOK, TipoServicio, Cronologia
<1>1. ToSet(<<>>) = {}
  BY DEF ToSet
<1>2. registrado'[u]
  BY <1>0, <1>1
<1>3. ASSUME NEW t \in Hilos, NEW r \in Usuarios, NEW adj \in BOOLEAN,
             Acepta(t, r, u, MensajeNuevo(r, u, adj)),
             pendientes'[u] = agregar_mensaje(pendientes[u], MensajeNuevo(r, u, adj))
      PROVE  \/ m \in ToSet(pendientes[u])
             \/ m \notin aceptados /\ m.texto = serie + 1 /\ serie' = serie + 1
  <2> DEFINE n == MensajeNuevo(r, u, adj)
  <2>1. n \in Mensaje /\ n.texto = serie + 1 BY <1>0, NuevoTipo
  <2>2. serie' = serie + 1 BY <1>3 DEF Acepta
  <2>3. m \in ToSet(pendientes[u]) \/ m = n
    BY <1>0, <1>3, <2>1, AgregarConjunto
  <2> HIDE DEF n
  <2>4. n \notin aceptados
    BY <1>0, <2>1 DEF CronoMensajes
  <2> QED BY <2>1, <2>2, <2>3, <2>4
<1>4. ASSUME NEW id, NEW rem,
             pendientes'[u] = eliminar_mensaje_por_id_y_remitente(pendientes[u], id, rem)
      PROVE  m \in ToSet(pendientes[u])
  BY <1>0, <1>4, EliminarConjunto
<1> QED BY <1>1, <1>2, <1>3, <1>4, ColaPaso

(* ListasEnOrden is kept by every step: an insertion puts the newest       *)
(* message last, and a removal closes the gap.                             *)
LEMMA ListasPaso ==
  ASSUME TypeOK, TypeOK', Cronologia, ListasEnOrden, Efecto
  PROVE  ListasEnOrden'
<1> SUFFICES ASSUME NEW u \in Usuarios PROVE EnOrden(pendientes'[u])
  BY DEF ListasEnOrden, EnOrden
<1>0. /\ TipoServicio /\ serie \in Nat
      /\ pendientes[u] \in Seq(Mensaje) /\ EnOrden(pendientes[u])
      /\ ~registrado'[u] => pendientes'[u] = <<>>
      /\ \A m \in ToSet(pendientes[u]) : m.texto <= serie /\ m.texto \in Nat
  <2>1. /\ TipoServicio /\ serie \in Nat /\ pendientes[u] \in Seq(Mensaje)
        /\ ~registrado'[u] => pendientes'[u] = <<>>
    BY DEF TypeOK, TipoServicio
  <2>2. \A m \in aceptados : m \in Mensaje /\ m.texto <= serie
    BY DEF TypeOK, TipoServicio, Cronologia, CronoMensajes
  <2>3. \A m \in ToSet(pendientes[u]) : m \in Mensaje /\ m.texto <= serie
    BY <2>2 DEF Cronologia, CronoTablas
  <2>4. \A m \in ToSet(pendientes[u]) : m.texto \in Nat
    BY <2>3 DEF Mensaje
  <2> QED BY <2>1, <2>3, <2>4 DEF ListasEnOrden
<1>1. CASE pendientes'[u] = <<>>
  BY <1>1, EmptySeq DEF EnOrden
<1>2. CASE pendientes'[u] = pendientes[u]
  BY <1>0, <1>2
<1>3. ASSUME NEW r \in Usuarios, NEW adj \in BOOLEAN,
             pendientes'[u] = agregar_mensaje(pendientes[u], MensajeNuevo(r, u, adj))
      PROVE  EnOrden(pendientes'[u])
  <2> DEFINE n == MensajeNuevo(r, u, adj)
  <2>1. n \in Mensaje /\ n.texto = serie + 1 BY <1>0, NuevoTipo
  <2> HIDE DEF n
  <2>2. \A m \in ToSet(pendientes[u]) : m.texto < n.texto BY <1>0, <2>1
  <2>3. EnOrden(agregar_mensaje(pendientes[u], n)) BY <1>0, <2>1, <2>2, AgregarOrden
  <2> QED BY <1>3, <2>3 DEF n
<1>4. ASSUME NEW id, NEW rem,
             pendientes'[u] = eliminar_mensaje_por_id_y_remitente(pendientes[u], id, rem)
      PROVE  EnOrden(pendientes'[u])
  BY <1>0, <1>4, EliminarOrden
<1> QED BY <1>0, <1>1, <1>2, <1>3, <1>4, ColaPaso
-----------------------------------------------------------------------------
(* How the thread s ends: with the process; because its user is not        *)
(* connected or has nothing pending; or because its only delivery, which   *)
(* was not a drain's, is over.                                             *)
Termina(s) ==
    /\ pc'[s] = "libre"
    /\ \/ Muere
       \/ pc[s] = "consulta" /\ ~conectado[hilo[s].usuario]
       \/ pc[s] = "bucle" /\ ~HayPendientes(hilo[s].usuario)
       \/ pc[s] \in Retirado /\ ~hilo[s].drena
       \/ pc[s] = "fuerza" /\ ~hilo[s].drena /\ FuerzaDesconexion(s)

(* How the thread s begins: a drain, or the delivery of a new message.     *)
Empieza(s) ==
    /\ pc[s] = "libre"
    /\ \/ /\ pc'[s] = "consulta"
          /\ hilo'[s].previo = 0 /\ hilo'[s].drena
       \/ /\ pc'[s] = "entrega"
          /\ hilo'[s].previo = 0 /\ ~hilo'[s].drena /\ hilo'[s].msg.vivo

(* How the thread s goes on.                                               *)
Sigue(s) ==
    /\ hilo'[s].usuario = hilo[s].usuario /\ hilo'[s].drena = hilo[s].drena
    /\ \/ /\ pc[s] = "consulta" /\ pc'[s] = "bucle"
          /\ hilo'[s].previo = hilo[s].previo
       \/ /\ pc[s] = "bucle" /\ pc'[s] = "entrega"
          /\ HayPendientes(hilo[s].usuario) /\ UNCHANGED varsServicio
          /\ hilo'[s].msg = Head(pendientes[hilo[s].usuario])
          /\ hilo'[s].previo = hilo[s].previo
       \/ /\ pc[s] = "entrega" /\ pc'[s] \in {"borra", "fuerza"}
          /\ hilo'[s] = hilo[s]
       \/ /\ pc[s] = "borra" /\ pc'[s] = "ack" /\ BorraPendiente(s)
          /\ hilo'[s] = hilo[s]
       \/ /\ pc[s] = "ack" /\ pc'[s] = "envia"
          /\ conectado[hilo[s].msg.remitente] /\ UNCHANGED varsServicio
          /\ hilo'[s].rem = dir[hilo[s].msg.remitente]
          /\ hilo'[s].msg = hilo[s].msg /\ hilo'[s].previo = hilo[s].previo
       \/ /\ pc[s] \in Retirado /\ pc'[s] = "consulta" /\ hilo[s].drena
          /\ hilo'[s].previo = hilo[s].msg.texto
       \/ /\ pc[s] = "fuerza" /\ pc'[s] = "consulta" /\ hilo[s].drena
          /\ hilo'[s].previo = hilo[s].previo

(* A step leaves a thread as it was, begins it, takes it on or ends it.    *)
LEMMA HiloPaso ==
  ASSUME TypeOK, Efecto, NEW s \in Hilos
  PROVE  \/ pc'[s] = pc[s] /\ hilo'[s] = hilo[s]
         \/ Empieza(s) \/ Sigue(s) \/ Termina(s)
<1>0. /\ pc \in [Hilos -> Puntos] /\ hilo \in [Hilos -> Tarea \cup {NoHilo}]
      /\ pc[s] # "libre" => hilo[s] \in Tarea
      /\ TipoServicio
  BY DEF TypeOK, TipoHilos, Locales
<1>1. ASSUME NEW t \in Hilos, NEW p, NEW h, Lanza(t, p, h)
      PROVE  /\ s = t => pc'[s] = p /\ hilo'[s] = h
             /\ s # t => pc'[s] = pc[s] /\ hilo'[s] = hilo[s]
  BY <1>0, <1>1 DEF Lanza, Salta
<1>2. CASE UNCHANGED <<pc, hilo>>
  BY <1>2
<1>3. ASSUME NEW t \in Hilos, NEW u \in Usuarios, NEW d \in Direcciones, Conecta(t, u, d)
      PROVE  (pc'[s] = pc[s] /\ hilo'[s] = hilo[s]) \/ Empieza(s)
  <2> DEFINE h == [usuario |-> u, msg |-> SinMsg, dir |-> SinDir, rem |-> SinDir,
                   drena |-> TRUE, previo |-> 0]
  <2>1. pc[t] = "libre" /\ Lanza(t, "consulta", h) BY <1>3 DEF Conecta, Ocupa
  <2>2. h.previo = 0 /\ h.drena OBVIOUS
  <2> HIDE DEF h
  <2> QED BY <1>1, <2>1, <2>2 DEF Empieza
<1>4. ASSUME NEW t \in Hilos, NEW r \in Usuarios, NEW u \in Usuarios,
             NEW adj \in BOOLEAN, Acepta(t, r, u, MensajeNuevo(r, u, adj))
      PROVE  (pc'[s] = pc[s] /\ hilo'[s] = hilo[s]) \/ Empieza(s)
  <2> DEFINE m == MensajeNuevo(r, u, adj)
             h == [usuario |-> u, msg |-> m, dir |-> dir[u], rem |-> SinDir,
                   drena |-> FALSE, previo |-> 0]
  <2>1. m.vivo = conectado[u] BY <1>0, NuevoTipo
  <2>2. IF conectado[u] THEN pc[t] = "libre" /\ Lanza(t, "entrega", h)
        ELSE UNCHANGED <<pc, hilo>>
    BY <1>4 DEF Acepta, Ocupa
  <2> HIDE DEF m
  <2>3. h.previo = 0 /\ ~h.drena /\ h.msg = m OBVIOUS
  <2> HIDE DEF h
  <2> QED BY <1>1, <1>2, <2>1, <2>2, <2>3 DEF Empieza
<1>5. ASSUME NEW t \in Hilos, ConsultaConexion(t)
      PROVE  (pc'[s] = pc[s] /\ hilo'[s] = hilo[s]) \/ Sigue(s) \/ Termina(s)
  <2>1. pc[t] = "consulta" /\ hilo[t] \in Tarea /\ hilo[t].usuario \in Usuarios
    BY <1>0, <1>5 DEF ConsultaConexion, TypeOK, TipoHilos, Locales, Tarea
  <2>2. PICK d : IF d = SinDir THEN Acaba(t) /\ ~conectado[hilo[t].usuario]
                 ELSE Lanza(t, "bucle", [hilo[t] EXCEPT !.dir = d])
    BY <1>0, <1>5, <2>1 DEF ConsultaConexion, servicio_get_info_conexion, TipoServicio,
                            buscar_usuario
  <2> DEFINE h == [hilo[t] EXCEPT !.dir = d]
  <2>3. /\ h.usuario = hilo[t].usuario /\ h.drena = hilo[t].drena
        /\ h.previo = hilo[t].previo
    BY <2>1 DEF Tarea
  <2> HIDE DEF h
  <2>4. CASE d = SinDir
    BY <1>1, <2>1, <2>2, <2>4 DEF Acaba, Termina
  <2>5. CASE d # SinDir
    BY <1>1, <2>1, <2>2, <2>3, <2>5 DEF Sigue, h
  <2> QED BY <2>4, <2>5
<1>6. ASSUME NEW t \in Hilos, SiguientePendiente(t)
      PROVE  (pc'[s] = pc[s] /\ hilo'[s] = hilo[s]) \/ Sigue(s) \/ Termina(s)
  <2>1. /\ pc[t] = "bucle" /\ hilo[t] \in Tarea /\ UNCHANGED varsServicio
    BY <1>0, <1>6 DEF SiguientePendiente, TypeOK, TipoHilos, Locales
  <2> DEFINE u == hilo[t].usuario
             h == [hilo[t] EXCEPT !.msg = Head(pendientes[u])]
  <2>2. /\ h.usuario = u /\ h.drena = hilo[t].drena
        /\ h.previo = hilo[t].previo /\ h.msg = Head(pendientes[u])
    BY <2>1 DEF Tarea
  <2>3. IF HayPendientes(u) THEN Lanza(t, "entrega", h) ELSE Acaba(t)
    BY <1>6 DEF SiguientePendiente, servicio_obtener_primer_pendiente
  <2> HIDE DEF h
  <2>4. CASE HayPendientes(u)
    BY <1>1, <2>1, <2>2, <2>3, <2>4 DEF Sigue
  <2>5. CASE ~HayPendientes(u)
    BY <1>1, <2>1, <2>3, <2>5 DEF Acaba, Termina
  <2> QED BY <2>4, <2>5
<1>7. ASSUME NEW t \in Hilos, Entrega(t) \/ FallaEntrega(t) \/ BorraPendiente(t)
      PROVE  (pc'[s] = pc[s] /\ hilo'[s] = hilo[s]) \/ Sigue(s)
  BY <1>0, <1>7 DEF Entrega, FallaEntrega, BorraPendiente, Salta, Sigue
<1>8. ASSUME NEW t \in Hilos, NEW n, Vuelve(t, n),
             \/ pc[t] \in Retirado /\ n = hilo[t].msg.texto
             \/ pc[t] = "fuerza" /\ n = hilo[t].previo /\ FuerzaDesconexion(t)
      PROVE  (pc'[s] = pc[s] /\ hilo'[s] = hilo[s]) \/ Sigue(s) \/ Termina(s)
  <2>1. hilo[t] \in Tarea
    BY <1>8 DEF TypeOK, TipoHilos, Locales
  <2> DEFINE h == [hilo[t] EXCEPT !.msg = SinMsg, !.rem = SinDir, !.previo = n]
  <2>2. h.usuario = hilo[t].usuario /\ h.drena = hilo[t].drena /\ h.previo = n
    BY <2>1 DEF Tarea
  <2>3. IF hilo[t].drena THEN Lanza(t, "consulta", h) ELSE Acaba(t)
    BY <1>8 DEF Vuelve
  <2> HIDE DEF h
  <2>4. CASE hilo[t].drena
    BY <1>1, <1>8, <2>2, <2>3, <2>4 DEF Sigue
  <2>5. CASE ~hilo[t].drena
    BY <1>1, <1>8, <2>3, <2>5 DEF Acaba, Termina
  <2> QED BY <2>4, <2>5
<1>9. ASSUME NEW t \in Hilos,
             \/ \E escrito \in BOOLEAN : EnviaAck(t, escrito)
             \/ FuerzaDesconexion(t)
      PROVE  (pc'[s] = pc[s] /\ hilo'[s] = hilo[s]) \/ Sigue(s) \/ Termina(s)
  BY <1>8, <1>9 DEF EnviaAck, FuerzaDesconexion
<1>10. ASSUME NEW t \in Hilos, BuscaRemitente(t)
       PROVE  (pc'[s] = pc[s] /\ hilo'[s] = hilo[s]) \/ Sigue(s) \/ Termina(s)
  <2>1. pc[t] = "ack" /\ hilo[t] \in Tarea /\ UNCHANGED varsServicio
    BY <1>10 DEF BuscaRemitente, TypeOK, TipoHilos, Locales
  <2> DEFINE h == [hilo[t] EXCEPT !.rem = dir[hilo[t].msg.remitente]]
  <2>2. /\ h.usuario = hilo[t].usuario /\ h.drena = hilo[t].drena
        /\ h.previo = hilo[t].previo /\ h.msg = hilo[t].msg
        /\ h.rem = dir[hilo[t].msg.remitente]
    BY <2>1 DEF Tarea
  <2>3. \/ conectado[hilo[t].msg.remitente] /\ Lanza(t, "envia", h)
        \/ Vuelve(t, hilo[t].msg.texto)
    BY <1>10 DEF BuscaRemitente, servicio_get_info_conexion
  <2> HIDE DEF h
  <2>4. CASE conectado[hilo[t].msg.remitente] /\ Lanza(t, "envia", h)
    BY <1>1, <2>1, <2>2, <2>4 DEF Sigue
  <2> QED BY <1>8, <2>1, <2>3, <2>4
<1>11. CASE Muere
  BY <1>11 DEF Muere, Termina
<1> QED
  BY <1>2, <1>3, <1>4, <1>5, <1>6, <1>7, <1>9, <1>10, <1>11
     DEF Efecto, Paso, vars, Registra, DaDeBaja, Desconecta, SinNodo
-----------------------------------------------------------------------------
(* It writes an ACK to a socket in one place only, at the address that it  *)
(* has copied.                                                             *)
LEMMA PasoAcks ==
  ASSUME NEW t \in Hilos, Paso(t)
  PROVE  \/ acks' = acks
         \/ /\ pc[t] = "envia"
            /\ acks' = acks \cup {[msg |-> hilo[t].msg, dir |-> hilo[t].rem]}
<1>1. CASE \E escrito \in BOOLEAN : EnviaAck(t, escrito)
  BY <1>1 DEF EnviaAck
<1> QED
  BY <1>1 DEF Paso, ConsultaConexion, SiguientePendiente, Entrega, FallaEntrega,
              BorraPendiente, BuscaRemitente, FuerzaDesconexion, red

(* The address of a sender is that of its registration (Cronologia), which *)
(* is not before that of the message (Numeracion): so it is when a thread  *)
(* copies it, and the copy stays so while the tables change under it.      *)
LEMMA CopiaDelRemitente ==
  ASSUME TypeOK, TypeOK', Cronologia, Numeracion, AckNoRetrocede, Efecto,
         NEW s \in Hilos, pc'[s] = "envia"
  PROVE  hilo'[s].msg.alta_rem <= hilo'[s].rem.alta
<1>1. hilo'[s].msg.remitente \in Usuarios
  BY DEF TypeOK, TipoHilos, Locales, Mensaje
<1>2. CASE pc'[s] = pc[s] /\ hilo'[s] = hilo[s]
  BY <1>2 DEF AckNoRetrocede
<1>3. CASE Sigue(s)
  <2> DEFINE m == hilo[s].msg
             r == m.remitente
  <2>1. /\ pc[s] = "ack" /\ conectado[r]
        /\ hilo'[s].rem = dir[r] /\ hilo'[s].msg = m
    BY <1>3 DEF Sigue
  <2>2. m \in aceptados /\ r \in Usuarios
    BY <1>1, <2>1 DEF Cronologia, CronoHilos, Copias
  <2>3. dir[r].alta = alta[r]
    BY <2>1, <2>2 DEF Cronologia, CronoTablas
  <2>4. m.alta_rem <= alta[r] BY <2>2 DEF Numeracion
  <2> HIDE DEF m, r
  <2> QED BY <2>1, <2>2, <2>3, <2>4 DEF r
<1> QED BY <1>2, <1>3, HiloPaso DEF Empieza, Termina

(* An ACK goes to the registration that sent the message or to a later     *)
(* one, though the address is copied before it is used: AckNoRetrocede.    *)
THEOREM AckNoRetrocedeCorrecta == Spec => []AckNoRetrocede
<1>1. Init => AckNoRetrocede
  BY DEF Init, AckNoRetrocede
<1>2. TypeOK /\ TypeOK' /\ Cronologia /\ Numeracion /\ AckNoRetrocede /\ [Next]_vars
          => AckNoRetrocede'
  <2> SUFFICES ASSUME TypeOK, TypeOK', Cronologia, Numeracion, AckNoRetrocede, Efecto
               PROVE  AckNoRetrocede'
    BY TodoPasoEsEfecto
  <2>1. ASSUME NEW a \in acks' PROVE a.msg.alta_rem <= a.dir.alta
    <3>1. CASE a \in acks BY <3>1 DEF AckNoRetrocede
    <3>2. CASE a \notin acks
      <4>1. PICK t \in Hilos : Paso(t)
        BY <2>1, <3>2 DEF Efecto, vars, red, Registra, DaDeBaja, Desconecta, Conecta,
                          Acepta, SinNodo, Muere
      <4>2. pc[t] = "envia" /\ a = [msg |-> hilo[t].msg, dir |-> hilo[t].rem]
        BY <2>1, <3>2, <4>1, PasoAcks
      <4>3. a.msg = hilo[t].msg /\ a.dir = hilo[t].rem BY <4>2
      <4> QED BY <4>2, <4>3 DEF AckNoRetrocede
    <3> QED BY <3>1, <3>2
  <2> QED BY <2>1, CopiaDelRemitente DEF AckNoRetrocede
<1> QED
  BY <1>1, <1>2, TipoCorrecto, CronologiaCorrecta, NumeracionCorrecta, PTL DEF Spec
-----------------------------------------------------------------------------
(* A message that left its list does not come back.                        *)
LEMMA NoVuelve ==
  ASSUME TypeOK, TypeOK', Cronologia, Efecto, NEW m \in aceptados, ~Pendiente(m)
  PROVE  ~Pendiente(m)'
<1>1. m.destinatario \in Usuarios
  BY DEF TypeOK, TipoServicio, Mensaje
<1> QED BY <1>1, NadaVuelve DEF Pendiente

(* servicio_eliminar_pendiente takes away the message that the thread      *)
(* transmitted, unless another one carries its number and its sender; and  *)
(* of a list whose messages were not older, it leaves newer ones.          *)
LEMMA BorraQuita ==
  ASSUME TypeOK, Cronologia, ListasEnOrden, NEW t \in Hilos, BorraPendiente(t)
  PROVE  LET m == hilo[t].msg
         IN  /\ ~Colisiona(m) => m \notin ToSet(pendientes'[hilo[t].usuario])
             /\ (\A o \in ToSet(pendientes[hilo[t].usuario]) : m.texto <= o.texto)
                  => \A o \in ToSet(pendientes'[hilo[t].usuario]) : m.texto < o.texto
<1> DEFINE u == hilo[t].usuario
           m == hilo[t].msg
           lista == pendientes[u]
           r == eliminar_mensaje_por_id_y_remitente(lista, m.id, m.remitente)
<1>1. /\ u \in Usuarios /\ lista \in Seq(Mensaje) /\ EnOrden(lista)
      /\ m \in aceptados /\ m.destinatario = u
  <2>1. pc[t] = "borra" BY DEF BorraPendiente
  <2>2. hilo[t] \in Tarea /\ u \in Usuarios
    BY <2>1 DEF TypeOK, TipoHilos, Locales, Tarea
  <2>3. m \in aceptados /\ m.destinatario = u
    BY <2>1 DEF Cronologia, CronoHilos, Copias
  <2> QED BY <2>2, <2>3 DEF TypeOK, TipoServicio, ListasEnOrden
<1>2. /\ pendientes'[u] = IF registrado[u] THEN r ELSE lista
      /\ ~registrado[u] => lista = <<>>
  BY <1>1 DEF BorraPendiente, servicio_eliminar_pendiente, buscar_usuario, TypeOK,
              TipoServicio
<1>3. \A o \in ToSet(lista) : o \in aceptados /\ o.destinatario = u
  BY <1>1 DEF Cronologia, CronoTablas
<1>4. \A o \in aceptados : o \in Mensaje /\ (o.texto = m.texto => o = m)
  BY <1>1 DEF Cronologia, CronoMensajes, TypeOK, TipoServicio
<1>5. m.texto \in Nat /\ \A o \in ToSet(lista) : o.texto \in Nat
  BY <1>1, <1>3, <1>4 DEF Mensaje
<1>6. Coincide(m, m.id, m.remitente) BY DEF Coincide
<1>7. ToSet(<<>>) = {} BY DEF ToSet
<1>8. /\ ToSet(r) \subseteq ToSet(lista)
  BY <1>1, EliminarConjunto
<1> HIDE DEF u, m, lista
<1>9. ASSUME ~Colisiona(m) PROVE m \notin ToSet(pendientes'[u])
  <2>1. \A o \in ToSet(lista) : Coincide(o, m.id, m.remitente) => o = m
    BY <1>1, <1>3, <1>4, <1>9 DEF Colisiona, Coincide
  <2>2. m \in ToSet(lista) => m \notin ToSet(r)
    <3> HIDE DEF r
    <3> QED BY <1>1, <1>6, <2>1, EliminarOrden DEF r
  <2> QED BY <1>2, <1>7, <1>8, <2>2
<1>10. ASSUME \A o \in ToSet(lista) : m.texto <= o.texto
       PROVE  \A o \in ToSet(pendientes'[u]) : m.texto < o.texto
  <2>1. CASE m \in ToSet(lista)
    <3>1. \A o \in ToSet(r) : m.texto < o.texto
      <4> HIDE DEF r
      <4> QED BY <1>1, <1>6, <1>10, <2>1, EliminarOrden DEF r
    <3> QED BY <1>2, <1>7, <3>1
  <2>2. CASE m \notin ToSet(lista)
    <3>1. \A o \in ToSet(lista) : m.texto < o.texto
      BY <1>3, <1>4, <1>5, <1>10, <2>2
    <3> QED BY <1>2, <1>8, <3>1
  <2> QED BY <2>1, <2>2
<1> QED BY <1>9, <1>10 DEF u, m, lista

(* What is ahead of a thread stays ahead of it while the thread stays      *)
(* where it is: a message that arrives is the newest.                      *)
LEMMA AvanceQueda ==
  ASSUME TypeOK, TypeOK', Cronologia, HilosAvanzan, Efecto,
         NEW s \in Hilos, pc[s] # "libre"
  PROVE  /\ hilo[s].previo <= serie'
         /\ Avance(pc[s], hilo[s], ToSet(pendientes'[hilo[s].usuario]))
         /\ pc[s] \in Retirado => hilo[s].msg.texto <= serie'
<1> DEFINE u == hilo[s].usuario
<1>1. /\ u \in Usuarios /\ hilo[s].previo \in Nat
      /\ hilo[s].previo <= serie
      /\ Avance(pc[s], hilo[s], ToSet(pendientes[u]))
      /\ serie \in Nat /\ serie' \in Nat /\ serie <= serie'
  BY Monotonia DEF TypeOK, TipoServicio, TipoHilos, Locales, Tarea, HilosAvanzan
<1>2. pc[s] \in EnMano => hilo[s].msg \in aceptados
  BY DEF Cronologia, CronoHilos, Copias
<1>3. \A m \in aceptados : m \in Mensaje /\ m.texto <= serie
  BY DEF TypeOK, TipoServicio, Cronologia, CronoMensajes
<1>4. pc[s] \in EnMano =>
         hilo[s].msg.texto \in Nat /\ hilo[s].msg.texto <= serie
  BY <1>2, <1>3 DEF Mensaje
<1>5. ASSUME NEW m \in ToSet(pendientes'[u])
      PROVE  m \in ToSet(pendientes[u]) \/ m.texto = serie + 1
  BY <1>1, <1>5, NadaVuelve
<1> HIDE DEF u
<1> QED BY <1>1, <1>4, <1>5 DEF Avance, u

(* HilosAvanzan is kept by every step.                                     *)
LEMMA HilosAvanzanPaso ==
  ASSUME TypeOK, TypeOK', Cronologia, Cronologia', ListasEnOrden, HilosAvanzan, Efecto
  PROVE  HilosAvanzan'
<1> SUFFICES ASSUME NEW s \in Hilos, pc'[s] # "libre"
             PROVE  /\ hilo'[s].previo <= serie'
                    /\ Avance(pc'[s], hilo'[s], ToSet(pendientes'[hilo'[s].usuario]))
  BY DEF HilosAvanzan, Avance
<1>0. serie' \in Nat
  BY DEF TypeOK, TipoServicio
<1>1. CASE pc'[s] = pc[s] /\ hilo'[s] = hilo[s]
  BY <1>1, AvanceQueda
<1>2. CASE Empieza(s)
  <2> DEFINE u == hilo'[s].usuario
  <2>1. u \in Usuarios /\ hilo'[s].previo = 0
    BY <1>2 DEF Empieza, TypeOK, TipoHilos, Locales, Tarea
  <2>2. \A m \in ToSet(pendientes'[u]) : m \in Mensaje
    BY <2>1 DEF Cronologia, CronoTablas, TypeOK, TipoServicio
  <2>3. \A m \in ToSet(pendientes'[u]) : 0 < m.texto
    BY <2>2 DEF Mensaje
  <2>4. pc'[s] = "entrega" => 0 < hilo'[s].msg.texto
    BY DEF TypeOK, TipoHilos, Locales, Mensaje
  <2> HIDE DEF u
  <2> QED BY <1>0, <1>2, <2>1, <2>3, <2>4 DEF Empieza, Avance, u
<1>3. CASE Sigue(s)
  <2> DEFINE u == hilo[s].usuario
  <2>1. /\ pc[s] # "libre" /\ hilo'[s].usuario = u /\ hilo'[s].drena = hilo[s].drena
    BY <1>3 DEF Sigue
  <2>2. /\ u \in Usuarios /\ hilo[s].drena \in BOOLEAN
    BY <2>1 DEF TypeOK, TipoHilos, Locales, Tarea
  <2>3. /\ hilo[s].previo <= serie'
        /\ Avance(pc[s], hilo[s], ToSet(pendientes'[u]))
        /\ pc[s] \in Retirado => hilo[s].msg.texto <= serie'
    BY <2>1, AvanceQueda
  <2> DEFINE lista == ToSet(pendientes'[u])
  <2>4. CASE pc[s] \in {"consulta", "fuerza"} \cup Retirado
    BY <1>3, <2>1, <2>3, <2>4 DEF Sigue, Avance
  <2>5. CASE pc[s] = "bucle"
    <3>1. /\ pc'[s] = "entrega" /\ pendientes[u] # <<>> /\ pendientes' = pendientes
          /\ hilo'[s].msg = Head(pendientes[u]) /\ hilo'[s].previo = hilo[s].previo
      BY <1>3, <2>5 DEF Sigue, HayPendientes, varsServicio, tablas
    <3>2. /\ Head(pendientes[u]) \in lista
          /\ \A m \in lista : Head(pendientes[u]).texto <= m.texto
      BY <2>2, <3>1, CabezaOrden DEF TypeOK, TipoServicio, ListasEnOrden
    <3> QED BY <2>1, <2>3, <3>1, <3>2 DEF Avance
  <2>6. CASE pc[s] = "entrega"
    BY <1>3, <2>1, <2>3, <2>6 DEF Sigue, Avance
  <2>7. CASE pc[s] = "borra"
    <3>1. pc'[s] = "ack" /\ BorraPendiente(s) /\ hilo'[s] = hilo[s]
      BY <1>3, <2>7 DEF Sigue
    <3>2. hilo[s].drena => \A o \in ToSet(pendientes[u]) : hilo[s].msg.texto <= o.texto
      BY <2>7 DEF HilosAvanzan, Avance
    <3>3. hilo[s].drena => \A o \in lista : hilo[s].msg.texto < o.texto
      BY <3>1, <3>2, BorraQuita
    <3> QED BY <2>1, <2>3, <2>7, <3>1, <3>3 DEF Avance
  <2> QED BY <1>3, <2>4, <2>5, <2>6, <2>7 DEF Sigue
<1> QED BY <1>1, <1>2, <1>3, HiloPaso DEF Termina

(* Whoever was ahead of an accepted message is still ahead of it.          *)
LEMMA PrecedidoQueda ==
  ASSUME TypeOK, TypeOK', Cronologia, Efecto, NEW m \in aceptados, Precedido(m)
  PROVE  Precedido(m)'
<1> SUFFICES ASSUME NEW o \in aceptados',
                    o.destinatario = m.destinatario, o.alta_dest = m.alta_dest,
                    o.texto < m.texto, ~Colisiona(o)'
             PROVE  Transmitido(o)'
  BY DEF Precedido
<1>1. m.texto <= serie /\ m.texto \in Nat /\ serie \in Nat
  BY DEF TypeOK, TipoServicio, Cronologia, CronoMensajes, Mensaje
<1>2. o \in aceptados
  <2>1. ASSUME o \notin aceptados PROVE o.texto = serie + 1
    <3>1. PICK r \in Usuarios, u \in Usuarios, adj \in BOOLEAN : o = MensajeNuevo(r, u, adj)
      BY <2>1, AceptadosPaso
    <3> QED BY <3>1, NuevoTipo DEF TypeOK
  <2> QED BY <1>1, <2>1
<1>3. ~Colisiona(o) BY HistoriaQueda
<1>4. Transmitido(o) BY <1>2, <1>3 DEF Precedido
<1> QED BY <1>4, HistoriaQueda

(* HilosEnTurno is kept by every step: a drain takes the first of its      *)
(* list, and what was ahead of it went out, since SinPerdida leaves it no  *)
(* other way to be missing.                                                *)
LEMMA HilosEnTurnoPaso ==
  ASSUME TypeOK, TypeOK', Cronologia, Cronologia', SinPerdida, ListasEnOrden,
         HilosEnTurno, Efecto
  PROVE  HilosEnTurno'
<1> SUFFICES ASSUME NEW s \in Hilos, pc'[s] = "entrega", ~hilo'[s].msg.vivo,
                    NEW m, m = hilo'[s].msg
             PROVE  Precedido(m)'
  BY DEF HilosEnTurno, Precedido, Colisiona, Transmitido
<1>1. CASE pc'[s] = pc[s] /\ hilo'[s] = hilo[s]
  <2>1. m \in aceptados /\ Precedido(m)
    BY <1>1 DEF Cronologia, CronoHilos, Copias, HilosEnTurno
  <2> QED BY <2>1, PrecedidoQueda
<1>2. CASE Sigue(s)
  <2> DEFINE u == hilo[s].usuario
  <2>1. /\ pc[s] = "bucle" /\ registrado[u] /\ pendientes[u] # <<>>
        /\ m = Head(pendientes[u])
    BY <1>2 DEF Sigue, HayPendientes, buscar_usuario
  <2>2. /\ u \in Usuarios /\ pendientes[u] \in Seq(Mensaje) /\ EnOrden(pendientes[u])
    BY <2>1 DEF TypeOK, TipoServicio, TipoHilos, Locales, Tarea, ListasEnOrden
  <2>3. /\ m \in ToSet(pendientes[u])
        /\ \A o \in ToSet(pendientes[u]) : m.texto <= o.texto
    BY <2>1, <2>2, CabezaOrden
  <2>4. m \in aceptados /\ m.destinatario = u /\ m.alta_dest = alta[u]
    BY <2>2, <2>3 DEF Cronologia, CronoTablas
  <2>5. ASSUME NEW o \in aceptados,
               o.destinatario = m.destinatario, o.alta_dest = m.alta_dest,
               o.texto < m.texto, ~Colisiona(o)
        PROVE  Transmitido(o)
    <3>1. Vigente(o) BY <2>1, <2>4, <2>5 DEF Vigente
    <3>2. o.texto \in Nat /\ m.texto \in Nat
      BY <2>4 DEF TypeOK, TipoServicio, Mensaje
    <3>3. ~Pendiente(o) BY <2>3, <2>4, <2>5, <3>2 DEF Pendiente
    <3> QED BY <2>5, <3>1, <3>3 DEF SinPerdida
  <2>6. Precedido(m) BY <2>5 DEF Precedido
  <2> QED BY <2>4, <2>6, PrecedidoQueda
<1> QED BY <1>1, <1>2, HiloPaso DEF Empieza, Termina

(* HilosRetiran is kept by every step.                                     *)
LEMMA HilosRetiranPaso ==
  ASSUME TypeOK, TypeOK', Cronologia, ListasEnOrden, HilosRetiran, Efecto
  PROVE  HilosRetiran'
<1> SUFFICES ASSUME NEW s \in Hilos, pc'[s] \in Retirado,
                    NEW m, m = hilo'[s].msg, ~Colisiona(m)'
             PROVE  ~Pendiente(m)'
  BY DEF HilosRetiran, Pendiente, Colisiona
<1>0. ~Colisiona(m) BY HistoriaQueda
<1>1. CASE pc'[s] = pc[s] /\ hilo'[s] = hilo[s]
  <2>1. m \in aceptados /\ ~Pendiente(m)
    BY <1>0, <1>1 DEF Cronologia, CronoHilos, Copias, HilosRetiran
  <2> QED BY <2>1, NoVuelve
<1>2. CASE Sigue(s)
  <2>1. /\ m = hilo[s].msg
        /\ (pc[s] = "borra" /\ BorraPendiente(s)) \/ pc[s] = "ack"
    BY <1>2 DEF Sigue
  <2>2. CASE pc[s] = "borra" /\ BorraPendiente(s)
    <3>1. m.destinatario = hilo[s].usuario
      BY <2>1, <2>2 DEF Cronologia, CronoHilos, Copias
    <3> QED BY <1>0, <2>1, <2>2, <3>1, BorraQuita DEF Pendiente
  <2>3. CASE pc[s] = "ack"
    <3>1. m \in aceptados /\ ~Pendiente(m)
      BY <1>0, <2>1, <2>3 DEF Cronologia, CronoHilos, Copias, HilosRetiran
    <3> QED BY <3>1, NoVuelve
  <2> QED BY <2>1, <2>2, <2>3
<1> QED BY <1>1, <1>2, HiloPaso DEF Empieza, Termina

(* The lists and the drains keep the order of arrival in every reachable   *)
(* state: see Turnos. *)
THEOREM TurnosCorrecta == Spec => []Turnos
<1>1. Init => Turnos
  BY DEF Init, servicio_init, Turnos, ListasEnOrden, EnOrden, HilosAvanzan,
         HilosEnTurno, HilosRetiran
<1>2. /\ TypeOK /\ TypeOK' /\ Cronologia /\ Cronologia' /\ SinPerdida /\ Turnos
      /\ [Next]_vars
      => Turnos'
  BY TodoPasoEsEfecto, ListasPaso, HilosAvanzanPaso, HilosEnTurnoPaso, HilosRetiranPaso
     DEF Turnos
<1> QED
  BY <1>1, <1>2, TipoCorrecto, CronologiaCorrecta, SinPerdidaCorrecta, PTL DEF Spec

(* A drain never goes back: see DrenaEnOrden. *)
THEOREM DrenaEnOrdenCorrecta == Spec => []DrenaEnOrden
<1>1. Turnos => DrenaEnOrden
  BY DEF Turnos, HilosAvanzan, Avance, DrenaEnOrden
<1> QED BY <1>1, TurnosCorrecta, PTL

(* An ACK is final: see AckDefinitivo.  The thread that writes it has      *)
(* removed the message (HilosRetiran), and a message does not come back.   *)
THEOREM AckDefinitivoCorrecta == Spec => []AckDefinitivo
<1>1. Init => AckDefinitivo
  BY DEF Init, AckDefinitivo
<1>2. ASSUME TypeOK, TypeOK', Cronologia, Turnos, AckDefinitivo, Efecto
      PROVE  AckDefinitivo'
  <2> SUFFICES ASSUME NEW a \in acks'
               PROVE  /\ Transmitido(a.msg)'
                      /\ ~Colisiona(a.msg)' => ~Pendiente(a.msg)'
    BY DEF AckDefinitivo
  <2>1. PICK m : m = a.msg OBVIOUS
  <2>2. /\ Transmitido(m)
        /\ ~Colisiona(m) => ~Pendiente(m)
    <3>1. CASE a \in acks BY <1>2, <2>1, <3>1 DEF AckDefinitivo
    <3>2. ASSUME NEW t \in Hilos, NEW escrito \in BOOLEAN, EnviaAck(t, escrito),
                 a \notin acks
          PROVE  pc[t] = "envia" /\ m = hilo[t].msg
      BY <2>1, <3>2 DEF EnviaAck
    <3>3. ASSUME NEW t \in Hilos, pc[t] = "envia", m = hilo[t].msg
          PROVE  /\ Transmitido(m)
                 /\ ~Colisiona(m) => ~Pendiente(m)
      BY <1>2, <3>3 DEF Cronologia, CronoHilos, Copias, Turnos, HilosRetiran
    <3>4. a \in acks \/ \E t \in Hilos, escrito \in BOOLEAN : EnviaAck(t, escrito)
      BY <1>2
         DEF Efecto, vars, red, Registra, DaDeBaja, Desconecta, Conecta, Acepta,
             SinNodo, Muere, Paso, ConsultaConexion, SiguientePendiente, Entrega,
             FallaEntrega, BorraPendiente, BuscaRemitente, FuerzaDesconexion
    <3> QED BY <3>1, <3>2, <3>3, <3>4
  <2>3. m \in aceptados
    BY <1>2, <2>2 DEF Transmitido, Cronologia, CronoMensajes
  <2> QED BY <1>2, <2>1, <2>2, <2>3, HistoriaQueda, NoVuelve
<1>3. /\ TypeOK /\ TypeOK' /\ Cronologia /\ Turnos /\ AckDefinitivo /\ [Next]_vars
      => AckDefinitivo'
  BY <1>2, TodoPasoEsEfecto
<1> QED BY <1>1, <1>3, TipoCorrecto, CronologiaCorrecta, TurnosCorrecta, PTL DEF Spec
-----------------------------------------------------------------------------
(* A user becomes connected only by a CONNECT, which starts a drain.       *)
LEMMA ConexionPaso ==
  ASSUME TypeOK, Efecto, NEW u \in Usuarios, conectado'[u], ~conectado[u]
  PROVE  \E t \in Hilos : /\ pc'[t] = "consulta"
                          /\ hilo'[t].usuario = u /\ hilo'[t].drena
<1>0. TipoServicio /\ TipoHilos
  BY DEF TypeOK
<1>1. ASSUME NEW t \in Hilos, NEW v \in Usuarios, NEW d \in Direcciones, Conecta(t, v, d)
      PROVE  \E s \in Hilos : /\ pc'[s] = "consulta"
                              /\ hilo'[s].usuario = u /\ hilo'[s].drena
  <2> DEFINE h == [usuario |-> v, msg |-> SinMsg, dir |-> SinDir, rem |-> SinDir,
                   drena |-> TRUE, previo |-> 0]
  <2>1. /\ u = v
        /\ Lanza(t, "consulta", h)
    BY <1>0, <1>1 DEF Conecta, Ocupa, marcar_conectado, TipoServicio
  <2>2. h.usuario = v /\ h.drena OBVIOUS
  <2> HIDE DEF h
  <2>3. pc'[t] = "consulta" /\ hilo'[t] = h
    BY <1>0, <2>1 DEF Lanza, Salta, TipoHilos
  <2> QED BY <2>1, <2>2, <2>3
<1>2. ~\E v \in Usuarios : Registra(v) \/ DaDeBaja(v) \/ Desconecta(v)
  BY <1>0 DEF Registra, DaDeBaja, Desconecta, NodoInicial, marcar_desconectado, TipoServicio
<1>3. ~\E t \in Hilos : Paso(t)
  <2>1. ASSUME NEW t \in Hilos, Paso(t) PROVE FALSE
    BY <1>0, <2>1, PasoTablas
       DEF tablas, servicio_eliminar_pendiente, marcar_desconectado, TipoServicio
  <2> QED BY <2>1
<1> QED
  BY <1>1, <1>2, <1>3
     DEF Efecto, vars, varsServicio, tablas, Acepta, SinNodo, Muere, servicio_destroy

(* Somebody keeps looking after a message that stays in the list of a      *)
(* connected user: a drain goes on until the list is empty or the user is  *)
(* disconnected, and a live delivery until it has removed the message.     *)
LEMMA ReparteQueda ==
  ASSUME TypeOK, TypeOK', Cronologia, ListasEnOrden, Efecto,
         NEW m \in aceptados, NEW t \in Hilos, Reparte(t, m), ~Colisiona(m),
         Pendiente(m), Pendiente(m)',
         conectado[m.destinatario], conectado'[m.destinatario]
  PROVE  Reparte(t, m)'
<1> DEFINE u == m.destinatario
<1>0. /\ u \in Usuarios /\ registrado[u] /\ TipoServicio
      /\ pc[t] # "libre" /\ hilo[t].usuario = u
      /\ hilo[t].drena \in BOOLEAN
  BY DEF TypeOK, TipoServicio, Mensaje, Reparte, TipoHilos, Locales, Tarea
<1>1. ToSet(<<>>) = {} BY DEF ToSet
<1>2. CASE pc'[t] = pc[t] /\ hilo'[t] = hilo[t]
  BY <1>2 DEF Reparte
<1>3. CASE Sigue(t)
  <2>1. CASE hilo[t].drena
    BY <1>0, <1>3, <2>1 DEF Sigue, Reparte
  <2>2. CASE ~hilo[t].drena
    <3>1. pc[t] \in {"entrega", "borra", "fuerza"} /\ hilo[t].msg = m
      BY <2>2 DEF Reparte
    <3>2. pc[t] # "borra"
      <4>1. ASSUME BorraPendiente(t) PROVE FALSE
        BY <1>0, <3>1, <4>1, BorraQuita DEF Pendiente
      <4> QED BY <1>3, <4>1 DEF Sigue
    <3>3. pc[t] # "fuerza" BY <1>3, <2>2 DEF Sigue
    <3> QED BY <1>0, <1>3, <3>1, <3>2, <3>3 DEF Sigue, Reparte
  <2> QED BY <1>0, <2>1, <2>2
<1>4. CASE Termina(t)
  <2>1. ~Muere
    BY <1>0, <1>1 DEF Muere, servicio_destroy
  <2>2. pc[t] = "bucle" => HayPendientes(u)
    BY <1>0, <1>1 DEF Pendiente, HayPendientes, buscar_usuario
  <2>3. ~FuerzaDesconexion(t)
    BY <1>0
       DEF FuerzaDesconexion, servicio_marcar_desconectado_forzado, buscar_usuario,
           marcar_desconectado, TipoServicio
  <2> QED BY <1>0, <1>4, <2>1, <2>2, <2>3 DEF Termina, Reparte
<1> QED BY <1>0, <1>2, <1>3, <1>4, HiloPaso DEF Empieza

(* No message is forgotten: see SinOlvidados.  The thread that looks after *)
(* it is the one that its sender started, if the recipient was connected   *)
(* then, or the drain of the CONNECT that connected it.                    *)
THEOREM SinOlvidadosCorrecta == Spec => []SinOlvidados
<1>1. Init => SinOlvidados
  BY DEF Init, servicio_init, SinOlvidados
<1>2. ASSUME TypeOK, TypeOK', Cronologia, Turnos, SinOlvidados, Efecto
      PROVE  SinOlvidados'
  <2> SUFFICES ASSUME NEW m \in aceptados', Pendiente(m)', ~Colisiona(m)',
                      conectado'[m.destinatario]
               PROVE  \E t \in Hilos : Reparte(t, m)'
    BY DEF SinOlvidados
  <2>0. ~Colisiona(m) BY <1>2, HistoriaQueda
  <2>1. CASE m \in aceptados
    <3>1. Pendiente(m) /\ m.destinatario \in Usuarios
      BY <1>2, <2>1, NoVuelve DEF TypeOK, TipoServicio, Mensaje
    <3>2. CASE conectado[m.destinatario]
      <4>1. PICK t \in Hilos : Reparte(t, m)
        BY <1>2, <2>0, <2>1, <3>1, <3>2 DEF SinOlvidados
      <4> QED BY <1>2, <2>0, <2>1, <3>1, <3>2, <4>1, ReparteQueda DEF Turnos
    <3>3. CASE ~conectado[m.destinatario]
      <4>1. PICK t \in Hilos : /\ pc'[t] = "consulta"
                               /\ hilo'[t].usuario = m.destinatario /\ hilo'[t].drena
        BY <1>2, <3>1, <3>3, ConexionPaso
      <4> QED BY <4>1 DEF Reparte
    <3> QED BY <3>2, <3>3
  <2>2. CASE m \notin aceptados
    <3>1. PICK t \in Hilos, r \in Usuarios, u \in Usuarios, adj \in BOOLEAN :
              m = MensajeNuevo(r, u, adj) /\ Acepta(t, r, u, m)
      BY <1>2, <2>2, AceptadosPaso
    <3>2. m.destinatario = u BY <1>2, <3>1, NuevoTipo DEF TypeOK
    <3> DEFINE h == [usuario |-> u, msg |-> m, dir |-> dir[u], rem |-> SinDir,
                     drena |-> FALSE, previo |-> 0]
    <3>3. h.usuario = u /\ h.msg = m OBVIOUS
    <3>4. Lanza(t, "entrega", h) BY <3>1, <3>2 DEF Acepta, Ocupa
    <3> HIDE DEF h
    <3>5. pc'[t] = "entrega" /\ hilo'[t] = h
      BY <1>2, <3>4 DEF Lanza, Salta, TypeOK, TipoHilos
    <3> QED BY <3>2, <3>3, <3>5 DEF Reparte
  <2> QED BY <2>1, <2>2
<1>3. /\ TypeOK /\ TypeOK' /\ Cronologia /\ Turnos /\ SinOlvidados /\ [Next]_vars
      => SinOlvidados'
  BY <1>2, TodoPasoEsEfecto
<1> QED BY <1>1, <1>3, TipoCorrecto, CronologiaCorrecta, TurnosCorrecta, PTL DEF Spec

(* Stored messages go out in their order: see OrdenDeLlegada.  When a      *)
(* drain transmits one, HilosEnTurno has those ahead of it transmitted.    *)
THEOREM OrdenDeLlegadaCorrecta == Spec => []OrdenDeLlegada
<1>1. Init => OrdenDeLlegada
  BY DEF Init, servicio_init, OrdenDeLlegada
<1>2. ASSUME TypeOK, TypeOK', Cronologia, Turnos, OrdenDeLlegada, Efecto
      PROVE  OrdenDeLlegada'
  <2> SUFFICES ASSUME NEW m \in aceptados', ~m.vivo, Transmitido(m)'
               PROVE  Precedido(m)'
    BY DEF OrdenDeLlegada
  <2>1. m \in aceptados /\ Precedido(m)
    <3>1. CASE Transmitido(m)
      <4>1. m \in aceptados
        BY <1>2, <3>1 DEF Transmitido, Cronologia, CronoMensajes
      <4> QED BY <1>2, <3>1, <4>1 DEF OrdenDeLlegada
    <3>2. CASE ~Transmitido(m)
      <4>1. ~(entregados' = entregados) BY <3>2 DEF Transmitido
      <4>2. PICK t \in Hilos : Paso(t)
        BY <1>2, <4>1
           DEF Efecto, vars, red, Registra, DaDeBaja, Desconecta, Conecta, Acepta,
               SinNodo, Muere
      <4>3. pc[t] = "entrega" /\ m = hilo[t].msg
        BY <3>2, <4>1, <4>2, PasoEnvios DEF Transmitido
      <4> QED BY <1>2, <4>3 DEF Cronologia, CronoHilos, Copias, Turnos, HilosEnTurno
    <3> QED BY <3>1, <3>2
  <2> QED BY <1>2, <2>1, PrecedidoQueda
<1>3. /\ TypeOK /\ TypeOK' /\ Cronologia /\ Turnos /\ OrdenDeLlegada /\ [Next]_vars
      => OrdenDeLlegada'
  BY <1>2, TodoPasoEsEfecto
<1> QED BY <1>1, <1>3, TipoCorrecto, CronologiaCorrecta, TurnosCorrecta, PTL DEF Spec
=============================================================================
