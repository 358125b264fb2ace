------------------------- MODULE RefinamientoProofs -------------------------
(***************************************************************************)
(* The server implements the mailbox of Buzon: every step is one of the    *)
(* mailbox's, or leaves the mailbox as it is.  The four invariants of the  *)
(* other modules make the steps possible: a message is transmitted in its  *)
(* turn (Turnos) and withdrawn after a transmission (Cronologia).          *)
(***************************************************************************)
EXTENDS Refinamiento, GarantiasProofs

(* The mapping as functions of the values that it is made of, so that it   *)
(* can be taken in a state and in the next.                                *)
FicheroDe(A) == [n \in Numeros(A) |-> FichaDe(CHOOSE m \in A : m.texto = n)]

RetenidasDe(A, listas) == Numeros({m \in A : m \in ToSet(listas[m.destinatario])})

TransmitidasDe(E) == Numeros({e.msg : e \in E})

(* The mapping of Refinamiento is those functions, now and after a step.   *)
LEMMA Correspondencia ==
  /\ Fichero = FicheroDe(aceptados) /\ Fichero' = FicheroDe(aceptados')
  /\ Retenidas = RetenidasDe(aceptados, pendientes)
  /\ Retenidas' = RetenidasDe(aceptados', pendientes')
  /\ Transmitidas = TransmitidasDe(entregados)
  /\ Transmitidas' = TransmitidasDe(entregados')
BY DEF Fichero, FicheroDe, ConNumero, Retenidas, RetenidasDe, Pendiente, Transmitidas,
       TransmitidasDe

(* A number names one message.                                             *)
LEMMA FicheroPropiedades ==
  ASSUME NEW A, \A m, o \in A : m.texto = o.texto => m = o
  PROVE  /\ DOMAIN FicheroDe(A) = Numeros(A)
         /\ \A m \in A : m.texto \in Numeros(A) /\ FicheroDe(A)[m.texto] = FichaDe(m)
<1>1. ASSUME NEW m \in A PROVE (CHOOSE o \in A : o.texto = m.texto) = m
  OBVIOUS
<1>2. \A m \in A : m.texto \in Numeros(A) BY DEF Numeros
<1> QED BY <1>1, <1>2 DEF FicheroDe

(* The file of the accepted messages grows by the new one only.            *)
LEMMA FicheroCrece ==
  ASSUME NEW A, NEW m, m \notin A, NEW A2, A2 = A \cup {m},
         \A o \in A2 : \A p \in A2 : o.texto = p.texto => o = p
  PROVE  /\ Numeros(A2) = Numeros(A) \cup {m.texto}
         /\ FicheroDe(A2)[m.texto] = FichaDe(m)
         /\ \A k \in Numeros(A) : k # m.texto /\ FicheroDe(A2)[k] = FicheroDe(A)[k]
<1>1. Numeros(A2) = Numeros(A) \cup {m.texto} BY DEF Numeros
<1>2. ASSUME NEW k \in Numeros(A2)
      PROVE  FicheroDe(A2)[k] = IF k = m.texto THEN FichaDe(m) ELSE FicheroDe(A)[k]
  <2>1. PICK o \in A2 : k = o.texto BY <1>2 DEF Numeros
  <2>2. FicheroDe(A2)[k] = FichaDe(o) BY <2>1, FicheroPropiedades
  <2>3. CASE o = m BY <2>1, <2>2, <2>3
  <2>4. CASE o # m
    <3>1. o \in A /\ k # m.texto BY <2>1, <2>4
    <3>2. \A p, q \in A : p.texto = q.texto => p = q OBVIOUS
    <3>3. FicheroDe(A)[k] = FichaDe(o) BY <2>1, <3>1, <3>2, FicheroPropiedades
    <3> QED BY <2>2, <3>1, <3>3
  <2> QED BY <2>3, <2>4
<1>3. \A k \in Numeros(A) : k # m.texto BY DEF Numeros
<1> QED BY <1>1, <1>2, <1>3

(* A removal from a list in order takes away one message, which matches,   *)
(* or none.                                                                *)
LEMMA EliminarUno ==
  ASSUME NEW lista \in Seq(Mensaje), EnOrden(lista), NEW id, NEW rem, NEW r,
         r = eliminar_mensaje_por_id_y_remitente(lista, id, rem)
  PROVE  \/ r = lista
         \/ \E x \in ToSet(lista) : /\ Coincide(x, id, rem)
                                    /\ ToSet(r) = ToSet(lista) \ {x}
<1>1. /\ DOMAIN lista = 1..Len(lista) /\ Len(lista) \in Nat
      /\ r \in Seq(Mensaje) /\ DOMAIN r = 1..Len(r) /\ Len(r) \in Nat
  BY EliminarPropiedades, LenProperties
<1>2. \A i \in 1..Len(lista) : lista[i].texto \in Nat
  <2>1. \A i \in 1..Len(lista) : lista[i] \in Mensaje BY ElementOfSeq
  <2> QED BY <2>1 DEF Mensaje
<1>3. \A i, j \in 1..Len(lista) : lista[i] = lista[j] => i = j
  BY <1>1, <1>2 DEF EnOrden
<1>4. ASSUME NEW k \in 1..Len(lista), Len(r) = Len(lista) - 1,
             \A i \in 1..Len(r) : r[i] = IF i < k THEN lista[i] ELSE lista[i + 1]
      PROVE  ToSet(r) = ToSet(lista) \ {lista[k]}
  <2>1. ASSUME NEW i \in 1..Len(r)
        PROVE  \E j \in 1..Len(lista) : j # k /\ r[i] = lista[j]
    <3>1. CASE i < k BY <1>1, <1>4, <3>1
    <3>2. CASE ~(i < k)
      <4>1. i + 1 \in 1..Len(lista) /\ i + 1 # k /\ r[i] = lista[i + 1]
        BY <1>1, <1>4, <3>2
      <4> QED BY <4>1
    <3> QED BY <3>1, <3>2
  <2>2. ASSUME NEW j \in 1..Len(lista), j # k
        PROVE  \E i \in 1..Len(r) : r[i] = lista[j]
    <3>1. CASE j < k BY <1>1, <1>4, <3>1
    <3>2. CASE j > k
      <4>1. j - 1 \in 1..Len(r) /\ r[j - 1] = lista[j] BY <1>1, <1>4, <3>2
      <4> QED BY <4>1
    <3> QED BY <1>1, <2>2, <3>1, <3>2
  <2>3. ToSet(r) \subseteq ToSet(lista) \ {lista[k]}
    BY <1>1, <1>3, <2>1 DEF ToSet
  <2>4. ToSet(lista) \ {lista[k]} \subseteq ToSet(r)
    BY <1>1, <2>2 DEF ToSet
  <2> QED BY <2>3, <2>4
<1>5. \/ r = lista
      \/ \E k \in 1..Len(lista) :
            /\ Coincide(lista[k], id, rem) /\ Len(r) = Len(lista) - 1
            /\ \A i \in 1..Len(r) :
                  r[i] = IF i < k THEN lista[i] ELSE lista[i + 1]
  BY EliminarPropiedades
<1>6. \A k \in 1..Len(lista) : lista[k] \in ToSet(lista)
  BY <1>1 DEF ToSet
<1> QED BY <1>4, <1>5, <1>6
-----------------------------------------------------------------------------
Acotada == serie <= MaxMensajes

(* No more messages are created than the bound of the exploration allows,  *)
(* which the mailbox shares: CrearMensaje looks at it before it counts.    *)
THEOREM SerieAcotada == Spec => []Acotada
<1>1. Init => Acotada
  BY ServicioAssumption DEF Init, servicio_init, Acotada
<1>2. ASSUME TypeOK, Acotada, Efecto PROVE Acotada'
  <2>1. serie \in Nat BY <1>2 DEF TypeOK, TipoServicio
  <2>2. serie' = serie \/ (serie < MaxMensajes /\ serie' = serie + 1)
    <3>1. CASE \E t \in Hilos : Paso(t)
      BY <1>2, <3>1, PasoTablas DEF historia
    <3>2. CASE ~\E t \in Hilos : Paso(t)
      BY <1>2, <3>2
         DEF Efecto, vars, varsServicio, historia, Registra, DaDeBaja, Desconecta,
             Conecta, Acepta, SinNodo, Muere, servicio_destroy
    <3> QED BY <3>1, <3>2
  <2> QED BY <1>2, <2>1, <2>2, ServicioAssumption DEF Acotada
<1>3. TypeOK /\ Acotada /\ [Next]_vars => Acotada'
  BY <1>2, TodoPasoEsEfecto
<1> QED BY <1>1, <1>3, TipoCorrecto, PTL DEF Spec

(* A step that begins and ends no registration, touches no list, neither   *)
(* accepts nor writes a message, and is no death, leaves the mailbox as it *)
(* is.                                                                     *)
LEMMA PasoMudo ==
  ASSUME UNCHANGED <<registrado, alta, caidas>>,
         pendientes' = pendientes, aceptados' = aceptados, entregados' = entregados
  PROVE  UNCHANGED B!vars
BY Correspondencia DEF B!vars, B!apertura, B!cartas

(* An accepted message enters the mailbox of its recipient.                *)
LEMMA AceptaImplementa ==
  ASSUME TypeOK, TypeOK', Cronologia, Cronologia', NEW t \in Hilos, NEW r \in Usuarios,
         NEW u \in Usuarios, NEW adj \in BOOLEAN, NEW m \in Mensaje,
         m = MensajeNuevo(r, u, adj), Acepta(t, r, u, m)
  PROVE  B!Acepta(serie + 1) /\ serie + 1 \in 1..MaxMensajes
<1>1. /\ m.texto = serie + 1 /\ m.destinatario = u /\ serie \in Nat
      /\ serie < MaxMensajes /\ TipoServicio
  BY NuevoTipo DEF TypeOK, TipoServicio, Acepta
<1>2. /\ aceptados' = aceptados \cup {m} /\ entregados' = entregados
      /\ pendientes' = [pendientes EXCEPT ![u] = agregar_mensaje(@, m)]
  BY DEF Acepta, red
<1>3. /\ \A o \in aceptados : /\ o.texto \in Nat /\ o.texto <= serie
                              /\ o.destinatario \in Usuarios
      /\ \A o, p \in aceptados : o.texto = p.texto => o = p
      /\ \A o, p \in aceptados' : o.texto = p.texto => o = p
  BY DEF TypeOK, TipoServicio, Cronologia, CronoMensajes, Mensaje
<1>4. m \notin aceptados BY <1>1, <1>3
<1>5. /\ Numeros(aceptados') = Numeros(aceptados) \cup {serie + 1}
      /\ Fichero'[serie + 1] = FichaDe(m)
      /\ \A k \in Numeros(aceptados) : k # serie + 1 /\ Fichero'[k] = Fichero[k]
  <2>1. /\ Numeros(aceptados') = Numeros(aceptados) \cup {m.texto}
        /\ FicheroDe(aceptados')[m.texto] = FichaDe(m)
        /\ \A k \in Numeros(aceptados) :
              k # m.texto /\ FicheroDe(aceptados')[k] = FicheroDe(aceptados)[k]
    <3>1. \A o \in aceptados' : \A p \in aceptados' : o.texto = p.texto => o = p
      BY <1>3
    <3>2. aceptados' = aceptados \cup {m} BY <1>2
    <3> DEFINE A2 == aceptados'
    <3>3. A2 = aceptados \cup {m} /\ \A o \in A2 : \A p \in A2 : o.texto = p.texto => o = p
      BY <3>1, <3>2
    <3> HIDE DEF A2
    <3>4. /\ Numeros(A2) = Numeros(aceptados) \cup {m.texto}
          /\ FicheroDe(A2)[m.texto] = FichaDe(m)
          /\ \A k \in Numeros(aceptados) :
              k # m.texto /\ FicheroDe(A2)[k] = FicheroDe(aceptados)[k]
      BY <1>4, <3>3, FicheroCrece
    <3> QED BY <3>4 DEF A2
  <2> QED BY <1>1, <2>1, Correspondencia
<1>6. /\ DOMAIN Fichero = Numeros(aceptados)
      /\ Fichero' = [k \in Numeros(aceptados') |-> Fichero'[k]]
  BY DEF Fichero
<1>7. \A k \in Numeros(aceptados) : k < serie + 1
  BY <1>1, <1>3 DEF Numeros
<1>8. FichaDe(m) \in B!Fichas
  BY DEF FichaDe, B!Fichas, Mensaje
<1>9. Retenidas' = Retenidas \cup {serie + 1}
  <2>1. ToSet(pendientes'[u]) = ToSet(pendientes[u]) \cup {m}
    BY <1>1, <1>2, AgregarConjunto DEF TipoServicio
  <2>2. \A v \in Usuarios : v # u => pendientes'[v] = pendientes[v]
    BY <1>1, <1>2 DEF TipoServicio
  <2>3. {o \in aceptados' : o \in ToSet(pendientes'[o.destinatario])}
           = {o \in aceptados : o \in ToSet(pendientes[o.destinatario])} \cup {m}
    BY <1>1, <1>2, <1>3, <1>4, <2>1, <2>2
  <2>4. \A S : Numeros(S \cup {m}) = Numeros(S) \cup {m.texto} BY DEF Numeros
  <2> QED BY <1>1, <2>3, <2>4, Correspondencia DEF RetenidasDe
<1>10. Transmitidas' = Transmitidas
  BY <1>2, Correspondencia
<1>11. /\ \A k \in B!Aceptadas : k < serie + 1
       /\ Fichero' = [k \in B!Aceptadas \cup {serie + 1} |->
                         IF k = serie + 1 THEN Fichero'[serie + 1] ELSE Fichero[k]]
  BY <1>5, <1>6, <1>7 DEF B!Aceptadas
<1>12. B!Aceptadas' = B!Aceptadas \cup {serie + 1} /\ Fichero'[serie + 1] \in B!Fichas
  BY <1>5, <1>6, <1>8 DEF B!Aceptadas
<1>13. Fichero'[serie + 1].dueno = u /\ Fichero'[serie + 1].tanda = alta[u]
  <2>1. m.alta_dest = alta[u] BY <1>1, NuevoTipo
  <2> QED BY <1>1, <1>5, <2>1 DEF FichaDe
<1>14. registrado[u] /\ UNCHANGED B!apertura
  BY DEF Acepta, red, B!apertura
<1>15. B!Acepta(serie + 1)
  BY <1>9, <1>10, <1>11, <1>12, <1>13, <1>14 DEF B!Acepta
<1> QED BY <1>1, <1>15, ServicioAssumption

(* A delivery that succeeds is a transmission in its turn.                 *)
LEMMA EntregaImplementa ==
  ASSUME TypeOK, Cronologia, Turnos, Acotada, NEW t \in Hilos, Entrega(t)
  PROVE  B!Transmite(hilo[t].msg.texto) /\ hilo[t].msg.texto \in 1..MaxMensajes
<1> DEFINE m == hilo[t].msg
<1>1. /\ m \in aceptados
      /\ ~m.vivo => Precedido(m)
  BY DEF Entrega, Cronologia, CronoHilos, Copias, EnMano, Turnos, HilosEnTurno
<1>2. /\ aceptados' = aceptados /\ pendientes' = pendientes
      /\ entregados' = entregados \cup {[msg |-> m, dir |-> hilo[t].dir]}
      /\ UNCHANGED B!apertura
  BY DEF Entrega, varsServicio, tablas, historia, B!apertura
<1> HIDE DEF m
<1>3. /\ \A o, p \in aceptados : o.texto = p.texto => o = p
      /\ \A o \in aceptados : o \in Mensaje /\ o.texto <= serie
      /\ {e.msg : e \in entregados} \in SUBSET aceptados
  BY DEF TypeOK, TipoServicio, Cronologia, CronoMensajes
<1>4. DOMAIN Fichero = Numeros(aceptados)
  BY DEF Fichero
<1>5. \A o \in aceptados : o.texto \in Numeros(aceptados) /\ Fichero[o.texto] = FichaDe(o)
  BY <1>3, FicheroPropiedades, Correspondencia
<1>6. \A o \in aceptados : /\ FichaDe(o).dueno = o.destinatario
                           /\ FichaDe(o).clave = <<o.id, o.remitente>>
                           /\ FichaDe(o).tanda = o.alta_dest
                           /\ FichaDe(o).espera = ~o.vivo
  BY DEF FichaDe
<1>7. ASSUME NEW k \in Numeros(aceptados), k < m.texto, ~m.vivo,
             Fichero[k].dueno = Fichero[m.texto].dueno,
             Fichero[k].tanda = Fichero[m.texto].tanda
      PROVE  k \in Transmitidas \/ B!Confusa(k)
  <2>1. PICK o \in aceptados : k = o.texto BY <1>7 DEF Numeros
  <2>2. o.destinatario = m.destinatario /\ o.alta_dest = m.alta_dest
    BY <1>1, <1>5, <1>6, <1>7, <2>1
  <2>3. CASE Colisiona(o)
    <3>1. PICK p \in aceptados : /\ p.texto # o.texto /\ p.id = o.id
                                 /\ p.remitente = o.remitente
                                 /\ p.destinatario = o.destinatario
      BY <2>3 DEF Colisiona
    <3>2. B!Gemelas(k, p.texto)
      BY <1>5, <1>6, <2>1, <3>1 DEF B!Gemelas
    <3> QED BY <1>4, <1>5, <2>1, <3>1, <3>2 DEF B!Confusa, B!Aceptadas
  <2>4. CASE ~Colisiona(o)
    <3>1. Transmitido(o) BY <1>1, <1>7, <2>1, <2>2, <2>4 DEF Precedido
    <3> QED BY <2>1, <3>1 DEF Transmitido, Transmitidas, Numeros
  <2> QED BY <2>3, <2>4
<1>8. m.texto \in B!Aceptadas /\ B!EnTurno(m.texto)
  BY <1>1, <1>4, <1>5, <1>6, <1>7 DEF B!Aceptadas, B!EnTurno, B!Anteriores
<1>9. Transmitidas' = Transmitidas \cup {m.texto}
  <2> DEFINE n == [msg |-> m, dir |-> hilo[t].dir]
  <2>1. n.msg = m OBVIOUS
  <2> HIDE DEF n
  <2>3. {e.msg : e \in entregados'} = {e.msg : e \in entregados} \cup {m}
    BY <1>2, <2>1 DEF n
  <2>2. \A S : Numeros(S \cup {m}) = Numeros(S) \cup {m.texto} BY DEF Numeros
  <2> QED BY <2>2, <2>3 DEF Transmitidas
<1>10. Fichero' = Fichero /\ Retenidas' = Retenidas
  BY <1>2, Correspondencia
<1>11. m.texto \in 1..MaxMensajes
  <2>1. m.texto \in Nat \ {0} /\ m.texto <= serie BY <1>1, <1>3 DEF Mensaje
  <2> QED BY <2>1, ServicioAssumption DEF TypeOK, TipoServicio, Acotada
<1> QED BY <1>2, <1>8, <1>9, <1>10, <1>11 DEF B!Transmite, m

(* A removal withdraws a message with the number and the sender of one     *)
(* that was transmitted, or it finds none.                                 *)
LEMMA BorraImplementa ==
  ASSUME TypeOK, TypeOK', Cronologia, Turnos, Acotada, NEW t \in Hilos, BorraPendiente(t)
  PROVE  (\E n \in 1..MaxMensajes : B!Retira(n)) \/ UNCHANGED B!vars
<1> DEFINE m == hilo[t].msg
           u == hilo[t].usuario
           lista == pendientes[u]
<1>0. pc[t] = "borra" /\ TipoServicio
  BY DEF BorraPendiente, TypeOK
<1>1. /\ u \in Usuarios /\ lista \in Seq(Mensaje) /\ EnOrden(lista)
      /\ m \in aceptados /\ m.destinatario = u /\ Transmitido(m)
  <2>1. u \in Usuarios
    BY <1>0 DEF TypeOK, TipoHilos, Locales, Tarea
  <2>2. m \in aceptados /\ m.destinatario = u /\ Transmitido(m)
    BY <1>0 DEF Cronologia, CronoHilos, Copias, EnMano
  <2> QED BY <1>0, <2>1, <2>2 DEF TipoServicio, Turnos, ListasEnOrden
<1>2. /\ aceptados' = aceptados /\ entregados' = entregados
      /\ \A v \in Usuarios : v # u => pendientes'[v] = pendientes[v]
      /\ pendientes' = pendientes
         \/ pendientes'[u] = eliminar_mensaje_por_id_y_remitente(lista, m.id, m.remitente)
      /\ UNCHANGED <<registrado, alta, caidas>>
  BY <1>0, <1>1
     DEF BorraPendiente, servicio_eliminar_pendiente, historia, red, TipoServicio
<1>3. /\ \A o, p \in aceptados : o.texto = p.texto => o = p
      /\ \A o \in aceptados : /\ o \in Mensaje /\ o.destinatario \in Usuarios
                              /\ o.texto \in Nat \ {0} /\ o.texto <= serie
      /\ \A v \in Usuarios : \A o \in ToSet(pendientes[v]) :
            o \in aceptados /\ o.destinatario = v
  BY DEF TypeOK, TipoServicio, Cronologia, CronoMensajes, CronoTablas, Mensaje
<1> HIDE DEF m, u, lista
<1>4. ASSUME NEW x \in ToSet(pendientes[u]), Coincide(x, m.id, m.remitente),
             ToSet(pendientes'[u]) = ToSet(pendientes[u]) \ {x}
      PROVE  B!Retira(x.texto) /\ x.texto \in 1..MaxMensajes
  <2>1. x \in aceptados /\ x.destinatario = u BY <1>1, <1>3
  <2> DEFINE Q == {o \in aceptados : o \in ToSet(pendientes[o.destinatario])}
             Q2 == {o \in aceptados' : o \in ToSet(pendientes'[o.destinatario])}
  <2>2. Q2 = Q \ {x}
    <3>1. \A o \in aceptados : o \in Q2 <=> o \in Q /\ o # x
      BY <1>2, <1>3, <1>4, <2>1
    <3> QED BY <1>2, <3>1, <2>1
  <2>3. x \in Q BY <1>1, <2>1
  <2>4. Q \subseteq aceptados OBVIOUS
  <2>5. Retenidas = Numeros(Q) /\ Retenidas' = Numeros(Q2)
    BY Correspondencia DEF RetenidasDe
  <2> HIDE DEF Q, Q2
  <2>6. /\ x.texto \in Retenidas
        /\ Retenidas' = Retenidas \ {x.texto}
    BY <1>3, <2>2, <2>3, <2>4, <2>5 DEF Numeros
  <2>7. m.texto \in Transmitidas
    BY <1>1 DEF Transmitido, Transmitidas, Numeros
  <2>8. B!Gemelas(x.texto, m.texto)
    <3>1. Fichero[x.texto] = FichaDe(x) /\ Fichero[m.texto] = FichaDe(m)
      BY <1>1, <1>3, <2>1, FicheroPropiedades, Correspondencia
    <3> QED BY <1>1, <1>4, <2>1, <3>1 DEF B!Gemelas, FichaDe, Coincide
  <2>9. Fichero' = Fichero /\ Transmitidas' = Transmitidas /\ UNCHANGED B!apertura
    BY <1>2, Correspondencia DEF B!apertura
  <2>10. x.texto \in 1..MaxMensajes
    BY <1>3, <2>1, ServicioAssumption DEF TypeOK, TipoServicio, Acotada
  <2> QED BY <2>6, <2>7, <2>8, <2>9, <2>10 DEF B!Retira
<1>5. CASE pendientes' = pendientes
  BY <1>2, <1>5, PasoMudo
<1>6. CASE pendientes'[u] = eliminar_mensaje_por_id_y_remitente(lista, m.id, m.remitente)
  <2>1. \/ pendientes'[u] = lista
        \/ \E x \in ToSet(lista) : /\ Coincide(x, m.id, m.remitente)
                                   /\ ToSet(pendientes'[u]) = ToSet(lista) \ {x}
    BY <1>1, <1>6, EliminarUno
  <2>2. CASE pendientes'[u] = lista
    <3>1. pendientes' = pendientes
      BY <1>0, <1>1, <1>2, <2>2 DEF TypeOK, TipoServicio, lista
    <3> QED BY <1>5, <3>1
  <2> QED BY <1>4, <2>1, <2>2 DEF lista
<1> QED BY <1>2, <1>5, <1>6

(* A registration opens a mailbox, which is empty.                         *)
LEMMA AltaImplementa ==
  ASSUME TypeOK, NEW u \in Usuarios, Registra(u)
  PROVE  B!Abre(u)
<1>0. TipoServicio BY DEF TypeOK
<1>1. /\ aceptados' = aceptados /\ entregados' = entregados
      /\ pendientes' = [pendientes EXCEPT ![u] = <<>>] /\ pendientes[u] = <<>>
  BY <1>0 DEF Registra, NodoInicial, red, TipoServicio
<1>2. pendientes' = pendientes
  BY <1>0, <1>1 DEF TipoServicio
<1>3. UNCHANGED B!cartas
  BY <1>1, <1>2, Correspondencia DEF B!cartas
<1> QED BY <1>3 DEF Registra, red, B!Abre

(* The end of a registration closes the mailbox.                           *)
LEMMA BajaImplementa ==
  ASSUME TypeOK, Cronologia, NEW u \in Usuarios, DaDeBaja(u)
  PROVE  B!Cierra(u)
<1>1. /\ aceptados' = aceptados /\ entregados' = entregados
      /\ pendientes' = [pendientes EXCEPT ![u] = <<>>]
      /\ pendientes \in [Usuarios -> Seq(Mensaje)]
  BY DEF DaDeBaja, NodoInicial, historia, red, TypeOK, TipoServicio
<1>2. /\ \A o, p \in aceptados : o.texto = p.texto => o = p
      /\ \A o \in aceptados : o.destinatario \in Usuarios
  BY DEF TypeOK, TipoServicio, Cronologia, CronoMensajes, Mensaje
<1>3. ToSet(<<>>) = {} BY DEF ToSet
<1> DEFINE Q == {o \in aceptados : o \in ToSet(pendientes[o.destinatario])}
           Q2 == {o \in aceptados' : o \in ToSet(pendientes'[o.destinatario])}
<1>4. Q2 = {o \in Q : o.destinatario # u}
  <2>1. \A o \in aceptados : o \in Q2 <=> o \in Q /\ o.destinatario # u
    BY <1>1, <1>2, <1>3
  <2> QED BY <1>1, <2>1
<1>5. \A o \in Q : Fichero[o.texto].dueno = o.destinatario
  <2>1. \A o \in Q : Fichero[o.texto] = FichaDe(o)
    BY <1>2, FicheroPropiedades, Correspondencia
  <2>2. \A o \in aceptados : FichaDe(o).dueno = o.destinatario
    BY DEF FichaDe
  <2> QED BY <2>1, <2>2
<1>6. Retenidas = Numeros(Q) /\ Retenidas' = Numeros(Q2)
  BY Correspondencia DEF RetenidasDe
<1>7. Fichero' = Fichero /\ Transmitidas' = Transmitidas
  BY <1>1, Correspondencia
<1> HIDE DEF Q, Q2
<1>8. Retenidas' = {n \in Retenidas : Fichero[n].dueno # u}
  BY <1>4, <1>5, <1>6 DEF Numeros
<1>9. /\ registrado[u] /\ registrado' = [registrado EXCEPT ![u] = FALSE]
      /\ UNCHANGED <<alta, caidas>>
  BY DEF DaDeBaja, historia, red
<1> QED BY <1>7, <1>8, <1>9 DEF B!Cierra

(* The death of the process loses everything.                              *)
LEMMA MuereImplementa ==
  ASSUME TypeOK, Muere
  PROVE  B!PierdeTodo
<1>1. /\ aceptados' = aceptados /\ entregados' = entregados
      /\ pendientes' = [v \in Usuarios |-> <<>>]
      /\ \A o \in aceptados : o.destinatario \in Usuarios
  BY DEF Muere, servicio_destroy, historia, TypeOK, TipoServicio, Mensaje
<1>2. ToSet(<<>>) = {} BY DEF ToSet
<1>3. RetenidasDe(aceptados', pendientes') = {}
  BY <1>1, <1>2 DEF RetenidasDe, Numeros
<1>4. /\ registrado' = [v \in Usuarios |-> FALSE] /\ alta' = alta
      /\ caidas' = caidas + 1
  BY DEF Muere, servicio_destroy, historia
<1> QED BY <1>1, <1>3, <1>4, Correspondencia DEF B!PierdeTodo

(* Every step of the server is a step of the mailbox, or none.             *)
LEMMA PasoImplementa ==
  ASSUME TypeOK, TypeOK', Cronologia, Cronologia', Turnos, Acotada, Efecto
  PROVE  [B!Next]_B!vars
<1>0. TipoServicio BY DEF TypeOK
<1>1. CASE UNCHANGED vars
  BY <1>1, PasoMudo DEF vars, varsServicio, tablas, historia, red
<1>2. ASSUME NEW u \in Usuarios, Registra(u) PROVE B!Next
  BY <1>2, AltaImplementa DEF B!Next
<1>3. ASSUME NEW u \in Usuarios, DaDeBaja(u) PROVE B!Next
  BY <1>3, BajaImplementa DEF B!Next
<1>4. ASSUME NEW u \in Usuarios, Desconecta(u) PROVE UNCHANGED B!vars
  BY <1>4, PasoMudo DEF Desconecta, marcar_desconectado, historia, red
<1>5. ASSUME NEW t \in Hilos, NEW u \in Usuarios, NEW d \in Direcciones, Conecta(t, u, d)
      PROVE  UNCHANGED B!vars
  BY <1>5, PasoMudo DEF Conecta, marcar_conectado, historia, red
<1>6. ASSUME NEW t \in Hilos, NEW r \in Usuarios, NEW u \in Usuarios,
             NEW adj \in BOOLEAN, Acepta(t, r, u, MensajeNuevo(r, u, adj))
      PROVE  B!Next
  <2>1. MensajeNuevo(r, u, adj) \in Mensaje BY <1>0, NuevoTipo
  <2>2. B!Acepta(serie + 1) /\ serie + 1 \in 1..MaxMensajes
    BY <1>6, <2>1, AceptaImplementa
  <2> QED BY <2>2 DEF B!Next
<1>7. ASSUME NEW r \in Usuarios, SinNodo(r) PROVE UNCHANGED B!vars
  BY <1>7, PasoMudo DEF SinNodo, red
<1>8. ASSUME NEW t \in Hilos, Paso(t) PROVE B!Next \/ UNCHANGED B!vars
  <2>1. CASE Entrega(t)
    BY <2>1, EntregaImplementa DEF B!Next
  <2>2. CASE BorraPendiente(t)
    BY <2>2, BorraImplementa DEF B!Next
  <2>3. CASE ~Entrega(t) /\ ~BorraPendiente(t)
    <3>1. /\ pendientes' = pendientes /\ aceptados' = aceptados
          /\ entregados' = entregados /\ UNCHANGED <<registrado, alta, caidas>>
      BY <1>8, <2>3
         DEF Paso, ConsultaConexion, SiguientePendiente, FallaEntrega, BuscaRemitente,
             EnviaAck, FuerzaDesconexion, servicio_marcar_desconectado_forzado,
             marcar_desconectado, varsServicio, tablas, historia, red
    <3> QED BY <3>1, PasoMudo
  <2> QED BY <2>1, <2>2, <2>3
<1>9. CASE Muere
  BY <1>9, MuereImplementa DEF B!Next
<1> QED BY <1>1, <1>2, <1>3, <1>4, <1>5, <1>6, <1>7, <1>8, <1>9 DEF Efecto

(* The server implements the mailbox: see ImplementaBuzon. *)
THEOREM ImplementaBuzonCorrecta == Spec => ImplementaBuzon
<1>1. Init => B!Init
  <2> SUFFICES ASSUME Init PROVE B!Init
    OBVIOUS
  <2>1. /\ aceptados = {} /\ entregados = {}
        /\ registrado = [u \in Usuarios |-> FALSE] /\ alta = [u \in Usuarios |-> 0]
        /\ caidas = 0
    BY DEF Init, servicio_init
  <2>2. Numeros({}) = {} BY DEF Numeros
  <2>3. Fichero = [n \in {} |-> n] BY <2>1, <2>2 DEF Fichero
  <2>4. Retenidas = {} /\ Transmitidas = {}
    BY <2>1 DEF Retenidas, Transmitidas, Numeros
  <2> QED BY <2>1, <2>3, <2>4 DEF B!Init
<1>2. /\ TypeOK /\ TypeOK' /\ Cronologia /\ Cronologia' /\ Turnos /\ Acotada
      /\ [Next]_vars
      => [B!Next]_B!vars
  BY TodoPasoEsEfecto, PasoImplementa
<1> QED
  BY <1>1, <1>2, TipoCorrecto, CronologiaCorrecta, TurnosCorrecta, SerieAcotada, PTL
     DEF Spec, ImplementaBuzon, B!Spec
=============================================================================
