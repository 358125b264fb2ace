--------------------------- MODULE RegistroProofs ---------------------------
(***************************************************************************)
(* The remote log repeats no line and is never behind the operation of an  *)
(* answered call, for any number of handlers and of ends of the RPC        *)
(* server.  UnSitio is the inductive invariant: it says where a call can   *)
(* be, which UnaLinea and LineaAntes need and do not say.                  *)
(***************************************************************************)
EXTENDS RegistroRPC, SequenceTheorems, TLAPS

Fases == {"leida", "llama", "opera", "fin"}

Operada == [manejador : Manejadores, escritas : Nat]

TipoRegistro ==
    /\ fase \in [Manejadores -> Fases]
    /\ llamadas \in Seq(Manejadores) /\ lineas \in Seq(Manejadores)
    /\ respuestas \in SUBSET Manejadores /\ contestadas \in SUBSET Manejadores
    /\ operadas \in Seq(Operada)

Seguro == TipoRegistro /\ UnSitio /\ UnaLinea /\ LineaAntes

(* The elements of a list with one more at its end.                        *)
LEMMA Anade ==
  ASSUME NEW S, NEW s \in Seq(S), NEW x \in S, NEW r, r = Append(s, x)
  PROVE  /\ r \in Seq(S) /\ Len(s) \in Nat /\ Len(r) = Len(s) + 1
         /\ \A i \in 1..Len(s) : r[i] = s[i] /\ s[i] \in S
         /\ r[Len(s) + 1] = x
BY AppendProperties, LenProperties, ElementOfSeq

(* The elements of a list that is not empty and of its rest.               *)
LEMMA Resto ==
  ASSUME NEW S, NEW s \in Seq(S), s # <<>>, NEW r, r = Tail(s)
  PROVE  /\ r \in Seq(S) /\ Len(s) \in Nat \ {0} /\ Len(r) = Len(s) - 1
         /\ \A i \in 1..Len(r) : r[i] = s[i + 1]
         /\ Head(s) = s[1] /\ Head(s) \in S
BY HeadTailProperties, LenProperties, EmptySeq

(* What was noted of an operation.                                         *)
LEMMA Anotadas ==
  ASSUME TipoRegistro
  PROVE  \A k \in 1..Len(operadas) : /\ operadas[k].manejador \in Manejadores
                                     /\ operadas[k].escritas \in Nat
<1>1. \A k \in 1..Len(operadas) : operadas[k] \in Operada
  BY ElementOfSeq DEF TipoRegistro
<1> QED BY <1>1 DEF Operada

(* Nobody has called, and nothing is printed.                              *)
LEMMA RegistroInicial == InitRPC => Seguro
<1> SUFFICES ASSUME InitRPC PROVE Seguro
  OBVIOUS
<1>1. llamadas = <<>> /\ lineas = <<>> /\ operadas = <<>>
  BY DEF InitRPC
<1>2. 1..Len(llamadas) = {} /\ 1..Len(lineas) = {} /\ 1..Len(operadas) = {}
  BY <1>1
<1>3. TipoRegistro BY <1>1, EmptySeq DEF InitRPC, TipoRegistro, Fases
<1>4. UnSitio
  <2>1. respuestas = {} /\ contestadas = {} BY DEF InitRPC
  <2>2. \A h \in Manejadores : ~EnCola(h) /\ ~Escrita(h) BY <1>2 DEF EnCola, Escrita
  <2> QED BY <1>2, <2>1, <2>2 DEF UnSitio
<1>5. UnaLinea /\ LineaAntes BY <1>2 DEF UnaLinea, LineaAntes
<1> QED BY <1>3, <1>4, <1>5 DEF Seguro

(* A step that changes no list: phases only move away from leida and never *)
(* from fin, replies only disappear, and one that is read was there.       *)
LEMMA SinListas ==
  ASSUME Seguro, TipoRegistro', UNCHANGED <<llamadas, lineas, operadas>>,
         \A h \in Manejadores : /\ fase'[h] = "leida" => fase[h] = "leida"
                                /\ fase[h] = "fin" => fase'[h] = "fin",
         respuestas' \subseteq respuestas,
         \A h \in contestadas' : h \in contestadas \/ (h \in respuestas /\ fase[h] # "fin")
  PROVE  Seguro'
<1>1. UnSitio'
  <2>1. \A h \in Manejadores : (EnCola(h)' <=> EnCola(h)) /\ (Escrita(h)' <=> Escrita(h))
    BY DEF EnCola, Escrita
  <2>2. \A h \in Manejadores :
           h \in respuestas' \cup contestadas' => h \in respuestas \cup contestadas
    OBVIOUS
  <2>3. \A k \in 1..Len(operadas) : operadas[k].manejador \in Manejadores
    BY Anotadas DEF Seguro
  <2>4. \A h \in Manejadores :
          /\ ~(EnCola(h)' /\ Escrita(h)')
          /\ EnCola(h)' \/ Escrita(h)' => fase'[h] # "leida"
          /\ h \in respuestas' \cup contestadas' => Escrita(h)'
    BY <2>1, <2>2 DEF Seguro, UnSitio
  <2>5. \A k \in 1..Len(operadas') :
          fase'[operadas'[k].manejador] = "fin" /\ operadas'[k].escritas <= Len(lineas')
    BY <2>3 DEF Seguro, UnSitio
  <2>6. \A i, j \in 1..Len(llamadas') : llamadas'[i] = llamadas'[j] => i = j
    BY DEF Seguro, UnSitio
  <2> QED BY <2>4, <2>5, <2>6 DEF UnSitio
<1>2. UnaLinea' BY DEF Seguro, UnaLinea
<1>3. LineaAntes'
  <2>1. ASSUME NEW k \in 1..Len(operadas), operadas[k].manejador \in contestadas'
        PROVE  operadas[k].manejador \in contestadas
    BY <2>1 DEF Seguro, UnSitio
  <2> QED BY <2>1 DEF Seguro, LineaAntes
<1> QED BY <1>1, <1>2, <1>3 DEF Seguro
-----------------------------------------------------------------------------
(* The call joins the queue: its handler had not called before.            *)
LEMMA LlamadaSegura ==
  ASSUME Seguro, NEW h \in Manejadores, log_operation_1(h)
  PROVE  Seguro'
<1> USE DEF Seguro
<1>1. /\ fase[h] = "leida" /\ fase' = [fase EXCEPT ![h] = "llama"]
      /\ llamadas' = Append(llamadas, h)
      /\ UNCHANGED <<respuestas, lineas, operadas, contestadas>>
  BY DEF log_operation_1, Pasa, registro
<1>2. /\ llamadas' \in Seq(Manejadores)
      /\ Len(llamadas) \in Nat /\ Len(llamadas') = Len(llamadas) + 1
      /\ \A i \in 1..Len(llamadas) : llamadas'[i] = llamadas[i]
      /\ llamadas'[Len(llamadas) + 1] = h
  BY <1>1, Anade DEF TipoRegistro
<1>3. TipoRegistro' BY <1>1, <1>2 DEF TipoRegistro, Fases
<1>4. ~EnCola(h) /\ ~Escrita(h) BY <1>1 DEF UnSitio
<1>5. \A g \in Manejadores : /\ EnCola(g)' <=> EnCola(g) \/ g = h
                             /\ Escrita(g)' <=> Escrita(g)
                             /\ fase'[g] = IF g = h THEN "llama" ELSE fase[g]
  <2>1. \A g \in Manejadores : EnCola(g)' <=> EnCola(g) \/ g = h
    BY <1>2 DEF EnCola
  <2> QED BY <1>1, <2>1 DEF Escrita, TipoRegistro
<1>6. UnSitio'
  <2>1. \A i, j \in 1..Len(llamadas') : llamadas'[i] = llamadas'[j] => i = j
    <3>1. \A i \in 1..Len(llamadas) : llamadas[i] # h BY <1>4 DEF EnCola
    <3>2. \A i, j \in 1..Len(llamadas) : llamadas[i] = llamadas[j] => i = j
      BY DEF UnSitio
    <3> QED BY <1>2, <3>1, <3>2
  <2>2. \A g \in Manejadores :
          /\ ~(EnCola(g)' /\ Escrita(g)')
          /\ EnCola(g)' \/ Escrita(g)' => fase'[g] # "leida"
          /\ g \in respuestas' \cup contestadas' => Escrita(g)'
    BY <1>1, <1>4, <1>5 DEF UnSitio
  <2>3. \A k \in 1..Len(operadas') :
          fase'[operadas'[k].manejador] = "fin" /\ operadas'[k].escritas <= Len(lineas')
    <3>1. \A k \in 1..Len(operadas) : operadas[k].manejador \in Manejadores
      BY Anotadas
    <3> QED BY <1>1, <1>5, <3>1 DEF UnSitio
  <2> QED BY <2>1, <2>2, <2>3 DEF UnSitio
<1>7. UnaLinea' /\ LineaAntes' BY <1>1 DEF UnaLinea, LineaAntes
<1> QED BY <1>3, <1>6, <1>7

(* The operation is noted with the lines that are on the screen, among     *)
(* them that of its call if it was answered.                               *)
LEMMA OperacionSegura ==
  ASSUME Seguro, NEW h \in Manejadores, NEW ret \in Codigos, Opera(h, ret)
  PROVE  Seguro'
<1> USE DEF Seguro
<1> DEFINE nueva == [manejador |-> h, escritas |-> Len(lineas)]
<1>1. /\ fase[h] = "opera" /\ fase' = [fase EXCEPT ![h] = "fin"]
      /\ operadas' = Append(operadas, nueva)
      /\ UNCHANGED <<llamadas, respuestas, lineas, contestadas>>
  BY DEF Opera, Pasa, varsRPC
<1>2. Len(lineas) \in Nat /\ nueva \in Operada
  BY LenProperties DEF TipoRegistro, Operada
<1>3. nueva.manejador = h /\ nueva.escritas = Len(lineas)
  OBVIOUS
<1> HIDE DEF nueva
<1>4. /\ operadas' \in Seq(Operada)
      /\ Len(operadas) \in Nat /\ Len(operadas') = Len(operadas) + 1
      /\ \A i \in 1..Len(operadas) : operadas'[i] = operadas[i]
      /\ operadas'[Len(operadas) + 1] = nueva
  BY <1>1, <1>2, Anade DEF TipoRegistro
<1>5. TipoRegistro' BY <1>1, <1>4 DEF TipoRegistro, Fases
<1>6. \A g \in Manejadores : /\ (EnCola(g)' <=> EnCola(g)) /\ (Escrita(g)' <=> Escrita(g))
                             /\ fase'[g] = IF g = h THEN "fin" ELSE fase[g]
  BY <1>1 DEF EnCola, Escrita, TipoRegistro
<1>7. UnSitio'
  <2>1. \A k \in 1..Len(operadas) : operadas[k].manejador \in Manejadores
    BY Anotadas
  <2>2. \A k \in 1..Len(operadas') :
          fase'[operadas'[k].manejador] = "fin" /\ operadas'[k].escritas <= Len(lineas')
    BY <1>1, <1>2, <1>3, <1>4, <1>6, <2>1 DEF UnSitio
  <2>3. \A g \in Manejadores :
          /\ ~(EnCola(g)' /\ Escrita(g)')
          /\ EnCola(g)' \/ Escrita(g)' => fase'[g] # "leida"
          /\ g \in respuestas' \cup contestadas' => Escrita(g)'
    BY <1>1, <1>6 DEF UnSitio
  <2> QED BY <1>1, <2>2, <2>3 DEF UnSitio
<1>8. LineaAntes'
  <2>1. ASSUME h \in contestadas
        PROVE  \E i \in 1..Len(lineas) : lineas[i] = h
    BY <2>1 DEF UnSitio, Escrita
  <2> QED BY <1>1, <1>3, <1>4, <2>1 DEF LineaAntes
<1>9. UnaLinea' BY <1>1 DEF UnaLinea
<1> QED BY <1>5, <1>7, <1>8, <1>9

(* The first call is printed and leaves the queue; its reply, if anybody   *)
(* waits for it, is that of the new line.                                  *)
LEMMA LineaSegura ==
  ASSUME Seguro, log_prog_1
  PROVE  Seguro'
<1> USE DEF Seguro
<1> DEFINE h == Head(llamadas)
<1>1. /\ llamadas # <<>> /\ llamadas' = Tail(llamadas)
      /\ lineas' = Append(lineas, h)
      /\ respuestas' \subseteq respuestas \cup {h}
      /\ UNCHANGED <<fase, operadas, contestadas>>
  BY DEF log_prog_1, log_operation_1_svc
<1>2. /\ llamadas' \in Seq(Manejadores)
      /\ Len(llamadas) \in Nat \ {0} /\ Len(llamadas') = Len(llamadas) - 1
      /\ \A i \in 1..Len(llamadas') : llamadas'[i] = llamadas[i + 1]
      /\ h = llamadas[1] /\ h \in Manejadores
  BY <1>1, Resto DEF TipoRegistro
<1> HIDE DEF h
<1>3. /\ lineas' \in Seq(Manejadores)
      /\ Len(lineas) \in Nat /\ Len(lineas') = Len(lineas) + 1
      /\ \A i \in 1..Len(lineas) : lineas'[i] = lineas[i]
      /\ lineas'[Len(lineas) + 1] = h
  BY <1>1, <1>2, Anade DEF TipoRegistro
<1>4. TipoRegistro' BY <1>1, <1>2, <1>3 DEF TipoRegistro
<1>5. EnCola(h) /\ ~Escrita(h) BY <1>2 DEF EnCola, UnSitio
<1>6. \A g \in Manejadores : /\ EnCola(g)' => EnCola(g) /\ g # h
                             /\ Escrita(g)' <=> Escrita(g) \/ g = h
  <2>1. ASSUME NEW g \in Manejadores, EnCola(g)'
        PROVE  EnCola(g) /\ g # h
    <3>1. PICK i \in 1..Len(llamadas') : llamadas'[i] = g BY <2>1 DEF EnCola
    <3>2. i + 1 \in 1..Len(llamadas) /\ llamadas[i + 1] = g /\ 1 \in 1..Len(llamadas)
          /\ i + 1 # 1
      BY <1>2, <3>1
    <3> QED BY <1>2, <3>2 DEF EnCola, UnSitio
  <2>2. \A g \in Manejadores : Escrita(g)' <=> Escrita(g) \/ g = h
    BY <1>3 DEF Escrita
  <2> QED BY <2>1, <2>2
<1>7. UnSitio'
  <2>1. \A i, j \in 1..Len(llamadas') : llamadas'[i] = llamadas'[j] => i = j
    <3>1. \A i, j \in 1..Len(llamadas) : llamadas[i] = llamadas[j] => i = j
      BY DEF UnSitio
    <3> QED BY <1>2, <3>1
  <2>2. \A g \in Manejadores :
          /\ ~(EnCola(g)' /\ Escrita(g)')
          /\ EnCola(g)' \/ Escrita(g)' => fase'[g] # "leida"
          /\ g \in respuestas' \cup contestadas' => Escrita(g)'
    BY <1>1, <1>5, <1>6 DEF UnSitio
  <2>3. \A k \in 1..Len(operadas') :
          fase'[operadas'[k].manejador] = "fin" /\ operadas'[k].escritas <= Len(lineas')
    <3>1. \A k \in 1..Len(operadas) : operadas[k].escritas \in Nat BY Anotadas
    <3> QED BY <1>1, <1>3, <3>1 DEF UnSitio
  <2> QED BY <2>1, <2>2, <2>3 DEF UnSitio
<1>8. UnaLinea'
  <2>1. \A i \in 1..Len(lineas) : lineas[i] # h BY <1>5 DEF Escrita
  <2>2. \A i, j \in 1..Len(lineas) : lineas[i] = lineas[j] => i = j BY DEF UnaLinea
  <2>3. \A i, j \in 1..Len(lineas') : lineas'[i] = lineas'[j] => i = j
    BY <1>3, <2>1, <2>2
  <2> QED BY <2>3 DEF UnaLinea
<1>9. LineaAntes'
  <2>1. ASSUME NEW k \in 1..Len(operadas), operadas[k].manejador \in contestadas
        PROVE  \E i \in 1..operadas[k].escritas : lineas'[i] = operadas[k].manejador
    <3>1. operadas[k].escritas \in Nat BY Anotadas
    <3>2. PICK i \in 1..operadas[k].escritas : lineas[i] = operadas[k].manejador
      BY <2>1 DEF LineaAntes
    <3>3. i \in 1..Len(lineas) BY <1>3, <3>1 DEF UnSitio
    <3> QED BY <1>3, <3>2, <3>3
  <2> QED BY <1>1, <2>1 DEF LineaAntes
<1> QED BY <1>4, <1>7, <1>8, <1>9

(* The calls in course are lost; nothing that was printed is.              *)
LEMMA CaidaSegura ==
  ASSUME Seguro, CaeRPC
  PROVE  Seguro'
<1> USE DEF Seguro
<1>1. /\ llamadas' = <<>>
      /\ UNCHANGED <<fase, respuestas, lineas, operadas, contestadas>>
  BY DEF CaeRPC
<1>2. 1..Len(llamadas') = {} BY <1>1
<1>3. TipoRegistro' BY <1>1, EmptySeq DEF TipoRegistro
<1>4. \A g \in Manejadores : ~EnCola(g)' /\ (Escrita(g)' <=> Escrita(g))
  BY <1>1, <1>2 DEF EnCola, Escrita
<1>5. UnSitio'
  <2>1. \A g \in Manejadores :
          /\ ~(EnCola(g)' /\ Escrita(g)')
          /\ EnCola(g)' \/ Escrita(g)' => fase'[g] # "leida"
          /\ g \in respuestas' \cup contestadas' => Escrita(g)'
    BY <1>1, <1>4 DEF UnSitio
  <2>2. \A k \in 1..Len(operadas') :
          fase'[operadas'[k].manejador] = "fin" /\ operadas'[k].escritas <= Len(lineas')
    BY <1>1 DEF UnSitio
  <2> QED BY <1>2, <2>1, <2>2 DEF UnSitio
<1>6. UnaLinea' /\ LineaAntes' BY <1>1 DEF UnaLinea, LineaAntes
<1> QED BY <1>3, <1>5, <1>6
-----------------------------------------------------------------------------
(* Every step keeps a call in one place.                                   *)
LEMMA PasoSeguro == Seguro /\ [NextRPC]_vars => Seguro'
<1> SUFFICES ASSUME Seguro, [NextRPC]_vars PROVE Seguro'
  OBVIOUS
<1>1. ASSUME NEW h \in Manejadores, SinRegistro(h) PROVE Seguro'
  <2>1. /\ fase[h] = "leida" /\ fase' = [fase EXCEPT ![h] = "opera"]
        /\ UNCHANGED <<llamadas, respuestas, lineas, operadas, contestadas>>
    BY <1>1 DEF SinRegistro, Pasa, varsRPC, registro
  <2>2. TipoRegistro' BY <2>1 DEF Seguro, TipoRegistro, Fases
  <2>3. \A g \in Manejadores : /\ fase'[g] = "leida" => fase[g] = "leida"
                               /\ fase[g] = "fin" => fase'[g] = "fin"
    BY <2>1 DEF Seguro, TipoRegistro
  <2> QED BY <2>1, <2>2, <2>3, SinListas
<1>2. ASSUME NEW h \in Manejadores, FinDeLlamada(h) PROVE Seguro'
  <2>1. /\ fase[h] = "llama" /\ fase' = [fase EXCEPT ![h] = "opera"]
        /\ respuestas' = respuestas \ {h}
        /\ contestadas' = contestadas \cup ({h} \cap respuestas)
        /\ UNCHANGED <<llamadas, lineas, operadas>>
    BY <1>2 DEF FinDeLlamada, Vuelve, Pasa
  <2>2. TipoRegistro' BY <2>1 DEF Seguro, TipoRegistro, Fases
  <2>3. \A g \in Manejadores : /\ fase'[g] = "leida" => fase[g] = "leida"
                               /\ fase[g] = "fin" => fase'[g] = "fin"
    BY <2>1 DEF Seguro, TipoRegistro
  <2> QED BY <2>1, <2>2, <2>3, SinListas
<1>3. CASE ArrancaRPC \/ log_rpc_destroy \/ UNCHANGED vars
  <2>1. UNCHANGED <<fase, llamadas, respuestas, lineas, operadas, contestadas>>
    BY <1>3 DEF ArrancaRPC, log_rpc_destroy, vars, varsRPC, registro
  <2>2. TipoRegistro' BY <2>1 DEF Seguro, TipoRegistro
  <2> QED BY <2>1, <2>2, SinListas
<1> QED
  BY <1>1, <1>2, <1>3, LlamadaSegura, OperacionSegura, LineaSegura, CaidaSegura
     DEF NextRPC, Maneja

(* A call is in one place at a time: queue, log, or lost.                  *)
THEOREM UnSitioCorrecto == SpecRPC => []UnSitio
<1>1. Seguro => UnSitio BY DEF Seguro
<1> QED BY <1>1, RegistroInicial, PasoSeguro, PTL DEF SpecRPC

(* No request is logged twice, though calls time out, are printed late and *)
(* are lost with an RPC server that dies and comes back.                   *)
THEOREM UnaLineaCorrecta == SpecRPC => []UnaLinea
<1>1. Seguro => UnaLinea BY DEF Seguro
<1> QED BY <1>1, RegistroInicial, PasoSeguro, PTL DEF SpecRPC

(* The line of an answered call is printed before its operation.           *)
THEOREM LineaAntesCorrecta == SpecRPC => []LineaAntes
<1>1. Seguro => LineaAntes BY DEF Seguro
<1> QED BY <1>1, RegistroInicial, PasoSeguro, PTL DEF SpecRPC
=============================================================================
