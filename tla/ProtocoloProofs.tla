--------------------------- MODULE ProtocoloProofs ---------------------------
(***************************************************************************)
(* Whatever the sizes of the buffers, the lengths of the strings and the   *)
(* byte at which a request is cut, the reading stays aligned with what the *)
(* client wrote, and so only whole requests are executed and their answers *)
(* are not lost in a reset.                                                *)
(***************************************************************************)
EXTENDS Protocolo, SequenceTheorems, TLAPS

(* A request: as many strings as its handler has buffers, after the name   *)
(* of the operation, each with at least its final zero.                    *)
BienHecha ==
    /\ Op \in Operaciones \cup {"otra"}
    /\ Len(peticion.cadenas) =
          IF Op \in Operaciones THEN Len(Buferes[Op]) + 1 ELSE 1
    /\ \A k \in 1..Len(peticion.cadenas) : peticion.cadenas[k] \in Nat \ {0}

(* What the readers of a code rely on: it is chosen once, by the service,  *)
(* and the client gets it when the thread is done.                         *)
Respondida ==
    /\ ejecutada => codigo # Nada /\ fase \notin {"lee", "ejecuta"}
    /\ recibido # Nada => fase = "cerrada" /\ cerrado

Contadores ==
    /\ leidos \in Nat /\ pos \in Nat
    /\ \E n \in Nat : fines \in [1..n -> Nat]

Inv == BienHecha /\ Contadores /\ Respondida /\ Alineada /\ RespuestaSinCorte

(* A handler has between one and four buffers of at least one byte.        *)
LEMMA TamanoBuferes ==
  ASSUME NEW op \in Operaciones
  PROVE  /\ Len(Buferes[op]) \in 1..4
         /\ \A k \in 1..Len(Buferes[op]) : Buferes[op][k] \in Nat \ {0}
<1>0. MaxTexto \in Nat \ {0} /\ MaxPuerto \in Nat \ {0}
  BY ProtocoloAssumption
<1>1. op \in {"REGISTER", "UNREGISTER", "CONNECT", "DISCONNECT", "SEND",
              "SENDATTACH", "USERS"}
  BY DEF Operaciones, Buferes
<1>2. CASE op \in {"REGISTER", "UNREGISTER", "DISCONNECT", "USERS"}
  <2>1. Buferes[op] = <<MaxTexto>> BY <1>2 DEF Buferes
  <2> QED BY <1>0, <2>1
<1>3. CASE op = "CONNECT"
  <2>1. Buferes[op] = <<MaxTexto, MaxPuerto>> BY <1>3 DEF Buferes
  <2> QED BY <1>0, <2>1
<1>4. CASE op = "SEND"
  <2>1. Buferes[op] = <<MaxTexto, MaxTexto, MaxTexto>> BY <1>4 DEF Buferes
  <2> QED BY <1>0, <2>1
<1>5. CASE op = "SENDATTACH"
  <2>1. Buferes[op] = <<MaxTexto, MaxTexto, MaxTexto, MaxTexto>> BY <1>5 DEF Buferes
  <2> QED BY <1>0, <2>1
<1> QED BY <1>1, <1>2, <1>3, <1>4, <1>5

(* What a sequence of at most five lengths adds up to: Hasta is what its   *)
(* equation says, and grows.                                               *)
LEMMA SumaHasta ==
  ASSUME BienHecha
  PROVE  LET n == Len(peticion.cadenas)
         IN  /\ n \in 1..5
             /\ \A k \in 0..n : Hasta[k] \in Nat
             /\ Hasta[0] = 0
             /\ \A k \in 1..n : Hasta[k] = Hasta[k - 1] + peticion.cadenas[k]
             /\ \A j, k \in 0..n : j < k => Hasta[j] < Hasta[k]
<1> DEFINE c == peticion.cadenas
           n == Len(peticion.cadenas)
           S1 == c[1]
           S2 == S1 + c[2]
           S3 == S2 + c[3]
           S4 == S3 + c[4]
           S5 == S4 + c[5]
           g == [k \in 0..n |-> IF k = 0 THEN 0 ELSE IF k = 1 THEN S1
                                ELSE IF k = 2 THEN S2 ELSE IF k = 3 THEN S3
                                ELSE IF k = 4 THEN S4 ELSE S5]
<1>1. n \in 1..5 /\ \A k \in 1..n : c[k] \in Nat \ {0}
  <2>1. n \in 1..5
    <3>1. CASE Op \in Operaciones
      <4> DEFINE b == Len(Buferes[Op])
      <4>1. b \in 1..4 BY <3>1, TamanoBuferes
      <4>2. n = b + 1 BY <3>1 DEF BienHecha
      <4> HIDE DEF n, b
      <4> QED BY <4>1, <4>2
    <3>2. CASE Op \notin Operaciones
      BY <3>2 DEF BienHecha
    <3> QED BY <3>1, <3>2
  <2> QED BY <2>1 DEF BienHecha
<1>2. \A k \in 0..n : k \in {0, 1, 2, 3, 4, 5}
  BY <1>1
<1> HIDE DEF n, c
<1>3. g = [k \in 0..n |-> IF k = 0 THEN 0 ELSE g[k - 1] + c[k]]
  <2>1. ASSUME NEW k \in 0..n
        PROVE  g[k] = IF k = 0 THEN 0 ELSE g[k - 1] + c[k]
    <3>1. k = 0 \/ k - 1 \in 0..n BY <1>1
    <3> QED BY <1>1, <1>2, <3>1
  <2>2. DOMAIN g = 0..n /\ g = [k \in 0..n |-> g[k]]
    OBVIOUS
  <2> HIDE DEF g
  <2> QED BY <2>1, <2>2
<1>4. Hasta = [k \in 0..n |-> IF k = 0 THEN 0 ELSE Hasta[k - 1] + c[k]]
  <2> HIDE DEF g
  <2> QED BY <1>3 DEF Hasta, n, c
<1>5. \A k \in 0..n : Hasta[k] = IF k = 0 THEN 0 ELSE Hasta[k - 1] + c[k]
  BY <1>4
<1>6. Hasta[0] = 0 /\ \A k \in 1..n : Hasta[k] = Hasta[k - 1] + c[k]
  BY <1>1, <1>5
<1>7. /\ 0 \in 0..n /\ Hasta[0] \in Nat
      /\ \A k \in 1..n : Hasta[k - 1] \in Nat => Hasta[k] \in Nat /\ Hasta[k - 1] < Hasta[k]
  BY <1>1, <1>6
<1>8. /\ Hasta[1] \in Nat /\ Hasta[0] < Hasta[1]
      /\ n >= 2 => Hasta[2] \in Nat /\ Hasta[1] < Hasta[2]
      /\ n >= 3 => Hasta[3] \in Nat /\ Hasta[2] < Hasta[3]
      /\ n >= 4 => Hasta[4] \in Nat /\ Hasta[3] < Hasta[4]
      /\ n >= 5 => Hasta[5] \in Nat /\ Hasta[4] < Hasta[5]
  <2>1. Hasta[1] \in Nat /\ Hasta[0] < Hasta[1] BY <1>1, <1>7
  <2>2. n >= 2 => Hasta[2] \in Nat /\ Hasta[1] < Hasta[2] BY <1>1, <1>7, <2>1
  <2>3. n >= 3 => Hasta[3] \in Nat /\ Hasta[2] < Hasta[3] BY <1>1, <1>7, <2>2
  <2>4. n >= 4 => Hasta[4] \in Nat /\ Hasta[3] < Hasta[4] BY <1>1, <1>7, <2>3
  <2>5. n >= 5 => Hasta[5] \in Nat /\ Hasta[4] < Hasta[5] BY <1>1, <1>7, <2>4
  <2> QED BY <2>1, <2>2, <2>3, <2>4, <2>5
<1>9. \A k \in 0..n : Hasta[k] \in Nat
  BY <1>1, <1>2, <1>7, <1>8
<1>10. \A j, k \in 0..n : j < k => Hasta[j] < Hasta[k]
  BY <1>1, <1>2, <1>6, <1>8, <1>9
<1> QED BY <1>1, <1>6, <1>9, <1>10 DEF n, c

(* Inside a string, the zero that ends it is the only one to come next.    *)
LEMMA SoloElSuyo ==
  ASSUME BienHecha, NEW i \in 0..(Len(peticion.cadenas) - 1), NEW p \in Nat,
         p < peticion.cadenas[i + 1]
  PROVE  FinDeCadena(Hasta[i] + p + 1) <=> p + 1 = peticion.cadenas[i + 1]
<1>1. /\ Len(peticion.cadenas) \in 1..5 /\ i + 1 \in 1..Len(peticion.cadenas)
      /\ Hasta[i] \in Nat /\ Hasta[i + 1] \in Nat
      /\ peticion.cadenas[i + 1] \in Nat
      /\ Hasta[i + 1] = Hasta[i] + peticion.cadenas[i + 1]
  BY SumaHasta DEF BienHecha
<1>2. ASSUME NEW k \in 1..Len(peticion.cadenas), Hasta[k] = Hasta[i] + p + 1
      PROVE  k = i + 1
  <2>1. k \in 0..Len(peticion.cadenas) /\ Hasta[k] \in Nat
    BY <1>1, SumaHasta
  <2>2. ~(k <= i)
    <3>1. k < i => Hasta[k] < Hasta[i] BY <1>1, <2>1, SumaHasta
    <3> QED BY <1>1, <1>2, <2>1, <3>1
  <2>3. ~(i + 1 < k)
    <3>1. i + 1 < k => Hasta[i + 1] < Hasta[k] BY <1>1, <2>1, SumaHasta
    <3> QED BY <1>1, <1>2, <2>1, <3>1
  <2> QED BY <1>1, <2>1, <2>2, <2>3
<1>3. FinDeCadena(Hasta[i] + p + 1) => p + 1 = peticion.cadenas[i + 1]
  <2>1. SUFFICES ASSUME NEW k \in 1..Len(peticion.cadenas), Hasta[k] = Hasta[i] + p + 1
                 PROVE  p + 1 = peticion.cadenas[i + 1]
    BY DEF FinDeCadena
  <2>2. k = i + 1 BY <1>2, <2>1
  <2> QED BY <1>1, <2>1, <2>2
<1>4. p + 1 = peticion.cadenas[i + 1] => FinDeCadena(Hasta[i] + p + 1)
  <2>1. SUFFICES ASSUME p + 1 = peticion.cadenas[i + 1]
                 PROVE  Hasta[i] + p + 1 = Hasta[i + 1]
    BY <1>1 DEF FinDeCadena
  <2> QED BY <1>1, <2>1
<1> QED BY <1>3, <1>4

(* A request is well made, and nothing of it was read.                     *)
LEMMA ProtocoloInicial == Init => Inv
<1> SUFFICES ASSUME Init PROVE Inv
  OBVIOUS
<1>1. PICK op \in Operaciones \cup {"otra"} :
         peticion \in [operacion : {op}, cadenas : Longitudes(op)]
  BY DEF Init
<1>2. peticion.operacion = op /\ peticion.cadenas \in Longitudes(op)
  BY <1>1
<1>3. BienHecha
  <2>1. CASE op \notin Operaciones
    <3>1. PICK l \in 1..MaxOp + Exceso : peticion.cadenas = <<l>>
      BY <1>2, <2>1 DEF Longitudes
    <3>2. l \in Nat \ {0} BY ProtocoloAssumption
    <3>3. Len(peticion.cadenas) = 1 /\ peticion.cadenas[1] = l BY <3>1
    <3>4. Op = "otra" BY <1>1, <1>2, <2>1 DEF Op
    <3> QED BY <1>2, <2>1, <3>2, <3>3, <3>4 DEF BienHecha, Op
  <2>2. CASE op \in Operaciones
    <3> DEFINE m == Len(Buferes[op])
    <3>1. m \in 1..4 BY <2>2, TamanoBuferes
    <3>2. PICK l \in [1..m -> 1..MaxTexto + Exceso] : peticion.cadenas = <<2>> \o l
      BY <1>2, <2>2 DEF Longitudes
    <3> HIDE DEF m
    <3>3. 1..MaxTexto + Exceso \subseteq Nat \ {0} /\ 2 \in Nat \ {0}
      BY ProtocoloAssumption
    <3>4. l \in Seq(Nat \ {0}) /\ Len(l) = m
      BY <3>1, <3>2, <3>3, SeqDef, LenProperties
    <3>5. <<2>> \in Seq(Nat \ {0}) /\ Len(<<2>>) = 1
      BY <3>3
    <3>6. /\ peticion.cadenas \in Seq(Nat \ {0})
          /\ Len(peticion.cadenas) = m + 1
      BY <3>1, <3>2, <3>4, <3>5, ConcatProperties
    <3>7. \A k \in 1..Len(peticion.cadenas) : peticion.cadenas[k] \in Nat \ {0}
      BY <3>6, ElementOfSeq
    <3> QED BY <1>2, <2>2, <3>6, <3>7 DEF BienHecha, Op, m
  <2> QED BY <2>1, <2>2
<1>4. /\ fase = "lee" /\ leidos = 0 /\ pos = 0 /\ fines = <<>>
      /\ ejecutada = FALSE /\ recibido = Nada
  BY DEF Init
<1>5. Contadores
  <2>1. fines \in [1..0 -> Nat] BY <1>4
  <2> QED BY <1>4, <2>1 DEF Contadores
<1>6. Alineada
  <2>1. Len(fines) = 0 /\ Cadena = 1 BY <1>4 DEF Cadena
  <2>2. Len(peticion.cadenas) \in 1..5 /\ Hasta[0] = 0 BY <1>3, SumaHasta
  <2>3. 0 < peticion.cadenas[1] BY <1>3, <2>2 DEF BienHecha
  <2>4. 0 < MaxLen(1) BY ProtocoloAssumption DEF MaxLen
  <2>5. Enteras(0) BY <2>2 DEF Enteras
  <2> QED BY <1>4, <2>1, <2>2, <2>3, <2>4, <2>5 DEF Alineada
<1> QED BY <1>3, <1>4, <1>5, <1>6 DEF Inv, Respondida, RespuestaSinCorte

(* Nobody changes a request, nor where its strings end.                    *)
LEMMA PeticionFija ==
  ASSUME Inv, UNCHANGED peticion
  PROVE  /\ BienHecha' /\ Total' = Total /\ Op' = Op /\ Hasta' = Hasta
  BY DEF Inv, BienHecha, Total, Op, Hasta

(* A step that reads nothing keeps the reading aligned.                    *)
LEMMA SinLeer ==
  ASSUME Inv, UNCHANGED <<peticion, lectura>>,
         fase' = "lee" => fase = "lee",
         fase' = "ejecuta" \/ ejecutada' => fase = "ejecuta" \/ ejecutada
  PROVE  BienHecha' /\ Contadores' /\ Alineada'
<1>1. BienHecha' /\ Total' = Total /\ Op' = Op /\ Hasta' = Hasta
  BY PeticionFija
<1>2. Contadores' BY DEF Inv, Contadores, lectura
<1>3. Alineada'
  BY <1>1 DEF Inv, Alineada, Enteras, lectura, Cadena, MaxLen
<1> QED BY <1>1, <1>2, <1>3

(* recv_string fails: the thread answers, if at all, without having called *)
(* the service.                                                            *)
LEMMA FallaBien ==
  ASSUME Inv, fase = "lee", FallaLectura, UNCHANGED <<cliente, ejecutada, trozo>>,
         leidos' \in Nat
  PROVE  Inv'
<1>1. BienHecha' /\ Total' = Total /\ Op' = Op /\ Hasta' = Hasta
  BY PeticionFija DEF cliente
<1>2. /\ ~ejecutada /\ ~ejecutada' /\ fase' \notin {"lee", "ejecuta"}
      /\ recibido = Nada /\ recibido' = Nada
      /\ UNCHANGED <<pos, fines, peticion>>
  BY DEF Inv, Respondida, FallaLectura, cliente
<1>3. Contadores' BY <1>2 DEF Inv, Contadores
<1>4. Alineada'
  BY <1>1, <1>2 DEF Inv, Alineada, Enteras, MaxLen
<1> QED BY <1>1, <1>2, <1>3, <1>4 DEF Inv, Respondida, RespuestaSinCorte

(* One byte: it is the zero that ends the string being read, or the buffer *)
(* is full, or there is room for more.                                     *)
LEMMA ByteBien == Inv /\ LeeByte => Inv'
<1> SUFFICES ASSUME Inv, LeeByte PROVE Inv'
  OBVIOUS
<1> DEFINE n == Len(peticion.cadenas)
<1>1. /\ fase = "lee" /\ ~ejecutada /\ recibido = Nada /\ leidos' = leidos + 1
      /\ UNCHANGED <<cliente, ejecutada, trozo, peticion, recibido>>
      /\ leidos \in Nat /\ pos \in Nat
  BY DEF Inv, Respondida, LeeByte, cliente, Contadores
<1>2. BienHecha' /\ Total' = Total /\ Op' = Op /\ Hasta' = Hasta
  BY <1>1, PeticionFija
<1>0. fines \in Seq(Nat)
  <2>1. PICK m \in Nat : fines \in [1..m -> Nat] BY DEF Inv, Contadores
  <2> QED BY <2>1, SeqDef
<1>3. PICK f \in Nat : f = Len(fines)
  BY <1>0, LenProperties
<1>4. /\ n \in 1..5 /\ f < n /\ f + 1 \in 1..n /\ f \in 0..(n - 1) /\ f \in 0..n
      /\ leidos = Hasta[f] + pos /\ Hasta[f] \in Nat
      /\ pos < peticion.cadenas[f + 1] /\ pos < MaxLen(f + 1)
      /\ Hasta[f + 1] = Hasta[f] + peticion.cadenas[f + 1]
      /\ peticion.cadenas[f + 1] \in Nat /\ Cadena = f + 1
  <2>1. n \in 1..5 BY SumaHasta DEF Inv
  <2>2. f < n /\ leidos = Hasta[f] + pos /\ Cadena = f + 1
        /\ pos < peticion.cadenas[f + 1] /\ pos < MaxLen(f + 1)
    BY <1>1, <1>3 DEF Inv, Alineada, Cadena
  <2>3. f + 1 \in 1..n /\ f \in 0..(n - 1) /\ f \in 0..n /\ (f + 1) - 1 = f
    BY <1>3, <2>1, <2>2
  <2>4. Hasta[f] \in Nat /\ Hasta[f + 1] = Hasta[f] + peticion.cadenas[f + 1]
    BY <2>3, SumaHasta DEF Inv
  <2>5. peticion.cadenas[f + 1] \in Nat BY <2>3 DEF Inv, BienHecha
  <2> QED BY <2>1, <2>2, <2>3, <2>4, <2>5
<1>5. FinDeCadena(leidos + 1) <=> pos + 1 = peticion.cadenas[f + 1]
  <2>1. FinDeCadena(Hasta[f] + pos + 1) <=> pos + 1 = peticion.cadenas[f + 1]
    BY <1>1, <1>4, SoloElSuyo DEF Inv
  <2> QED BY <1>1, <1>4, <2>1
<1>6. Enteras(f) /\ MaxLen(f + 1) \in Nat
  <2>1. Enteras(f) BY <1>3 DEF Inv, Alineada
  <2>2. MaxLen(f + 1) \in Nat
    <3>1. CASE f = 0 BY <3>1, ProtocoloAssumption DEF MaxLen
    <3>2. CASE f # 0
      <4>1. Op \in Operaciones /\ f \in 1..Len(Buferes[Op])
        BY <1>3, <1>4, <3>2, TamanoBuferes DEF Inv, BienHecha
      <4>2. Buferes[Op][f] \in Nat BY <4>1, TamanoBuferes
      <4>3. f + 1 # 1 /\ (f + 1) - 1 = f BY <1>3, <3>2
      <4> QED BY <4>2, <4>3 DEF MaxLen
    <3> QED BY <3>1, <3>2
  <2> QED BY <2>1, <2>2
<1>7. CASE pos + 1 = peticion.cadenas[f + 1]
  <2>1. TerminaCadena
    BY <1>1, <1>5, <1>7 DEF LeeByte, TrasByte
  <2>2. /\ fines' = Append(fines, leidos + 1) /\ pos' = 0
        /\ fase' = IF Op \notin Operaciones THEN "cerrada"
                   ELSE IF EsUltima(f + 1) THEN "ejecuta" ELSE "lee"
    BY <1>1, <1>4, <2>1 DEF TerminaCadena
  <2>3. /\ fines' \in Seq(Nat) /\ Len(fines') = f + 1
        /\ \A k \in 1..f : fines'[k] = fines[k]
        /\ fines'[f + 1] = leidos + 1
    BY <1>0, <1>1, <1>3, <2>2, AppendProperties
  <2>4. Contadores'
    <3>1. fines' \in [1..(f + 1) -> Nat] BY <2>3, LenProperties
    <3> QED BY <1>1, <1>3, <2>2, <3>1 DEF Contadores
  <2>5. leidos + 1 = Hasta[f + 1]
    <3> DEFINE h == Hasta[f]
               l == peticion.cadenas[f + 1]
    <3>1. leidos = h + pos /\ h \in Nat /\ pos \in Nat BY <1>1, <1>4
    <3>2. Hasta[f + 1] = h + l /\ l = pos + 1 BY <1>4, <1>7
    <3> HIDE DEF h, l
    <3> QED BY <3>1, <3>2
  <2>6. Enteras(f + 1)'
    <3>1. \A k \in 1..f : fines[k] = Hasta[k] /\ peticion.cadenas[k] <= MaxLen(k)
      BY <1>6 DEF Enteras
    <3>2. peticion.cadenas[f + 1] <= MaxLen(f + 1)
      BY <1>1, <1>4, <1>6, <1>7
    <3>3. \A k \in 1..(f + 1) : k \in 1..f \/ k = f + 1 BY <1>3
    <3>4. \A k \in 1..(f + 1) : fines'[k] = Hasta[k] /\ peticion.cadenas[k] <= MaxLen(k)
      BY <2>3, <2>5, <3>1, <3>2, <3>3
    <3> QED BY <1>1, <1>2, <1>4, <3>4 DEF Enteras, MaxLen
  <2>7. CASE Op \notin Operaciones
    <3>1. fase' = "cerrada" BY <2>2, <2>7
    <3>2. Alineada' BY <1>1, <2>3, <2>6, <3>1 DEF Alineada
    <3> QED BY <1>1, <1>2, <2>4, <3>1, <3>2 DEF Inv, Respondida, RespuestaSinCorte
  <2>8. CASE Op \in Operaciones /\ EsUltima(f + 1)
    <3>1. fase' = "ejecuta" BY <2>2, <2>8
    <3>2. n = Len(Buferes[Op]) + 1 /\ Len(Buferes[Op]) \in 1..4
      BY <2>8, TamanoBuferes DEF Inv, BienHecha
    <3>3. f + 1 = n BY <1>3, <1>4, <2>8, <3>2 DEF EsUltima
    <3>4. leidos' = Total' BY <1>1, <1>2, <2>5, <3>3 DEF Total
    <3>5. Len(fines') = Len(peticion'.cadenas) BY <1>1, <2>3, <3>3
    <3>6. Alineada' BY <1>2, <2>3, <2>6, <2>8, <3>1, <3>4, <3>5 DEF Alineada
    <3> QED BY <1>1, <1>2, <2>4, <3>1, <3>6 DEF Inv, Respondida, RespuestaSinCorte
  <2>9. CASE Op \in Operaciones /\ ~EsUltima(f + 1)
    <3>1. fase' = "lee" BY <2>2, <2>9
    <3>2. n = Len(Buferes[Op]) + 1 /\ Len(Buferes[Op]) \in 1..4
      BY <2>9, TamanoBuferes DEF Inv, BienHecha
    <3>3. f + 1 \in 1..Len(Buferes[Op]) /\ f + 1 < n /\ f + 2 \in 1..n
      BY <1>3, <2>9, <3>2 DEF EsUltima
    <3>4. Cadena' = f + 2 BY <1>3, <2>3 DEF Cadena
    <3>5. 0 < peticion.cadenas[f + 2] BY <3>3 DEF Inv, BienHecha
    <3>6. 0 < MaxLen(f + 2)
      <4>1. Buferes[Op][f + 1] \in Nat \ {0} BY <2>9, <3>3, TamanoBuferes
      <4>2. f + 2 # 1 /\ (f + 2) - 1 = f + 1 BY <1>3
      <4>3. MaxLen(f + 2) = Buferes[Op][f + 1] BY <4>2 DEF MaxLen
      <4> QED BY <4>1, <4>3
    <3>7. MaxLen(f + 2)' = MaxLen(f + 2) BY <1>2 DEF MaxLen
    <3>8. leidos' = Hasta'[f + 1] + pos'
      BY <1>1, <1>2, <1>4, <2>2, <2>5
    <3>9. Alineada'
      BY <1>1, <1>2, <2>2, <2>3, <2>6, <3>1, <3>3, <3>4, <3>5, <3>6, <3>7, <3>8 DEF Alineada
    <3> QED BY <1>1, <1>2, <2>4, <3>1, <3>9 DEF Inv, Respondida, RespuestaSinCorte
  <2> QED BY <2>7, <2>8, <2>9
<1>8. CASE pos + 1 # peticion.cadenas[f + 1] /\ pos + 1 = MaxLen(f + 1)
  <2>1. FallaLectura BY <1>1, <1>4, <1>5, <1>8 DEF LeeByte, TrasByte
  <2> QED BY <1>1, <2>1, FallaBien
<1>9. CASE pos + 1 # peticion.cadenas[f + 1] /\ pos + 1 # MaxLen(f + 1)
  <2>1. SigueCadena BY <1>1, <1>4, <1>5, <1>9 DEF LeeByte, TrasByte
  <2>2. pos' = pos + 1 /\ UNCHANGED <<fines, fase, codigo>>
    BY <2>1 DEF SigueCadena
  <2>3. Contadores' BY <1>1, <2>2 DEF Inv, Contadores
  <2>4. Enteras(f)' BY <1>1, <1>2, <1>6, <2>2 DEF Enteras, MaxLen
  <2>5. pos + 1 < peticion.cadenas[f + 1] /\ pos + 1 < MaxLen(f + 1)
    BY <1>1, <1>4, <1>6, <1>9
  <2>6. leidos' = Hasta'[f] + pos'
    <3> DEFINE h == Hasta[f]
    <3>1. leidos = h + pos /\ h \in Nat /\ pos \in Nat BY <1>1, <1>4
    <3>2. leidos' = leidos + 1 /\ pos' = pos + 1 /\ Hasta'[f] = h BY <1>1, <1>2, <2>2
    <3> HIDE DEF h
    <3>3. leidos + 1 = h + (pos + 1) BY <3>1
    <3> QED BY <3>2, <3>3
  <2>7. Cadena' = f + 1 /\ MaxLen(f + 1)' = MaxLen(f + 1)
    BY <1>2, <1>4, <2>2 DEF MaxLen, Cadena
  <2>8. Alineada'
    BY <1>1, <1>2, <1>3, <1>4, <2>2, <2>4, <2>5, <2>6, <2>7 DEF Alineada
  <2> QED BY <1>1, <1>2, <2>2, <2>3, <2>8 DEF Inv, Respondida, RespuestaSinCorte
<1> QED BY <1>7, <1>8, <1>9

(* Every step keeps the reading aligned.                                   *)
LEMMA ProtocoloPaso == Inv /\ [Next]_vars => Inv'
<1> SUFFICES ASSUME Inv, [Next]_vars PROVE Inv'
  OBVIOUS
<1>1. CASE Envia
  <2>1. BienHecha' /\ Contadores' /\ Alineada' BY <1>1, SinLeer DEF Envia
  <2> QED BY <1>1, <2>1 DEF Envia, Inv, Respondida, RespuestaSinCorte
<1>2. CASE CierraCliente
  <2>1. BienHecha' /\ Contadores' /\ Alineada' BY <1>2, SinLeer DEF CierraCliente
  <2> QED BY <1>2, <2>1 DEF CierraCliente, Inv, Respondida, RespuestaSinCorte
<1>3. CASE Recibe
  <2>1. BienHecha' /\ Contadores' /\ Alineada' BY <1>3, SinLeer DEF Recibe
  <2>2. ejecutada => codigo # Nada /\ leidos = Total
    BY DEF Inv, Respondida, Alineada
  <2>3. ejecutada => recibido' = codigo BY <1>3, <2>2 DEF Recibe
  <2> QED BY <1>3, <2>1, <2>3 DEF Recibe, Inv, Respondida, RespuestaSinCorte
<1>4. CASE LeeByte BY <1>4, ByteBien
<1>5. CASE FinDeFlujo
  BY <1>5, FallaBien DEF FinDeFlujo, Inv, Contadores
<1>6. CASE Ejecuta
  <2>1. BienHecha' /\ Contadores' /\ Alineada'
    BY <1>6, SinLeer DEF Ejecuta, cliente
  <2>2. codigo' # Nada
    BY <1>6, ProtocoloAssumption DEF Ejecuta, Respuestas
  <2>3. recibido = Nada /\ recibido' = Nada
    BY <1>6 DEF Ejecuta, Inv, Respondida, cliente
  <2> QED BY <1>6, <2>1, <2>2, <2>3 DEF Ejecuta, Inv, Respondida, RespuestaSinCorte
<1>7. CASE Responde
  <2>1. BienHecha' /\ Contadores' /\ Alineada'
    BY <1>7, SinLeer DEF Responde, cliente
  <2>2. recibido = Nada /\ recibido' = Nada
    BY <1>7 DEF Responde, Inv, Respondida, cliente
  <2> QED BY <1>7, <2>1, <2>2 DEF Responde, Inv, Respondida, RespuestaSinCorte
<1>8. CASE Sigpipe
  <2>1. BienHecha' /\ Contadores' /\ Alineada'
    BY <1>8, SinLeer DEF Sigpipe, cliente
  <2>2. recibido = Nada /\ recibido' = Nada
    BY <1>8 DEF Sigpipe, Inv, Respondida, cliente
  <2> QED BY <1>8, <2>1, <2>2 DEF Sigpipe, Inv, Respondida, RespuestaSinCorte
<1>9. CASE UNCHANGED vars
  <2>1. BienHecha' /\ Contadores' /\ Alineada'
    BY <1>9, SinLeer DEF vars, cliente
  <2> QED BY <1>9, <2>1 DEF vars, cliente, Inv, Respondida, RespuestaSinCorte
<1> QED BY <1>1, <1>2, <1>3, <1>4, <1>5, <1>6, <1>7, <1>8, <1>9 DEF Next, Hilo

(* So it holds for ever.                                                   *)
LEMMA ProtocoloSeguro == Spec => []Inv
BY ProtocoloInicial, ProtocoloPaso, PTL DEF Spec

(* The reading never loses its place in what the client wrote              *)
(* (protocolo.c:51-74).                                                    *)
THEOREM AlineadaCorrecta == Spec => []Alineada
<1>1. Inv => Alineada BY DEF Inv
<1> QED BY <1>1, ProtocoloSeguro, PTL

(* The service is called only with the strings that the client wrote,      *)
(* whole and within their buffers (server.c:484-495).                      *)
THEOREM EjecucionFielCorrecta == Spec => []EjecucionFiel
<1>1. Inv => EjecucionFiel
  <2> SUFFICES ASSUME Inv, ejecutada PROVE EjecucionFiel
    BY DEF EjecucionFiel
  <2>1. /\ Op \in Operaciones /\ Enteras(Len(fines))
        /\ Len(fines) = Len(Buferes[Op]) + 1
    BY DEF Inv, Alineada, BienHecha
  <2>2. Len(Buferes[Op]) \in Nat BY <2>1, TamanoBuferes
  <2> QED BY <2>1, <2>2 DEF EjecucionFiel, Enteras
<1> QED BY <1>1, ProtocoloSeguro, PTL

(* The answer to a request that was executed is not lost in a reset        *)
(* (server.c:514-515, :678).                                               *)
THEOREM RespuestaSinCorteCorrecta == Spec => []RespuestaSinCorte
<1>1. Inv => RespuestaSinCorte BY DEF Inv
<1> QED BY <1>1, ProtocoloSeguro, PTL

(* What a thread has written: nothing before it answers, and while it      *)
(* answers fewer pieces than the answer has.  Only the service says yes.   *)
Escrituras ==
    /\ trozo \in Nat
    /\ fase \in {"lee", "ejecuta"} => trozo = 0 /\ codigo = Nada
    /\ fase = "responde" => trozo < Envios(Op, codigo)
    /\ codigo = "PROTO_OK" => ejecutada
    /\ fase = "muerto" => cerrado
    /\ MuerteTrasExito

(* An answer has a piece at least, and more than one only if it is that of *)
(* a success.                                                              *)
LEMMA EnviosDe ==
  ASSUME NEW op, NEW c
  PROVE  /\ Envios(op, c) \in 1..3
         /\ Envios(op, c) > 1 => c = "PROTO_OK" /\ op \in {"SEND", "SENDATTACH", "USERS"}
BY DEF Envios

(* A read that fails answers with an error, or with nothing.               *)
LEMMA FallaSinExito ==
  ASSUME FallaLectura
  PROVE  codigo' # "PROTO_OK" /\ fase' \in {"cerrada", "responde"}
<1>1. Nada # "PROTO_OK" BY ProtocoloAssumption
<1>2. SiFalla(Op) # "PROTO_OK" BY <1>1 DEF SiFalla
<1> QED BY <1>1, <1>2 DEF FallaLectura

(* Every step keeps the account of what was written.                       *)
LEMMA EscriturasPaso == Escrituras /\ [Next]_vars => Escrituras'
<1> SUFFICES ASSUME Escrituras, [Next]_vars PROVE Escrituras'
  OBVIOUS
<1>0. \A op, c : /\ Envios(op, c) \in 1..3
                 /\ Envios(op, c) > 1 =>
                       c = "PROTO_OK" /\ op \in {"SEND", "SENDATTACH", "USERS"}
  BY EnviosDe
<1>1. CASE Envia \/ CierraCliente \/ Recibe \/ UNCHANGED vars
  <2>1. /\ UNCHANGED <<fase, ejecutada, codigo, trozo, peticion>>
        /\ fase = "muerto" => reset' = reset /\ cerrado'
    BY <1>1 DEF Envia, CierraCliente, Recibe, vars, cliente, Escrituras
  <2>2. Op' = Op /\ Envios(Op, codigo)' = Envios(Op, codigo)
    BY <2>1 DEF Op, Envios
  <2> QED BY <2>1, <2>2 DEF Escrituras, MuerteTrasExito
<1>2. CASE LeeByte \/ FinDeFlujo
  <2>1. /\ fase = "lee" /\ trozo' = trozo /\ trozo = 0 /\ codigo = Nada
        /\ ejecutada' = ejecutada
    BY <1>2 DEF LeeByte, FinDeFlujo, Escrituras
  <2>2. CASE FallaLectura
    <3>1. codigo' # "PROTO_OK" /\ fase' \in {"cerrada", "responde"}
      BY <2>2, FallaSinExito
    <3>2. fase' = "responde" => trozo' < Envios(Op, codigo)'
      <4>1. Envios(Op, codigo)' \in 1..3 BY DEF Envios
      <4> QED BY <2>1, <4>1
    <3> QED BY <2>1, <3>1, <3>2 DEF Escrituras, MuerteTrasExito
  <2>3. CASE codigo' = codigo /\ fase' \in {"lee", "ejecuta", "cerrada"}
    BY <2>1, <2>3, ProtocoloAssumption DEF Escrituras, MuerteTrasExito
  <2>4. FallaLectura \/ (codigo' = codigo /\ fase' \in {"lee", "ejecuta", "cerrada"})
    BY <1>2 DEF LeeByte, TrasByte, TerminaCadena, SigueCadena, FinDeFlujo
  <2> QED BY <2>2, <2>3, <2>4
<1>3. CASE Ejecuta
  <2>1. fase' = "responde" /\ ejecutada' = TRUE /\ trozo' = 0
    BY <1>3 DEF Ejecuta, Escrituras
  <2>2. Envios(Op, codigo)' \in 1..3 BY DEF Envios
  <2> QED BY <2>1, <2>2 DEF Escrituras, MuerteTrasExito
<1>4. CASE Responde
  <2>1. /\ fase = "responde" /\ trozo' = trozo + 1
        /\ fase' = IF trozo + 1 = Envios(Op, codigo) THEN "cerrada" ELSE "responde"
        /\ UNCHANGED <<ejecutada, codigo, peticion>>
    BY <1>4 DEF Responde, cliente
  <2>2. Op' = Op /\ Envios(Op, codigo)' = Envios(Op, codigo)
    BY <2>1 DEF Op, Envios
  <2>3. trozo \in Nat /\ trozo < Envios(Op, codigo) /\ Envios(Op, codigo) \in Nat
    BY <1>0, <2>1 DEF Escrituras
  <2> QED BY <2>1, <2>2, <2>3 DEF Escrituras, MuerteTrasExito
<1>5. CASE Sigpipe
  <2>1. /\ fase = "responde" /\ cerrado /\ (reset \/ trozo > 0) /\ fase' = "muerto"
        /\ UNCHANGED <<ejecutada, codigo, trozo, peticion, reset, cerrado>>
    BY <1>5 DEF Sigpipe, cliente
  <2>2. Envios(Op, codigo) \in 1..3 /\ trozo \in Nat /\ trozo < Envios(Op, codigo)
    BY <1>0, <2>1 DEF Escrituras
  <2>3. CASE reset
    BY <2>1, <2>2, <2>3 DEF Escrituras, MuerteTrasExito
  <2>4. CASE trozo > 0
    <3>1. Envios(Op, codigo) > 1 BY <2>2, <2>4
    <3>2. codigo = "PROTO_OK" /\ Op \in {"SEND", "SENDATTACH", "USERS"}
      BY <1>0, <3>1
    <3>3. Op' = Op BY <2>1 DEF Op
    <3> QED BY <2>1, <3>2, <3>3 DEF Escrituras, MuerteTrasExito
  <2> QED BY <2>1, <2>3, <2>4
<1> QED BY <1>1, <1>2, <1>3, <1>4, <1>5 DEF Next, Hilo

(* Without a reset by the client, the process dies only while it tells of  *)
(* a success in more than one write                                        *)
(* (server.c:514-515, :568-575, :608-621).                                 *)
THEOREM MuerteTrasExitoCorrecta == Spec => []MuerteTrasExito
<1>1. Init => Escrituras
  BY ProtocoloAssumption DEF Init, Escrituras, MuerteTrasExito
<1>2. Escrituras => MuerteTrasExito BY DEF Escrituras
<1> QED BY <1>1, <1>2, EscriturasPaso, PTL DEF Spec
=============================================================================
