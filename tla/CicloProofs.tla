---------------------------- MODULE CicloProofs ----------------------------
(***************************************************************************)
(* The descriptors and the end of the process, for any number of           *)
(* connections and of descriptors.                                         *)
(***************************************************************************)
EXTENDS CicloServidor, FiniteSetTheorems, TLAPS

Fases == {"nueva", "cola", "aceptada", "hilo", "servida", "cerrada"}

Tipos ==
    /\ seguir \in BOOLEAN /\ tarde \in BOOLEAN
    /\ main \in {"while", "accept", "crea", "cierra", "destruye", "sale", "fin"}
    /\ conexion \in [Conexiones -> Fases]
    /\ servicio \in {"vivo", "destruido"}

Inv == Tipos /\ SinFugas /\ FinOrdenado

(* The open connections are finitely many, and fewer of them do not need   *)
(* more descriptors.                                                       *)
LEMMA MenosAbiertas ==
  ASSUME NEW A \in SUBSET Conexiones, NEW D \in SUBSET A,
         Cardinality(A) <= Descriptores
  PROVE  Cardinality(D) <= Descriptores
<1>1. IsFiniteSet(A) BY CicloAssumption, FS_Subset
<1>2. IsFiniteSet(D) /\ Cardinality(D) <= Cardinality(A) BY <1>1, FS_Subset
<1>3. Cardinality(A) \in Nat /\ Cardinality(D) \in Nat
  BY <1>1, <1>2, FS_CardinalityType
<1> QED BY <1>2, <1>3, CicloAssumption

(* One connection more, with a descriptor left, is within the limit.       *)
LEMMA UnaMas ==
  ASSUME NEW A \in SUBSET Conexiones, NEW x \in Conexiones,
         ~(Cardinality(A) >= Descriptores)
  PROVE  Cardinality(A \cup {x}) <= Descriptores
<1>1. IsFiniteSet(A) BY CicloAssumption, FS_Subset
<1>2. Cardinality(A) \in Nat BY <1>1, FS_CardinalityType
<1>3. /\ Cardinality(A \cup {x}) = Cardinality(A)
      \/ Cardinality(A \cup {x}) = Cardinality(A) + 1
  BY <1>1, FS_AddElement
<1> QED BY <1>2, <1>3, CicloAssumption

(* A step that moves no connection from or to main leaves what the         *)
(* descriptors' owners are as it was.                                      *)
LEMMA SinFugasSigue ==
  ASSUME SinFugas, main' = main \/ ("crea" \notin {main, main'}),
         Abiertas \subseteq Conexiones, Abiertas' \subseteq Abiertas,
         EnFase("aceptada")' = EnFase("aceptada")
  PROVE  SinFugas'
<1>1. Cardinality(Abiertas') <= Descriptores
  BY MenosAbiertas DEF SinFugas
<1> QED BY <1>1 DEF SinFugas

(* The initial state.                                                      *)
LEMMA InvInicial == Init => Inv
<1> SUFFICES ASSUME Init PROVE Inv
  OBVIOUS
<1>1. Tipos BY DEF Init, Tipos, Fases
<1>2. \A f \in {"aceptada", "hilo", "servida", "cola"} : EnFase(f) = {}
  BY DEF Init, EnFase
<1>3. Abiertas = {} BY <1>2 DEF Abiertas
<1>4. Cardinality(Abiertas) <= Descriptores
  BY <1>3, FS_EmptySet, CicloAssumption
<1>5. SinFugas BY <1>2, <1>4 DEF Init, SinFugas
<1>6. FinOrdenado BY <1>3 DEF Init, FinOrdenado
<1> QED BY <1>1, <1>5, <1>6 DEF Inv

(* A step that takes x to a phase opens no connection but from the queue.  *)
LEMMA PasaConexion ==
  ASSUME Tipos, NEW x \in Conexiones, NEW f \in Fases, Pasa(x, f)
  PROVE  /\ conexion' \in [Conexiones -> Fases]
         /\ \A y \in Conexiones : conexion'[y] = IF y = x THEN f ELSE conexion[y]
         /\ \A g \in Fases :
              EnFase(g)' = IF g = f THEN EnFase(g) \cup {x} ELSE EnFase(g) \ {x}
<1>1. /\ conexion' \in [Conexiones -> Fases]
      /\ \A y \in Conexiones : conexion'[y] = IF y = x THEN f ELSE conexion[y]
  BY DEF Pasa, Tipos
<1>2. ASSUME NEW g \in Fases
      PROVE  EnFase(g)' = IF g = f THEN EnFase(g) \cup {x} ELSE EnFase(g) \ {x}
  BY <1>1 DEF EnFase
<1> QED BY <1>1, <1>2

(* What a step of main does to the three parts of the invariant.           *)
LEMMA InvMain == Inv /\ Main => Inv'
<1> SUFFICES ASSUME Inv, Main PROVE Inv'
  OBVIOUS
<1> USE DEF Inv
<1>0. Abiertas \subseteq Conexiones /\ \A f \in Fases : EnFase(f) \subseteq Conexiones
  BY DEF Abiertas, EnFase
<1>1. CASE Reserva
  <2>1. Tipos' BY <1>1 DEF Reserva, Va, Tipos
  <2>2. SinFugas' BY <1>0, <1>1, SinFugasSigue DEF Reserva, Va, Abiertas, EnFase
  <2>3. FinOrdenado' BY <1>1 DEF Reserva, Va, FinOrdenado, Tipos, EnFase, Abiertas
  <2> QED BY <2>1, <2>2, <2>3
<1>2. CASE FallaAccept
  <2>1. CASE UNCHANGED conexion
    <3>1. Tipos' BY <1>2, <2>1 DEF FallaAccept, Va, Tipos
    <3>2. SinFugas' BY <1>0, <1>2, <2>1, SinFugasSigue DEF FallaAccept, Va, Abiertas, EnFase
    <3>3. FinOrdenado'
      BY <1>2, <2>1 DEF FallaAccept, Va, FinOrdenado, Tipos, EnFase, Abiertas
    <3> QED BY <3>1, <3>2, <3>3
  <2>2. CASE \E x \in EnFase("cola") : Pasa(x, "cerrada")
    <3>1. PICK x \in Conexiones : conexion[x] = "cola" /\ Pasa(x, "cerrada")
      BY <2>2 DEF EnFase
    <3>2. \A g \in Fases : EnFase(g)' = IF g = "cerrada" THEN EnFase(g) \cup {x}
                                                          ELSE EnFase(g) \ {x}
      BY <3>1, PasaConexion DEF Fases
    <3>3. x \notin EnFase("aceptada") BY <3>1 DEF EnFase
    <3>4. /\ EnFase("aceptada")' = EnFase("aceptada")
          /\ EnFase("cola")' \subseteq EnFase("cola")
          /\ Abiertas' \subseteq Abiertas
      BY <3>2, <3>3 DEF Fases, Abiertas
    <3>5. Tipos' BY <1>2, <3>1, PasaConexion DEF FallaAccept, Va, Tipos, Fases
    <3>6. SinFugas' BY <1>0, <1>2, <3>4, SinFugasSigue DEF FallaAccept, Va
    <3>7. FinOrdenado' BY <1>2, <3>4 DEF FallaAccept, Va, FinOrdenado, Tipos
    <3> QED BY <3>5, <3>6, <3>7
  <2> QED BY <1>2, <2>1, <2>2 DEF FallaAccept
<1>3. CASE Cierra
  <2>1. \A x \in Conexiones :
           conexion'[x] = IF conexion[x] = "cola" THEN "cerrada" ELSE conexion[x]
    BY <1>3 DEF Cierra
  <2>2. Tipos' BY <1>3 DEF Cierra, Va, Tipos, Fases
  <2>3. /\ EnFase("aceptada")' = EnFase("aceptada")
        /\ EnFase("cola")' = {}
        /\ Abiertas' = Abiertas
    BY <2>1 DEF EnFase, Abiertas
  <2>4. SinFugas' BY <1>0, <1>3, <2>3, SinFugasSigue DEF Cierra, Va
  <2>5. FinOrdenado' BY <1>3, <2>3 DEF Cierra, Va, FinOrdenado, Tipos
  <2> QED BY <2>2, <2>4, <2>5
<1>4. CASE Destruye
  <2>1. Tipos' BY <1>4 DEF Destruye, Va, Tipos
  <2>2. SinFugas' BY <1>0, <1>4, SinFugasSigue DEF Destruye, Va, Abiertas, EnFase
  <2>3. FinOrdenado' BY <1>4 DEF Destruye, Va, FinOrdenado, Tipos, EnFase, Abiertas
  <2> QED BY <2>1, <2>2, <2>3
<1>5. CASE Sale
  <2>1. \A x \in Conexiones :
           conexion'[x] = IF conexion[x] = "nueva" THEN "nueva" ELSE "cerrada"
    BY <1>5 DEF Sale
  <2>2. Tipos' BY <1>5 DEF Sale, Va, Tipos, Fases
  <2>3. EnFase("aceptada")' = {} /\ EnFase("cola")' = {} /\ Abiertas' = {}
    BY <2>1 DEF EnFase, Abiertas
  <2>4. EnFase("aceptada") = {} BY <1>5 DEF Sale, SinFugas
  <2>5. SinFugas' BY <1>0, <1>5, <2>3, <2>4, SinFugasSigue DEF Sale, Va
  <2>6. FinOrdenado' BY <1>5, <2>3 DEF Sale, Va, FinOrdenado, Tipos
  <2> QED BY <2>2, <2>5, <2>6
<1>6. ASSUME NEW x \in Conexiones, Acepta(x) PROVE Inv'
  <2>1. Pasa(x, "aceptada") /\ conexion[x] = "cola" BY <1>6 DEF Acepta
  <2>2. \A g \in Fases : EnFase(g)' = IF g = "aceptada" THEN EnFase(g) \cup {x}
                                                         ELSE EnFase(g) \ {x}
    BY <2>1, PasaConexion DEF Fases
  <2>3. EnFase("aceptada") = {} BY <1>6 DEF Acepta, SinFugas
  <2>4. x \notin EnFase("hilo") /\ x \notin EnFase("servida") BY <2>1 DEF EnFase
  <2>5. /\ EnFase("aceptada")' = {x} /\ Abiertas' = Abiertas \cup {x}
        /\ EnFase("cola")' \subseteq EnFase("cola")
    BY <2>2, <2>3, <2>4 DEF Fases, Abiertas
  <2>6. Cardinality(Abiertas') <= Descriptores
    BY <1>0, <1>6, <2>5, UnaMas DEF Acepta, Agotados
  <2>7. Tipos' BY <1>6, <2>1, PasaConexion DEF Acepta, Va, Tipos, Fases
  <2>8. SinFugas' BY <1>6, <2>5, <2>6 DEF SinFugas, Acepta, Va
  <2>9. FinOrdenado' BY <1>6, <2>5 DEF Acepta, Va, FinOrdenado, Tipos
  <2> QED BY <2>7, <2>8, <2>9
<1>7. ASSUME NEW x \in Conexiones, NEW f \in {"hilo", "cerrada"},
             main = "crea", conexion[x] = "aceptada", Pasa(x, f), Va("while"),
             UNCHANGED <<seguir, servicio, tarde>>
      PROVE  Inv'
  <2>1. \A g \in Fases : EnFase(g)' = IF g = f THEN EnFase(g) \cup {x}
                                                ELSE EnFase(g) \ {x}
    BY <1>7, PasaConexion DEF Fases
  <2>2. x \in EnFase("aceptada") BY <1>7 DEF EnFase
  <2>3. EnFase("aceptada") = {x} BY <1>7, <2>2 DEF SinFugas
  <2>4. /\ EnFase("aceptada")' = {} /\ EnFase("cola")' \subseteq EnFase("cola")
        /\ Abiertas' \subseteq Abiertas
    BY <2>1, <2>2, <2>3 DEF Fases, Abiertas
  <2>5. Cardinality(Abiertas') <= Descriptores
    BY <1>0, <2>4, MenosAbiertas DEF SinFugas
  <2>6. Tipos' BY <1>7, PasaConexion DEF Va, Tipos, Fases
  <2>7. SinFugas' BY <1>7, <2>4, <2>5 DEF SinFugas, Va
  <2>8. FinOrdenado' BY <1>7, <2>4 DEF Va, FinOrdenado, Tipos
  <2> QED BY <2>6, <2>7, <2>8
<1>8. ASSUME NEW x \in Conexiones, CreaHilo(x) \/ FallaCrear(x) PROVE Inv'
  BY <1>7, <1>8 DEF CreaHilo, FallaCrear
<1> QED BY <1>1, <1>2, <1>3, <1>4, <1>5, <1>6, <1>8 DEF Main

(* A signal, a client or a thread, which gives its descriptor back or keeps*)
(* it.                                                                     *)
LEMMA InvOtros ==
  ASSUME Inv,
         \/ sigint_handler
         \/ \E x \in Conexiones : Conecta(x) \/ Opera(x) \/ AcabaHilo(x)
  PROVE  Inv'
<1> USE DEF Inv
<1>0. Abiertas \subseteq Conexiones BY DEF Abiertas, EnFase
<1>1. CASE sigint_handler
  <2>1. Tipos' BY <1>1 DEF sigint_handler, Tipos
  <2>2. SinFugas' BY <1>0, <1>1, SinFugasSigue DEF sigint_handler, Abiertas, EnFase
  <2>3. FinOrdenado' BY <1>1 DEF sigint_handler, FinOrdenado, EnFase, Abiertas
  <2> QED BY <2>1, <2>2, <2>3
<1>2. ASSUME NEW x \in Conexiones, Conecta(x) PROVE Inv'
  <2>1. \A g \in Fases : EnFase(g)' = IF g = "cola" THEN EnFase(g) \cup {x}
                                                     ELSE EnFase(g) \ {x}
    BY <1>2, PasaConexion DEF Fases, Conecta
  <2>2. \A g \in {"aceptada", "hilo", "servida"} : x \notin EnFase(g)
    BY <1>2 DEF Conecta, EnFase
  <2>3. EnFase("aceptada")' = EnFase("aceptada") /\ Abiertas' \subseteq Abiertas
    BY <2>1, <2>2 DEF Fases, Abiertas
  <2>4. Tipos' BY <1>2, PasaConexion DEF Conecta, Tipos, Fases
  <2>5. SinFugas' BY <1>0, <1>2, <2>3, SinFugasSigue DEF Conecta
  <2>6. FinOrdenado' BY <1>2, <2>3 DEF Conecta, FinOrdenado
  <2> QED BY <2>4, <2>5, <2>6
<1>3. ASSUME NEW x \in Conexiones, Opera(x) \/ AcabaHilo(x) PROVE Inv'
  <2>1. PICK f \in {"servida", "cerrada"} : Pasa(x, f)
    BY <1>3 DEF Opera, AcabaHilo
  <2>2. \A g \in Fases : EnFase(g)' = IF g = f THEN EnFase(g) \cup {x}
                                                ELSE EnFase(g) \ {x}
    BY <2>1, PasaConexion DEF Fases
  <2>3. x \in EnFase("hilo") \cup EnFase("servida")
    BY <1>3 DEF Opera, AcabaHilo, EnFase
  <2>4. x \notin EnFase("aceptada") BY <2>3 DEF EnFase
  <2>5. /\ EnFase("aceptada")' = EnFase("aceptada")
        /\ EnFase("cola")' \subseteq EnFase("cola")
        /\ Abiertas' \subseteq Abiertas
    BY <2>2, <2>3, <2>4 DEF Fases, Abiertas
  <2>6. Tipos' BY <1>3, <2>1, PasaConexion DEF Opera, AcabaHilo, Tipos, Fases
  <2>7. SinFugas' BY <1>0, <1>3, <2>5, SinFugasSigue DEF Opera, AcabaHilo
  <2>8. /\ UNCHANGED <<seguir, main, servicio>>
        /\ tarde' => tarde \/ servicio = "destruido"
    <3>1. tarde' = (tarde \/ servicio = "destruido") \/ tarde' = tarde
      BY <1>3 DEF Opera, AcabaHilo
    <3>2. UNCHANGED <<seguir, main, servicio>>
      BY <1>3 DEF Opera, AcabaHilo
    <3> QED BY <3>1, <3>2 DEF Tipos
  <2>9. FinOrdenado' BY <2>5, <2>8 DEF FinOrdenado
  <2> QED BY <2>6, <2>7, <2>9
<1> QED BY <1>1, <1>2, <1>3

(* The invariant, step by step.                                            *)
LEMMA InvSigue == Inv /\ [Next]_vars => Inv'
<1> SUFFICES ASSUME Inv, [Next]_vars PROVE Inv'
  OBVIOUS
<1>1. CASE Main BY <1>1, InvMain
<1>2. CASE sigint_handler \/ \E x \in Conexiones : Conecta(x) \/ Opera(x) \/ AcabaHilo(x)
  BY <1>2, InvOtros
<1>3. CASE UNCHANGED vars
  BY <1>3 DEF vars, Inv, Tipos, SinFugas, FinOrdenado, Abiertas, EnFase
<1> QED BY <1>1, <1>2, <1>3 DEF Next

(* Every descriptor belongs to main for a moment or to a thread, and is    *)
(* given back when a thread cannot be created (server.c:179-196).          *)
THEOREM SinFugasCorrecta == Spec => []SinFugas
<1>1. Spec => []Inv BY InvInicial, InvSigue, PTL DEF Spec
<1>2. Inv => SinFugas BY DEF Inv
<1> QED BY <1>1, <1>2, PTL

(* The server ends only after a SIGINT, with an empty queue, and a thread  *)
(* calls a destroyed service only in its last moment (server.c:179-203).   *)
THEOREM FinOrdenadoCorrecto == Spec => []FinOrdenado
<1>1. Spec => []Inv BY InvInicial, InvSigue, PTL DEF Spec
<1>2. Inv => FinOrdenado BY DEF Inv
<1> QED BY <1>1, <1>2, PTL

(* After a SIGINT main only goes forward (server.c:170-203).               *)
THEOREM NoVuelveCorrecta == Spec => NoVuelve
<1> DEFINE Avanza == ~seguir /\ main' # main =>
              \E i, j \in 1..7 : i < j /\ main = Camino[i] /\ main' = Camino[j]
<1>1. Inv /\ [Next]_vars => [Avanza]_vars
  <2> SUFFICES ASSUME Inv, Next, ~seguir, main' # main
               PROVE  \E i, j \in 1..7 : i < j /\ main = Camino[i] /\ main' = Camino[j]
    BY DEF vars
  <2>1. /\ Camino[1] = "accept" /\ Camino[2] = "crea" /\ Camino[3] = "while"
        /\ Camino[4] = "cierra" /\ Camino[5] = "destruye" /\ Camino[6] = "sale"
        /\ Camino[7] = "fin"
    BY DEF Camino
  <2>2. Main BY DEF Next, sigint_handler, Conecta, Opera, AcabaHilo
  <2>3. \/ main = "accept" /\ main' \in {"crea", "while", "cierra"}
        \/ main = "crea" /\ main' = "while"
        \/ main = "while" /\ main' = "cierra"
        \/ main = "cierra" /\ main' = "destruye"
        \/ main = "destruye" /\ main' = "sale"
        \/ main = "sale" /\ main' = "fin"
    BY <2>2 DEF Main, Reserva, Acepta, FallaAccept, CreaHilo, FallaCrear, Cierra,
                Destruye, Sale, Va
  <2> QED BY <2>1, <2>3
<1>2. Spec => []Inv BY InvInicial, InvSigue, PTL DEF Spec
<1> QED BY <1>1, <1>2, PTL DEF Spec, NoVuelve
=============================================================================
