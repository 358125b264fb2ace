------------------------- MODULE ServicioWebProofs -------------------------
(***************************************************************************)
(* What a text goes through between the keyboard and the server keeps its  *)
(* words, and what is sent is in normal form, for texts of any length.     *)
(* Texts are built character by character: a statement holds of all of     *)
(* them if it holds of the empty one and a character more keeps it.        *)
(***************************************************************************)
EXTENDS ServicioWeb, SequenceTheorems, NaturalsInduction, WellFoundedInduction, TLAPS

Caracteres == Letras \cup Blancos \cup {Espacio}

Palabra == Seq(Caracteres)

(* Induction on a bound or a length: a set of numbers that holds 0 and the *)
(* successor of each of its members up to N holds every number up to N.    *)
LEMMA InduccionHasta ==
  ASSUME NEW N \in Nat, NEW P, 0 \in P,
         \A n \in 0..N : n # 0 /\ n - 1 \in P => n \in P
  PROVE  \A n \in 0..N : n \in P
<1>1. SUFFICES ASSUME NEW x \in 0..N, x \notin P PROVE FALSE
  OBVIOUS
<1> DEFINE Malos == {n \in Nat : n \in 0..N /\ n \notin P}
<1>2. Malos \in SUBSET Nat /\ Malos # {} BY <1>1
<1>3. \E n \in Malos : \A y \in Malos : ~(<<y, n>> \in OpToRel(<, Nat))
  BY <1>2, NatLessThanWellFounded, WFMin
<1>4. OpToRel(<, Nat) = {ss \in Nat \X Nat : ss[1] < ss[2]}
  BY Zenon DEF OpToRel
<1>5. PICK n \in Malos :
         \A y \in Malos : ~(<<y, n>> \in {ss \in Nat \X Nat : ss[1] < ss[2]})
  BY <1>3, <1>4
<1>6. n # 0 /\ n \in 0..N /\ n \notin P OBVIOUS
<1>7. n - 1 \in Nat /\ n - 1 \in 0..N /\ n - 1 < n BY <1>6
<1>8. n - 1 \notin Malos
  <2> SUFFICES ASSUME n - 1 \in Malos PROVE FALSE
    OBVIOUS
  <2> DEFINE par == <<n - 1, n>>
  <2>1. par \notin {ss \in Nat \X Nat : ss[1] < ss[2]} BY <1>5
  <2>2. par \in Nat \X Nat /\ par[1] < par[2] BY <1>6, <1>7
  <2> QED BY <2>1, <2>2
<1>9. n - 1 \in P BY <1>7, <1>8
<1> QED BY <1>6, <1>9

(* Induction on texts.                                                     *)
LEMMA InduccionTexto ==
  ASSUME NEW S, NEW P, <<>> \in P,
         \A t \in Seq(S), c \in S : t \in P => Append(t, c) \in P
  PROVE  \A t \in Seq(S) : t \in P
<1> DEFINE Largos == {n \in Nat : \A t \in Seq(S) : Len(t) = n => t \in P}
<1>1. 0 \in Largos
  BY EmptySeq
<1>2. ASSUME NEW n \in Nat, n # 0, n - 1 \in Largos PROVE n \in Largos
  <2> SUFFICES ASSUME NEW t \in Seq(S), Len(t) = n PROVE t \in P
    OBVIOUS
  <2> DEFINE a == [i \in 1..(n - 1) |-> t[i]]
  <2>1. t[n] \in S /\ t \in [1..n -> S] BY <1>2, ElementOfSeq, LenProperties
  <2>2. a \in Seq(S) /\ Len(a) = n - 1
    <3>1. a \in [1..(n - 1) -> S] /\ n - 1 \in Nat BY <1>2, <2>1
    <3> QED BY <3>1, SeqDef
  <2>3. \A i \in 1..(n - 1) : a[i] = t[i] OBVIOUS
  <2> HIDE DEF a
  <2>4. a \in P BY <1>2, <2>2
  <2>5. /\ Append(a, t[n]) \in Seq(S) /\ Len(Append(a, t[n])) = n
        /\ \A i \in 1..(n - 1) : Append(a, t[n])[i] = a[i]
        /\ Append(a, t[n])[n] = t[n]
    BY <1>2, <2>1, <2>2, AppendProperties
  <2>6. \A i \in 1..n : i \in 1..(n - 1) \/ i = n BY <1>2
  <2>7. Append(a, t[n]) = t
    BY <2>3, <2>5, <2>6, SeqEqual
  <2> QED BY <2>1, <2>2, <2>4, <2>7
<1> HIDE DEF Largos
<1>3. ASSUME NEW t \in Seq(S) PROVE t \in P
  <2>1. PICK n \in Nat : n = Len(t) BY LenProperties
  <2>2. \A k \in 0..n : k # 0 /\ k - 1 \in Largos => k \in Largos
    BY <1>2
  <2>3. \A k \in 0..n : k \in Largos
    BY <1>1, <2>2, InduccionHasta, Zenon
  <2>4. n \in Largos BY <2>3
  <2> QED BY <2>1, <2>4 DEF Largos
<1> QED BY <1>3

(* A function that is computed from 0 on, each value from the one before,  *)
(* exists.                                                                 *)
LEMMA Recursion ==
  ASSUME NEW N \in Nat, NEW V, NEW base \in V, NEW paso \in [1..N -> [V -> V]]
  PROVE  \E f \in [0..N -> V] :
            f[0] = base /\ \A n \in 1..N : f[n] = paso[n][f[n - 1]]
<1> DEFINE Hay(m) == \E f \in [0..m -> V] :
                        f[0] = base /\ \A n \in 1..m : f[n] = paso[n][f[n - 1]]
           P == {m \in 0..N : Hay(m)}
<1>1. 0 \in P
  <2> DEFINE f == [k \in 0..0 |-> base]
  <2>1. f \in [0..0 -> V] /\ f[0] = base OBVIOUS
  <2>2. \A n \in 1..0 : f[n] = paso[n][f[n - 1]] OBVIOUS
  <2> HIDE DEF f
  <2>3. Hay(0) BY <2>1, <2>2
  <2> QED BY <2>3
<1>2. ASSUME NEW m \in 0..N, m # 0, m - 1 \in P PROVE m \in P
  <2>1. PICK f \in [0..(m - 1) -> V] :
           f[0] = base /\ \A n \in 1..(m - 1) : f[n] = paso[n][f[n - 1]]
    BY <1>2
  <2>2. m \in 1..N /\ m - 1 \in 0..(m - 1) BY <1>2
  <2>3. paso[m] \in [V -> V] /\ f[m - 1] \in V BY <2>1, <2>2
  <2> DEFINE v == paso[m][f[m - 1]]
  <2>4. v \in V BY <2>3
  <2> HIDE DEF v
  <2> DEFINE g == [k \in 0..m |-> IF k = m THEN v ELSE f[k]]
  <2>5. \A k \in 0..m : k = m \/ k \in 0..(m - 1) BY <1>2
  <2>6. g \in [0..m -> V] BY <2>1, <2>4, <2>5
  <2>7. g[0] = base BY <1>2, <2>1
  <2>8. \A k \in 0..(m - 1) : g[k] = f[k] BY <1>2
  <2>9. ASSUME NEW n \in 1..m PROVE g[n] = paso[n][g[n - 1]]
    <3>0. n - 1 \in 0..(m - 1) /\ (n = m \/ n \in 1..(m - 1)) BY <1>2
    <3>1. g[n - 1] = f[n - 1] BY <2>8, <3>0
    <3>2. CASE n = m BY <3>1, <3>2 DEF v
    <3>3. CASE n \in 1..(m - 1)
      <4>1. g[n] = f[n] BY <2>8, <3>3
      <4> QED BY <2>1, <3>1, <3>3, <4>1
    <3> QED BY <3>0, <3>2, <3>3
  <2> HIDE DEF g
  <2>10. Hay(m) BY <2>6, <2>7, <2>9
  <2> QED BY <2>10
<1> HIDE DEF P
<1>3. \A m \in 0..N : m # 0 /\ m - 1 \in P => m \in P BY <1>2
<1>4. \A m \in 0..N : m \in P BY <1>1, <1>3, InduccionHasta, Zenon
<1>5. N \in P BY <1>4
<1> QED BY <1>5 DEF P

(* A text and its last character.                                          *)
LEMMA UnoMas ==
  ASSUME NEW S, NEW t \in Seq(S), NEW c \in S
  PROVE  /\ Append(t, c) \in Seq(S) /\ Len(Append(t, c)) = Len(t) + 1
         /\ Len(t) \in Nat /\ Append(t, c) # <<>>
         /\ \A i \in 1..Len(t) : Append(t, c)[i] = t[i] /\ t[i] \in S
         /\ Append(t, c)[Len(t) + 1] = c
<1>1. Len(t) \in Nat /\ \A i \in 1..Len(t) : t[i] \in S
  BY LenProperties, ElementOfSeq
<1>2. /\ Append(t, c) \in Seq(S) /\ Len(Append(t, c)) = Len(t) + 1
      /\ \A i \in 1..Len(t) : Append(t, c)[i] = t[i]
      /\ Append(t, c)[Len(t) + 1] = c
  BY AppendProperties
<1> QED BY <1>1, <1>2, EmptySeq
-----------------------------------------------------------------------------
(* The words of a text, by its equation.                                   *)
LEMMA AlargaTipo ==
  ASSUME NEW w \in Seq(Palabra), NEW c \in Caracteres
  PROVE  /\ Alarga(w, c) \in Seq(Palabra) /\ Len(Alarga(w, c)) = Len(w)
         /\ Len(w) \in Nat
         /\ \A k \in 1..Len(w) :
               Alarga(w, c)[k] = IF k = Len(w) THEN Append(w[k], c) ELSE w[k]
<1>1. Len(w) \in Nat /\ w \in [1..Len(w) -> Palabra] BY LenProperties
<1>2. CASE Len(w) = 0
  <2>1. Alarga(w, c) = w BY <1>1, <1>2 DEF Alarga
  <2> QED BY <1>1, <1>2, <2>1
<1>3. CASE Len(w) # 0
  <2>1. Len(w) \in 1..Len(w) BY <1>1, <1>3
  <2> DEFINE p == Append(w[Len(w)], c)
  <2>2. p \in Palabra BY <1>1, <2>1, AppendProperties DEF Palabra
  <2>3. Alarga(w, c) = [w EXCEPT ![Len(w)] = p] BY <1>1, <2>1 DEF Alarga
  <2> HIDE DEF p
  <2>4. /\ [w EXCEPT ![Len(w)] = p] \in Seq(Palabra)
        /\ Len([w EXCEPT ![Len(w)] = p]) = Len(w)
        /\ \A k \in 1..Len(w) :
              [w EXCEPT ![Len(w)] = p][k] = IF k = Len(w) THEN p ELSE w[k]
    BY <2>1, <2>2, ExceptSeq
  <2> QED BY <1>1, <2>3, <2>4 DEF p
<1> QED BY <1>2, <1>3

(* What character n of t adds to the words before it.                      *)
Dicha(w, t, n) ==
    IF EsBlanco(t[n]) THEN w
    ELSE IF n = 1 \/ EsBlanco(t[n - 1]) THEN Append(w, <<t[n]>>)
    ELSE Alarga(w, t[n])

EsDichas(f, t) ==
    f = [n \in 0..Len(t) |-> IF n = 0 THEN <<>> ELSE Dicha(f[n - 1], t, n)]

(* Its equation, one value at a time.                                      *)
LEMMA DichasValor ==
  ASSUME NEW t, Len(t) \in Nat, NEW f, EsDichas(f, t)
  PROVE  f[0] = <<>> /\ \A n \in 1..Len(t) : f[n] = Dicha(f[n - 1], t, n)
<1> DEFINE e == [n \in 0..Len(t) |-> IF n = 0 THEN <<>> ELSE Dicha(f[n - 1], t, n)]
<1>1. f = e BY DEF EsDichas
<1>2. e[0] = <<>> OBVIOUS
<1>3. \A n \in 1..Len(t) : e[n] = Dicha(f[n - 1], t, n)
  <2> SUFFICES ASSUME NEW n \in 1..Len(t) PROVE e[n] = Dicha(f[n - 1], t, n)
    OBVIOUS
  <2>1. n \in 0..Len(t) /\ n # 0 OBVIOUS
  <2> QED BY <2>1
<1> HIDE DEF e
<1> QED BY <1>1, <1>2, <1>3

(* The recursive function of Palabras exists and has its type.             *)
LEMMA DichasHay ==
  ASSUME NEW t \in Seq(Caracteres)
  PROVE  \E f \in [0..Len(t) -> Seq(Palabra)] : EsDichas(f, t)
<1> DEFINE V == Seq(Palabra)
           paso == [n \in 1..Len(t) |-> [w \in V |-> Dicha(w, t, n)]]
<1>1. Len(t) \in Nat /\ <<>> \in V BY LenProperties, EmptySeq
<1>2. ASSUME NEW n \in 1..Len(t), NEW w \in V PROVE Dicha(w, t, n) \in V
  <2>1. t[n] \in Caracteres BY ElementOfSeq
  <2>2. <<t[n]>> \in Palabra BY <2>1 DEF Palabra
  <2>3. Append(w, <<t[n]>>) \in V BY <2>2, AppendProperties
  <2>4. Alarga(w, t[n]) \in V BY <2>1, AlargaTipo
  <2> QED BY <2>3, <2>4 DEF Dicha
<1>3. paso \in [1..Len(t) -> [V -> V]] BY <1>2
<1>4. PICK f \in [0..Len(t) -> V] :
         f[0] = <<>> /\ \A n \in 1..Len(t) : f[n] = paso[n][f[n - 1]]
  <2> DEFINE N == Len(t)
             vacia == <<>>
  <2>1. N \in Nat /\ vacia \in V /\ paso \in [1..N -> [V -> V]] BY <1>1, <1>3
  <2> HIDE DEF paso, V, N, vacia
  <2>2. \E f \in [0..N -> V] :
           f[0] = vacia /\ \A n \in 1..N : f[n] = paso[n][f[n - 1]]
    BY <2>1, Recursion
  <2> QED BY <2>2 DEF N, vacia
<1>5. ASSUME NEW n \in 1..Len(t) PROVE f[n] = Dicha(f[n - 1], t, n)
  <2>1. n - 1 \in 0..Len(t) BY <1>1
  <2>2. f[n - 1] \in V BY <2>1
  <2> QED BY <1>4, <2>2
<1>6. \A n \in 0..Len(t) : n = 0 \/ n \in 1..Len(t) BY <1>1
<1>7. EsDichas(f, t)
  <2> DEFINE e == [n \in 0..Len(t) |-> IF n = 0 THEN <<>> ELSE Dicha(f[n - 1], t, n)]
  <2>1. \A n \in 0..Len(t) : f[n] = e[n] BY <1>4, <1>5, <1>6
  <2>2. f = e BY <1>4, <2>1
  <2> QED BY <2>2 DEF EsDichas
<1> QED BY <1>7

(* There is one only.                                                      *)
LEMMA DichasUna ==
  ASSUME NEW t \in Seq(Caracteres), NEW u \in Seq(Caracteres),
         Len(t) <= Len(u), \A i \in 1..Len(t) : u[i] = t[i],
         NEW f, NEW g, EsDichas(f, t), EsDichas(g, u)
  PROVE  \A n \in 0..Len(t) : g[n] = f[n]
<1> DEFINE P == {n \in 0..Len(t) : g[n] = f[n]}
<1>0. Len(t) \in Nat /\ Len(u) \in Nat BY LenProperties
<1>1. 0 \in P BY <1>0, DichasValor
<1>2. ASSUME NEW n \in 0..Len(t), n # 0, n - 1 \in P PROVE n \in P
  <2>1. n \in 1..Len(t) /\ n \in 1..Len(u) BY <1>0, <1>2
  <2>2. f[n] = Dicha(f[n - 1], t, n) /\ g[n] = Dicha(g[n - 1], u, n)
    BY <1>0, <2>1, DichasValor
  <2>3. u[n] = t[n] /\ (n = 1 \/ u[n - 1] = t[n - 1])
    BY <1>0, <2>1
  <2>4. g[n - 1] = f[n - 1] BY <1>2
  <2> QED BY <1>2, <2>2, <2>3, <2>4 DEF Dicha
<1> HIDE DEF P
<1>3. \A n \in 0..Len(t) : n # 0 /\ n - 1 \in P => n \in P BY <1>2
<1>4. \A n \in 0..Len(t) : n \in P BY <1>0, <1>1, <1>3, InduccionHasta, Zenon
<1> QED BY <1>4 DEF P

(* Palabras is its last value.                                             *)
LEMMA PalabrasEs ==
  ASSUME NEW t \in Seq(Caracteres), NEW f, EsDichas(f, t)
  PROVE  Palabras(t) = f[Len(t)]
<1> DEFINE g == CHOOSE h : EsDichas(h, t)
<1>1. Palabras(t) = g[Len(t)] BY DEF Palabras, EsDichas, Dicha
<1>2. EsDichas(g, t) BY Zenon
<1> HIDE DEF g
<1>3. Len(t) \in Nat BY LenProperties
<1>4. \A n \in 0..Len(t) : g[n] = f[n] BY <1>2, <1>3, DichasUna
<1> QED BY <1>1, <1>3, <1>4

(* The words of a text with a character more: a blank adds nothing; after  *)
(* a blank a word begins, and otherwise the last one grows.                *)
LEMMA PalabrasPaso ==
  ASSUME NEW t \in Seq(Caracteres), NEW c \in Caracteres
  PROVE  /\ Palabras(t) \in Seq(Palabra)
         /\ Palabras(Append(t, c)) =
               IF EsBlanco(c) THEN Palabras(t)
               ELSE IF t = <<>> \/ EsBlanco(t[Len(t)]) THEN Append(Palabras(t), <<c>>)
               ELSE Alarga(Palabras(t), c)
<1> DEFINE u == Append(t, c)
<1>1. /\ u \in Seq(Caracteres) /\ Len(u) = Len(t) + 1 /\ Len(t) \in Nat
      /\ \A i \in 1..Len(t) : u[i] = t[i]
      /\ u[Len(t) + 1] = c
  BY UnoMas
<1> HIDE DEF u
<1>2. PICK f \in [0..Len(t) -> Seq(Palabra)] : EsDichas(f, t) BY DichasHay
<1>3. PICK g \in [0..Len(u) -> Seq(Palabra)] : EsDichas(g, u) BY <1>1, DichasHay
<1>4. Palabras(t) = f[Len(t)] /\ Palabras(u) = g[Len(t) + 1]
  BY <1>1, <1>2, <1>3, PalabrasEs
<1>5. g[Len(t)] = f[Len(t)]
  <2>1. Len(t) <= Len(u) BY <1>1
  <2> QED BY <1>1, <1>2, <1>3, <2>1, DichasUna
<1>6. g[Len(t) + 1] = Dicha(f[Len(t)], u, Len(t) + 1)
  <2>1. Len(t) + 1 \in 1..Len(u) /\ (Len(t) + 1) - 1 = Len(t) /\ Len(u) \in Nat
    BY <1>1
  <2> QED BY <1>3, <1>5, <2>1, DichasValor
<1>7. t = <<>> <=> Len(t) + 1 = 1 BY <1>1, EmptySeq
<1>8. t # <<>> => u[Len(t)] = t[Len(t)] BY <1>1, <1>7
<1>9. Palabras(t) \in Seq(Palabra) BY <1>1, <1>2, <1>4
<1>10. Palabras(u) = IF EsBlanco(c) THEN Palabras(t)
               ELSE IF t = <<>> \/ EsBlanco(t[Len(t)]) THEN Append(Palabras(t), <<c>>)
               ELSE Alarga(Palabras(t), c)
  <2>1. (Len(t) + 1) - 1 = Len(t) BY <1>1
  <2> QED BY <1>1, <1>4, <1>6, <1>7, <1>8, <2>1 DEF Dicha
<1> QED BY <1>9, <1>10 DEF u

(* The empty text has no words.                                            *)
LEMMA PalabrasVacio == Palabras(<<>>) = <<>>
<1> DEFINE v == <<>>
<1>1. v \in Seq(Caracteres) /\ Len(v) = 0 BY EmptySeq
<1> HIDE DEF v
<1>2. PICK f \in [0..Len(v) -> Seq(Palabra)] : EsDichas(f, v) BY <1>1, DichasHay
<1>3. Palabras(v) = f[0] BY <1>1, <1>2, PalabrasEs
<1>4. f[0] = <<>> BY <1>1, <1>2, DichasValor
<1> QED BY <1>3, <1>4 DEF v
-----------------------------------------------------------------------------
(* Sub, by its equation.                                                   *)
(* What character n of t adds to what Sub made of those before it.         *)
Hecho(w, t, n) ==
    IF ~EsBlanco(t[n]) THEN Append(w, t[n])
    ELSE IF n = 1 \/ ~EsBlanco(t[n - 1]) THEN Append(w, Espacio)
    ELSE w

EsHecho(f, t) ==
    f = [n \in 0..Len(t) |-> IF n = 0 THEN <<>> ELSE Hecho(f[n - 1], t, n)]

(* Its equation, one value at a time.                                      *)
LEMMA HechoValor ==
  ASSUME NEW t, Len(t) \in Nat, NEW f, EsHecho(f, t)
  PROVE  f[0] = <<>> /\ \A n \in 1..Len(t) : f[n] = Hecho(f[n - 1], t, n)
<1> DEFINE e == [n \in 0..Len(t) |-> IF n = 0 THEN <<>> ELSE Hecho(f[n - 1], t, n)]
<1>1. f = e BY DEF EsHecho
<1>2. e[0] = <<>> OBVIOUS
<1>3. \A n \in 1..Len(t) : e[n] = Hecho(f[n - 1], t, n)
  <2> SUFFICES ASSUME NEW n \in 1..Len(t) PROVE e[n] = Hecho(f[n - 1], t, n)
    OBVIOUS
  <2>1. n \in 0..Len(t) /\ n # 0 OBVIOUS
  <2> QED BY <2>1
<1> HIDE DEF e
<1> QED BY <1>1, <1>2, <1>3

(* The recursive function of Sub exists and has its type.                  *)
LEMMA HechoHay ==
  ASSUME NEW t \in Seq(Caracteres)
  PROVE  \E f \in [0..Len(t) -> Seq(Caracteres)] : EsHecho(f, t)
<1> DEFINE V == Seq(Caracteres)
           paso == [n \in 1..Len(t) |-> [w \in V |-> Hecho(w, t, n)]]
<1>1. Len(t) \in Nat /\ <<>> \in V BY LenProperties, EmptySeq
<1>2. ASSUME NEW n \in 1..Len(t), NEW w \in V PROVE Hecho(w, t, n) \in V
  <2>1. t[n] \in Caracteres BY ElementOfSeq
  <2>2. Espacio \in Caracteres BY DEF Caracteres
  <2>3. Append(w, t[n]) \in V BY <2>1, AppendProperties
  <2>4. Append(w, Espacio) \in V BY <2>2, AppendProperties
  <2> QED BY <2>3, <2>4 DEF Hecho
<1>3. paso \in [1..Len(t) -> [V -> V]] BY <1>2
<1>4. PICK f \in [0..Len(t) -> V] :
         f[0] = <<>> /\ \A n \in 1..Len(t) : f[n] = paso[n][f[n - 1]]
  <2> DEFINE N == Len(t)
             vacia == <<>>
  <2>1. N \in Nat /\ vacia \in V /\ paso \in [1..N -> [V -> V]] BY <1>1, <1>3
  <2> HIDE DEF paso, V, N, vacia
  <2>2. \E f \in [0..N -> V] :
           f[0] = vacia /\ \A n \in 1..N : f[n] = paso[n][f[n - 1]]
    BY <2>1, Recursion
  <2> QED BY <2>2 DEF N, vacia
<1>5. ASSUME NEW n \in 1..Len(t) PROVE f[n] = Hecho(f[n - 1], t, n)
  <2>1. n - 1 \in 0..Len(t) BY <1>1
  <2>2. f[n - 1] \in V BY <2>1
  <2> QED BY <1>4, <2>2
<1>6. \A n \in 0..Len(t) : n = 0 \/ n \in 1..Len(t) BY <1>1
<1>7. EsHecho(f, t)
  <2> DEFINE e == [n \in 0..Len(t) |-> IF n = 0 THEN <<>> ELSE Hecho(f[n - 1], t, n)]
  <2>1. \A n \in 0..Len(t) : f[n] = e[n] BY <1>4, <1>5, <1>6
  <2>2. f = e BY <1>4, <2>1
  <2> QED BY <2>2 DEF EsHecho
<1> QED BY <1>7

(* There is one only.                                                      *)
LEMMA HechoUna ==
  ASSUME NEW t \in Seq(Caracteres), NEW u \in Seq(Caracteres),
         Len(t) <= Len(u), \A i \in 1..Len(t) : u[i] = t[i],
         NEW f, NEW g, EsHecho(f, t), EsHecho(g, u)
  PROVE  \A n \in 0..Len(t) : g[n] = f[n]
<1> DEFINE P == {n \in 0..Len(t) : g[n] = f[n]}
<1>0. Len(t) \in Nat /\ Len(u) \in Nat BY LenProperties
<1>1. 0 \in P BY <1>0, HechoValor
<1>2. ASSUME NEW n \in 0..Len(t), n # 0, n - 1 \in P PROVE n \in P
  <2>1. n \in 1..Len(t) /\ n \in 1..Len(u) BY <1>0, <1>2
  <2>2. f[n] = Hecho(f[n - 1], t, n) /\ g[n] = Hecho(g[n - 1], u, n)
    BY <1>0, <2>1, HechoValor
  <2>3. u[n] = t[n] /\ (n = 1 \/ u[n - 1] = t[n - 1])
    BY <1>0, <2>1
  <2>4. g[n - 1] = f[n - 1] BY <1>2
  <2> QED BY <1>2, <2>2, <2>3, <2>4 DEF Hecho
<1> HIDE DEF P
<1>3. \A n \in 0..Len(t) : n # 0 /\ n - 1 \in P => n \in P BY <1>2
<1>4. \A n \in 0..Len(t) : n \in P BY <1>0, <1>1, <1>3, InduccionHasta, Zenon
<1> QED BY <1>4 DEF P

(* Sub is its last value.                                                  *)
LEMMA SubEs ==
  ASSUME NEW t \in Seq(Caracteres), NEW f, EsHecho(f, t)
  PROVE  Sub(t) = f[Len(t)]
<1> DEFINE g == CHOOSE h : EsHecho(h, t)
<1>1. Sub(t) = g[Len(t)] BY DEF Sub, EsHecho, Hecho
<1>2. EsHecho(g, t) BY Zenon
<1> HIDE DEF g
<1>3. Len(t) \in Nat BY LenProperties
<1>4. \A n \in 0..Len(t) : g[n] = f[n] BY <1>2, <1>3, HechoUna
<1> QED BY <1>1, <1>3, <1>4

(* Sub of a text with a character more: it keeps what is no blank, and of  *)
(* a run of blanks the first, as a space.                                  *)
LEMMA SubPaso ==
  ASSUME NEW t \in Seq(Caracteres), NEW c \in Caracteres
  PROVE  /\ Sub(t) \in Seq(Caracteres)
         /\ Sub(Append(t, c)) =
               IF ~EsBlanco(c) THEN Append(Sub(t), c)
               ELSE IF t = <<>> \/ ~EsBlanco(t[Len(t)]) THEN Append(Sub(t), Espacio)
               ELSE Sub(t)
<1> DEFINE u == Append(t, c)
<1>1. /\ u \in Seq(Caracteres) /\ Len(u) = Len(t) + 1 /\ Len(t) \in Nat
      /\ \A i \in 1..Len(t) : u[i] = t[i]
      /\ u[Len(t) + 1] = c
  BY UnoMas
<1> HIDE DEF u
<1>2. PICK f \in [0..Len(t) -> Seq(Caracteres)] : EsHecho(f, t) BY HechoHay
<1>3. PICK g \in [0..Len(u) -> Seq(Caracteres)] : EsHecho(g, u) BY <1>1, HechoHay
<1>4. Sub(t) = f[Len(t)] /\ Sub(u) = g[Len(t) + 1]
  BY <1>1, <1>2, <1>3, SubEs
<1>5. g[Len(t)] = f[Len(t)]
  <2>1. Len(t) <= Len(u) BY <1>1
  <2> QED BY <1>1, <1>2, <1>3, <2>1, HechoUna
<1>6. g[Len(t) + 1] = Hecho(f[Len(t)], u, Len(t) + 1)
  <2>1. Len(t) + 1 \in 1..Len(u) /\ (Len(t) + 1) - 1 = Len(t) /\ Len(u) \in Nat
    BY <1>1
  <2> QED BY <1>3, <1>5, <2>1, HechoValor
<1>7. t = <<>> <=> Len(t) + 1 = 1 BY <1>1, EmptySeq
<1>8. t # <<>> => u[Len(t)] = t[Len(t)] BY <1>1, <1>7
<1>9. Sub(t) \in Seq(Caracteres) BY <1>1, <1>2, <1>4
<1>10. Sub(u) = IF ~EsBlanco(c) THEN Append(Sub(t), c)
               ELSE IF t = <<>> \/ ~EsBlanco(t[Len(t)]) THEN Append(Sub(t), Espacio)
               ELSE Sub(t)
  <2>1. (Len(t) + 1) - 1 = Len(t) BY <1>1
  <2> QED BY <1>1, <1>4, <1>6, <1>7, <1>8, <2>1 DEF Hecho
<1> QED BY <1>9, <1>10 DEF u

(* It leaves the empty text alone.                                         *)
LEMMA SubVacio == Sub(<<>>) = <<>>
<1> DEFINE v == <<>>
<1>1. v \in Seq(Caracteres) /\ Len(v) = 0 BY EmptySeq
<1> HIDE DEF v
<1>2. PICK f \in [0..Len(v) -> Seq(Caracteres)] : EsHecho(f, v) BY <1>1, HechoHay
<1>3. Sub(v) = f[0] BY <1>1, <1>2, SubEs
<1>4. f[0] = <<>> BY <1>1, <1>2, HechoValor
<1> QED BY <1>3, <1>4 DEF v
-----------------------------------------------------------------------------
(* What Sub makes of a text.                                               *)
AlFinal(t) == t # <<>> /\ EsBlanco(t[Len(t)])

Compacto(t) ==
    \A i \in 1..Len(t) : EsBlanco(t[i]) =>
        t[i] = Espacio /\ (i # Len(t) => ~EsBlanco(t[i + 1]))

(* A compact text stays so with a character that is no blank, and with a   *)
(* space that follows none.                                                *)
LEMMA CompactoMas ==
  ASSUME NEW t \in Seq(Caracteres), NEW c \in Caracteres, Compacto(t),
         EsBlanco(c) => c = Espacio /\ ~AlFinal(t)
  PROVE  Compacto(Append(t, c))
<1> DEFINE u == Append(t, c)
<1>1. /\ Len(u) = Len(t) + 1 /\ Len(t) \in Nat
      /\ \A i \in 1..Len(t) : u[i] = t[i]
      /\ u[Len(t) + 1] = c
  BY UnoMas
<1> HIDE DEF u
<1> SUFFICES ASSUME NEW i \in 1..Len(u), EsBlanco(u[i])
             PROVE  u[i] = Espacio /\ (i # Len(u) => ~EsBlanco(u[i + 1]))
  BY DEF Compacto, u
<1>2. CASE i = Len(t) + 1 BY <1>1, <1>2
<1>3. CASE i = Len(t) /\ i # 0
  <2>1. t # <<>> BY <1>3, EmptySeq
  <2>2. i \in 1..Len(t) /\ u[i] = t[i] BY <1>1, <1>3
  <2>3. t[i] = Espacio BY <2>2 DEF Compacto
  <2>4. AlFinal(t) BY <1>3, <2>1, <2>2 DEF AlFinal
  <2> QED BY <1>1, <1>3, <2>2, <2>3, <2>4
<1>4. CASE i \in 1..Len(t) /\ i # Len(t)
  <2>1. i + 1 \in 1..Len(t) BY <1>1, <1>4
  <2>2. u[i] = t[i] /\ u[i + 1] = t[i + 1] BY <1>1, <1>4, <2>1
  <2> QED BY <1>4, <2>2 DEF Compacto
<1> QED BY <1>1, <1>2, <1>3, <1>4

(* A text and a character more: its end is the character.                  *)
LEMMA FinalMas ==
  ASSUME NEW t \in Seq(Caracteres), NEW c \in Caracteres
  PROVE  AlFinal(Append(t, c)) <=> EsBlanco(c)
BY UnoMas DEF AlFinal

(* The words of a text with a character more, by how the text ends.        *)
LEMMA PalabrasMas ==
  ASSUME NEW t \in Seq(Caracteres), NEW c \in Caracteres
  PROVE  /\ Palabras(t) \in Seq(Palabra)
         /\ EsBlanco(c) => Palabras(Append(t, c)) = Palabras(t)
         /\ ~EsBlanco(c) /\ (t = <<>> \/ AlFinal(t)) =>
               Palabras(Append(t, c)) = Append(Palabras(t), <<c>>)
         /\ ~EsBlanco(c) /\ t # <<>> /\ ~AlFinal(t) =>
               Palabras(Append(t, c)) = Alarga(Palabras(t), c)
BY PalabrasPaso DEF AlFinal

(* Sub leaves each text compact and without a word less or more.           *)
LEMMA SubBien ==
  ASSUME NEW t \in Seq(Caracteres)
  PROVE  /\ Sub(t) \in Seq(Caracteres) /\ Compacto(Sub(t))
         /\ Sub(t) = <<>> <=> t = <<>>
         /\ AlFinal(Sub(t)) <=> AlFinal(t)
         /\ Palabras(Sub(t)) = Palabras(t)
<1> DEFINE Bien(x) == /\ Sub(x) \in Seq(Caracteres) /\ Compacto(Sub(x))
                      /\ Sub(x) = <<>> <=> x = <<>>
                      /\ AlFinal(Sub(x)) <=> AlFinal(x)
                      /\ Palabras(Sub(x)) = Palabras(x)
           P == {x \in Seq(Caracteres) : Bien(x)}
<1>1. <<>> \in P
  <2>1. <<>> \in Seq(Caracteres) /\ Len(<<>>) = 0 BY EmptySeq
  <2>2. Compacto(<<>>) BY <2>1 DEF Compacto
  <2> QED BY <2>1, <2>2, SubVacio
<1>2. ASSUME NEW x \in Seq(Caracteres), NEW c \in Caracteres, x \in P
      PROVE  Append(x, c) \in P
  <2> DEFINE s == Sub(x)
             y == Append(x, c)
  <2>1. /\ s \in Seq(Caracteres) /\ Compacto(s) /\ (s = <<>> <=> x = <<>>)
        /\ (AlFinal(s) <=> AlFinal(x)) /\ Palabras(s) = Palabras(x)
    BY <1>2
  <2>2. y \in Seq(Caracteres) /\ y # <<>> BY UnoMas
  <2>3. AlFinal(y) <=> EsBlanco(c) BY FinalMas
  <2>4. /\ ~EsBlanco(c) => Sub(y) = Append(s, c)
        /\ EsBlanco(c) /\ ~AlFinal(x) => Sub(y) = Append(s, Espacio)
        /\ EsBlanco(c) /\ AlFinal(x) => Sub(y) = s
    BY SubPaso DEF AlFinal
  <2>5. Espacio \in Caracteres /\ EsBlanco(Espacio) BY DEF Caracteres, EsBlanco
  <2>6. Bien(y)
    <3>1. CASE ~EsBlanco(c)
      <4> DEFINE z == Append(s, c)
      <4>1. z \in Seq(Caracteres) /\ z # <<>> BY <2>1, UnoMas
      <4>2. Compacto(z) BY <2>1, <3>1, CompactoMas
      <4>3. ~AlFinal(z) BY <2>1, <3>1, FinalMas
      <4>4. Palabras(z) = Palabras(y)
        <5>1. CASE x = <<>> \/ AlFinal(x)
          <6>1. Palabras(y) = Append(Palabras(x), <<c>>) BY <3>1, <5>1, PalabrasMas
          <6>2. Palabras(z) = Append(Palabras(s), <<c>>)
            BY <2>1, <3>1, <5>1, PalabrasMas
          <6> QED BY <2>1, <6>1, <6>2
        <5>2. CASE x # <<>> /\ ~AlFinal(x)
          <6>1. Palabras(y) = Alarga(Palabras(x), c) BY <3>1, <5>2, PalabrasMas
          <6>2. Palabras(z) = Alarga(Palabras(s), c)
            BY <2>1, <3>1, <5>2, PalabrasMas
          <6> QED BY <2>1, <6>1, <6>2
        <5> QED BY <5>1, <5>2
      <4>5. Sub(y) = z BY <2>4, <3>1
      <4> HIDE DEF z, y
      <4> QED BY <2>2, <2>3, <3>1, <4>1, <4>2, <4>3, <4>4, <4>5
    <3>2. CASE EsBlanco(c) /\ ~AlFinal(x)
      <4> DEFINE z == Append(s, Espacio)
      <4>1. z \in Seq(Caracteres) /\ z # <<>> BY <2>1, <2>5, UnoMas
      <4>2. Compacto(z) BY <2>1, <2>5, <3>2, CompactoMas
      <4>3. AlFinal(z) BY <2>1, <2>5, FinalMas
      <4>4. Palabras(z) = Palabras(y)
        <5>1. Palabras(y) = Palabras(x) BY <3>2, PalabrasMas
        <5>2. Palabras(z) = Palabras(s) BY <2>1, <2>5, PalabrasMas
        <5> QED BY <2>1, <5>1, <5>2
      <4>5. Sub(y) = z BY <2>4, <3>2
      <4> HIDE DEF z, y
      <4> QED BY <2>2, <2>3, <3>2, <4>1, <4>2, <4>3, <4>4, <4>5
    <3>3. CASE EsBlanco(c) /\ AlFinal(x)
      <4>1. Sub(y) = s BY <2>4, <3>3
      <4>2. Palabras(y) = Palabras(x) BY <3>3, PalabrasMas
      <4>3. s # <<>> BY <2>1, <3>3 DEF AlFinal
      <4> HIDE DEF s, y
      <4> QED BY <2>1, <2>2, <2>3, <3>3, <4>1, <4>2, <4>3
    <3> QED BY <3>1, <3>2, <3>3
  <2> QED BY <2>2, <2>6
<1> HIDE DEF P
<1>3. \A x \in Seq(Caracteres) : x \in P
  <2>1. \A x \in Seq(Caracteres), c \in Caracteres : x \in P => Append(x, c) \in P
    BY <1>2
  <2> QED BY <1>1, <2>1, InduccionTexto, Zenon
<1>4. t \in P BY <1>3
<1> QED BY <1>4 DEF P
-----------------------------------------------------------------------------
(* A text whose last character is no blank has a word.                     *)
LEMMA HayPalabra ==
  ASSUME NEW t \in Seq(Caracteres), t # <<>>, ~AlFinal(t)
  PROVE  Len(Palabras(t)) \in Nat \ {0}
<1> DEFINE Bien(x) == x = <<>> \/ AlFinal(x) \/ Len(Palabras(x)) \in Nat \ {0}
           P == {x \in Seq(Caracteres) : Bien(x)}
<1>1. <<>> \in P BY EmptySeq
<1>2. ASSUME NEW x \in Seq(Caracteres), NEW c \in Caracteres, x \in P
      PROVE  Append(x, c) \in P
  <2>1. Append(x, c) \in Seq(Caracteres) BY UnoMas
  <2>2. CASE EsBlanco(c) BY <2>1, <2>2, FinalMas
  <2>3. CASE ~EsBlanco(c) /\ (x = <<>> \/ AlFinal(x))
    <3> DEFINE w == Palabras(x)
               p == <<c>>
    <3>1. Palabras(Append(x, c)) = Append(w, p) BY <2>3, PalabrasMas
    <3>2. w \in Seq(Palabra) /\ p \in Palabra BY PalabrasMas DEF Palabra
    <3> HIDE DEF w, p
    <3>3. Len(Append(w, p)) = Len(w) + 1 /\ Len(w) \in Nat BY <3>2, UnoMas
    <3> QED BY <2>1, <3>1, <3>3
  <2>4. CASE ~EsBlanco(c) /\ x # <<>> /\ ~AlFinal(x)
    <3>1. Palabras(Append(x, c)) = Alarga(Palabras(x), c) BY <2>4, PalabrasMas
    <3>2. Len(Alarga(Palabras(x), c)) = Len(Palabras(x))
      BY PalabrasMas, AlargaTipo
    <3>3. Len(Palabras(x)) \in Nat \ {0} BY <1>2, <2>4
    <3> QED BY <2>1, <3>1, <3>2, <3>3
  <2> QED BY <2>2, <2>3, <2>4
<1> HIDE DEF P
<1>3. \A x \in Seq(Caracteres) : x \in P
  <2>1. \A x \in Seq(Caracteres), c \in Caracteres : x \in P => Append(x, c) \in P
    BY <1>2
  <2> QED BY <1>1, <2>1, InduccionTexto, Zenon
<1>4. t \in P BY <1>3
<1> QED BY <1>4 DEF P

(* The last word grows, whatever words are before it.                      *)
LEMMA AlargaTras ==
  ASSUME NEW p \in Seq(Palabra), NEW q \in Seq(Palabra), NEW c \in Caracteres,
         Len(q) \in Nat \ {0}
  PROVE  Alarga(p \o q, c) = p \o Alarga(q, c)
<1> DEFINE r == p \o q
           a == Alarga(r, c)
           b == Alarga(q, c)
           d == p \o b
<1>1. /\ r \in Seq(Palabra) /\ Len(r) = Len(p) + Len(q)
      /\ \A i \in 1..(Len(p) + Len(q)) :
            r[i] = IF i <= Len(p) THEN p[i] ELSE q[i - Len(p)]
  BY ConcatProperties
<1>2. /\ b \in Seq(Palabra) /\ Len(b) = Len(q)
      /\ \A k \in 1..Len(q) : b[k] = IF k = Len(q) THEN Append(q[k], c) ELSE q[k]
  BY AlargaTipo
<1> HIDE DEF r, b
<1>3. /\ a \in Seq(Palabra) /\ Len(a) = Len(r)
      /\ \A k \in 1..Len(r) : a[k] = IF k = Len(r) THEN Append(r[k], c) ELSE r[k]
  BY <1>1, AlargaTipo
<1>4. /\ d \in Seq(Palabra) /\ Len(d) = Len(p) + Len(b)
      /\ \A i \in 1..(Len(p) + Len(b)) :
            d[i] = IF i <= Len(p) THEN p[i] ELSE b[i - Len(p)]
  BY <1>2, ConcatProperties
<1> HIDE DEF a, d
<1>5. Len(p) \in Nat BY LenProperties
<1>6. ASSUME NEW i \in 1..Len(a) PROVE a[i] = d[i]
  <2>1. i \in 1..Len(r) /\ i \in 1..(Len(p) + Len(q)) BY <1>1, <1>3
  <2>2. CASE i <= Len(p)
    <3>1. i # Len(r) BY <1>1, <1>5, <2>2
    <3> QED BY <1>1, <1>2, <1>3, <1>4, <2>1, <2>2, <3>1
  <2>3. CASE ~(i <= Len(p))
    <3>1. i - Len(p) \in 1..Len(q) BY <1>5, <2>1, <2>3
    <3>2. i = Len(r) <=> i - Len(p) = Len(q) BY <1>1, <1>5, <2>1
    <3>3. r[i] = q[i - Len(p)] /\ d[i] = b[i - Len(p)]
      BY <1>1, <1>2, <1>4, <2>1, <2>3
    <3> QED BY <1>2, <1>3, <2>1, <3>1, <3>2, <3>3
  <2> QED BY <2>2, <2>3
<1>7. a = d BY <1>1, <1>2, <1>3, <1>4, <1>6, SeqEqual
<1> QED BY <1>7 DEF a, b, d, r

(* A sequence, another and an element more.                                *)
LEMMA TrasMas ==
  ASSUME NEW S, NEW a \in Seq(S), NEW t \in Seq(S), NEW x \in S
  PROVE  /\ a \o Append(t, x) = Append(a \o t, x)
         /\ a \o t \in Seq(S)
         /\ t # <<>> => a \o t # <<>> /\ (a \o t)[Len(a \o t)] = t[Len(t)]
<1> DEFINE y == <<x>>
<1>1. y \in Seq(S) OBVIOUS
<1>2. Append(t, x) = t \o y /\ a \o t \in Seq(S)
  BY AppendIsConcat, ConcatProperties
<1>3. Append(a \o t, x) = (a \o t) \o y BY <1>2, AppendIsConcat
<1>4. a \o (t \o y) = (a \o t) \o y
  <2> HIDE DEF y
  <2> QED BY <1>1, ConcatAssociative
<1>5. ASSUME t # <<>>
      PROVE  a \o t # <<>> /\ (a \o t)[Len(a \o t)] = t[Len(t)]
  <2>1. Len(a) \in Nat /\ Len(t) \in Nat \ {0} BY <1>5, EmptySeq, LenProperties
  <2>2. /\ Len(a \o t) = Len(a) + Len(t)
        /\ \A i \in 1..(Len(a) + Len(t)) :
              (a \o t)[i] = IF i <= Len(a) THEN a[i] ELSE t[i - Len(a)]
    BY ConcatProperties
  <2>3. Len(a) + Len(t) \in 1..(Len(a) + Len(t)) /\ ~(Len(a) + Len(t) <= Len(a))
        /\ (Len(a) + Len(t)) - Len(a) = Len(t)
    BY <2>1
  <2>4. a \o t # <<>> BY <2>1, <2>2, EmptySeq
  <2> QED BY <2>2, <2>3, <2>4
<1> QED BY <1>2, <1>3, <1>4, <1>5

(* A blank parts the words of what is before it from those of what is      *)
(* after it.                                                               *)
LEMMA PalabrasCorte ==
  ASSUME NEW a \in Seq(Caracteres), NEW b \in Caracteres, EsBlanco(b),
         NEW t \in Seq(Caracteres)
  PROVE  Palabras(Append(a, b) \o t) = Palabras(a) \o Palabras(t)
<1> DEFINE d == Append(a, b)
           w == Palabras(a)
           P == {x \in Seq(Caracteres) : Palabras(d \o x) = w \o Palabras(x)}
<1>1. d \in Seq(Caracteres) /\ d # <<>> /\ AlFinal(d) /\ Palabras(d) = w
      /\ w \in Seq(Palabra)
  BY UnoMas, FinalMas, PalabrasMas
<1> HIDE DEF d, w
<1>2. <<>> \in P
  <2>1. d \o <<>> = d /\ w \o <<>> = w BY <1>1, ConcatEmptySeq
  <2>2. <<>> \in Seq(Caracteres) BY EmptySeq
  <2> QED BY <1>1, <2>1, <2>2, PalabrasVacio
<1>3. ASSUME NEW x \in Seq(Caracteres), NEW c \in Caracteres, x \in P
      PROVE  Append(x, c) \in P
  <2> DEFINE y == Append(x, c)
             u == d \o x
             q == Palabras(x)
  <2>1. y \in Seq(Caracteres) /\ u \in Seq(Caracteres) /\ q \in Seq(Palabra)
    BY <1>1, UnoMas, TrasMas, PalabrasMas
  <2>2. d \o y = Append(u, c) BY <1>1, TrasMas
  <2>3. Palabras(u) = w \o q BY <1>3
  <2>4. u # <<>>
    <3>1. x = <<>> => u = d BY <1>1, ConcatEmptySeq
    <3> QED BY <1>1, <3>1, TrasMas
  <2>5. AlFinal(u) <=> x = <<>> \/ AlFinal(x)
    <3>1. CASE x = <<>>
      <4>1. u = d BY <1>1, <3>1, ConcatEmptySeq
      <4> QED BY <1>1, <3>1, <4>1
    <3>2. CASE x # <<>>
      <4>1. u[Len(u)] = x[Len(x)] BY <1>1, <3>2, TrasMas
      <4> QED BY <2>4, <3>2, <4>1 DEF AlFinal
    <3> QED BY <3>1, <3>2
  <2>6. Palabras(Append(u, c)) = w \o Palabras(y)
    <3> HIDE DEF u
    <3>1. CASE EsBlanco(c)
      <4>1. Palabras(Append(u, c)) = Palabras(u) /\ Palabras(y) = q
        BY <2>1, <3>1, PalabrasMas
      <4> QED BY <2>3, <4>1
    <3>2. CASE ~EsBlanco(c) /\ (x = <<>> \/ AlFinal(x))
      <4> DEFINE p == <<c>>
      <4>1. p \in Palabra BY DEF Palabra
      <4>2. Palabras(y) = Append(q, p) BY <3>2, PalabrasMas
      <4>3. Palabras(Append(u, c)) = Append(Palabras(u), p)
        BY <2>1, <2>5, <3>2, PalabrasMas
      <4> HIDE DEF p, q, y
      <4>4. w \o Append(q, p) = Append(w \o q, p) BY <1>1, <2>1, <4>1, TrasMas
      <4> QED BY <2>3, <4>2, <4>3, <4>4
    <3>3. CASE ~EsBlanco(c) /\ x # <<>> /\ ~AlFinal(x)
      <4>1. Palabras(y) = Alarga(q, c) BY <3>3, PalabrasMas
      <4>2. Palabras(Append(u, c)) = Alarga(Palabras(u), c)
        BY <2>1, <2>4, <2>5, <3>3, PalabrasMas
      <4>3. Len(q) \in Nat \ {0} BY <3>3, HayPalabra
      <4> HIDE DEF q, y
      <4>4. Alarga(w \o q, c) = w \o Alarga(q, c)
        BY <1>1, <2>1, <4>3, AlargaTras
      <4> QED BY <2>3, <4>1, <4>2, <4>4
    <3> QED BY <3>1, <3>2, <3>3
  <2> QED BY <2>1, <2>2, <2>6
<1> HIDE DEF P
<1>4. \A x \in Seq(Caracteres) : x \in P
  <2>1. \A x \in Seq(Caracteres), c \in Caracteres : x \in P => Append(x, c) \in P
    BY <1>3
  <2> QED BY <1>2, <2>1, InduccionTexto, Zenon
<1>5. t \in P BY <1>4
<1> QED BY <1>5 DEF P, d, w
-----------------------------------------------------------------------------
(* A stretch of a text is a text.                                          *)
LEMMA Trozo ==
  ASSUME NEW t \in Seq(Caracteres), NEW m \in Nat \ {0}, NEW n \in Nat, n <= Len(t)
  PROVE  /\ SubSeq(t, m, n) \in Seq(Caracteres)
         /\ Len(SubSeq(t, m, n)) = IF m <= n THEN (n - m) + 1 ELSE 0
         /\ \A k \in 1..((n - m) + 1) : SubSeq(t, m, n)[k] = t[(m + k) - 1]
<1>1. Len(t) \in Nat /\ \A i \in 1..Len(t) : t[i] \in Caracteres
  BY LenProperties, ElementOfSeq
<1>2. m \in Int /\ n \in Int /\ \A i \in m..n : t[i] \in Caracteres BY <1>1
<1> QED BY <1>2, SubSeqProperties

(* A text parted at one of its characters.                                 *)
LEMMA Partido ==
  ASSUME NEW t \in Seq(Caracteres), NEW i \in 1..Len(t)
  PROVE  /\ SubSeq(t, 1, i - 1) \in Seq(Caracteres)
         /\ SubSeq(t, i + 1, Len(t)) \in Seq(Caracteres)
         /\ t[i] \in Caracteres
         /\ t = Append(SubSeq(t, 1, i - 1), t[i]) \o SubSeq(t, i + 1, Len(t))
<1> DEFINE a == SubSeq(t, 1, i - 1)
           z == SubSeq(t, i + 1, Len(t))
           d == Append(a, t[i])
           u == d \o z
<1>1. Len(t) \in Nat /\ t[i] \in Caracteres BY LenProperties, ElementOfSeq
<1>2. /\ a \in Seq(Caracteres) /\ Len(a) = i - 1
      /\ \A k \in 1..(i - 1) : a[k] = t[k]
  <2>1. i - 1 \in Nat /\ i - 1 <= Len(t) /\ 1 \in Nat \ {0} BY <1>1
  <2>2. /\ a \in Seq(Caracteres)
        /\ Len(a) = IF 1 <= i - 1 THEN ((i - 1) - 1) + 1 ELSE 0
        /\ \A k \in 1..(((i - 1) - 1) + 1) : a[k] = t[(1 + k) - 1]
    BY <2>1, Trozo
  <2> HIDE DEF a
  <2> QED BY <1>1, <2>2
<1>3. /\ z \in Seq(Caracteres) /\ Len(z) = Len(t) - i
      /\ \A k \in 1..(Len(t) - i) : z[k] = t[i + k]
  <2>1. i + 1 \in Nat \ {0} /\ Len(t) <= Len(t) BY <1>1
  <2>2. /\ z \in Seq(Caracteres)
        /\ Len(z) = IF i + 1 <= Len(t) THEN (Len(t) - (i + 1)) + 1 ELSE 0
        /\ \A k \in 1..((Len(t) - (i + 1)) + 1) : z[k] = t[((i + 1) + k) - 1]
    BY <1>1, <2>1, Trozo
  <2> HIDE DEF z
  <2> QED BY <1>1, <2>2
<1> HIDE DEF a, z
<1>4. /\ d \in Seq(Caracteres) /\ Len(d) = i
      /\ \A k \in 1..(i - 1) : d[k] = t[k]
      /\ d[i] = t[i]
  <2>1. /\ d \in Seq(Caracteres) /\ Len(d) = Len(a) + 1
        /\ \A k \in 1..Len(a) : d[k] = a[k]
        /\ d[Len(a) + 1] = t[i]
    BY <1>1, <1>2, UnoMas
  <2> HIDE DEF d
  <2> QED BY <1>1, <1>2, <2>1
<1> HIDE DEF d
<1>5. /\ u \in Seq(Caracteres) /\ Len(u) = Len(d) + Len(z)
      /\ \A k \in 1..(Len(d) + Len(z)) :
            u[k] = IF k <= Len(d) THEN d[k] ELSE z[k - Len(d)]
  BY <1>3, <1>4, ConcatProperties
<1> HIDE DEF u
<1>6. Len(u) = Len(t) BY <1>1, <1>3, <1>4, <1>5
<1>7. ASSUME NEW k \in 1..Len(t) PROVE t[k] = u[k]
  <2>1. k \in 1..(Len(d) + Len(z)) BY <1>1, <1>3, <1>4
  <2>2. CASE k <= i
    <3>1. u[k] = d[k] BY <1>4, <1>5, <2>1, <2>2
    <3>2. k \in 1..(i - 1) \/ k = i BY <2>2, <1>1
    <3> QED BY <1>4, <3>1, <3>2
  <2>3. CASE ~(k <= i)
    <3>1. u[k] = z[k - i] BY <1>4, <1>5, <2>1, <2>3
    <3>2. k - i \in 1..(Len(t) - i) /\ i + (k - i) = k BY <1>1, <2>3
    <3>3. z[k - i] = t[i + (k - i)] BY <1>3, <3>2
    <3> QED BY <3>1, <3>2, <3>3
  <2> QED BY <1>1, <2>2, <2>3
<1>8. t = u BY <1>5, <1>6, <1>7, SeqEqual
<1> QED BY <1>1, <1>2, <1>3, <1>8 DEF a, z, d, u

(* The first step of strip, on a compact text: it begins with no blank     *)
(* then, and has the words it had.                                         *)
LEMMA SinPrincipio ==
  ASSUME NEW t \in Seq(Caracteres), Compacto(t)
  PROVE  LET s == IF t # <<>> /\ EsBlanco(Head(t)) THEN Tail(t) ELSE t
         IN  /\ s \in Seq(Caracteres) /\ Compacto(s)
             /\ s # <<>> => ~EsBlanco(s[1])
             /\ Palabras(s) = Palabras(t)
<1>1. CASE ~(t # <<>> /\ EsBlanco(Head(t)))
  <2>1. t # <<>> => Head(t) = t[1] OBVIOUS
  <2> QED BY <1>1, <2>1
<1>2. CASE t # <<>> /\ EsBlanco(Head(t))
  <2> DEFINE s == Tail(t)
             e == <<>>
  <2>1. /\ s \in Seq(Caracteres) /\ Len(s) = Len(t) - 1
        /\ \A i \in 1..Len(s) : s[i] = t[i + 1]
        /\ Len(t) \in Nat \ {0}
    BY <1>2, HeadTailProperties, EmptySeq
  <2>2. Head(t) = t[1] /\ 1 \in 1..Len(t) BY <1>2, <2>1
  <2>3. t[1] \in Caracteres BY <2>2, ElementOfSeq
  <2>4. e \in Seq(Caracteres) /\ Len(e) = 0 /\ Palabras(e) = <<>>
    BY EmptySeq, PalabrasVacio
  <2> HIDE DEF s, e
  <2>5. Compacto(s)
    <3> SUFFICES ASSUME NEW i \in 1..Len(s), EsBlanco(s[i])
                 PROVE  s[i] = Espacio /\ (i # Len(s) => ~EsBlanco(s[i + 1]))
      BY DEF Compacto
    <3>1. i + 1 \in 1..Len(t) /\ s[i] = t[i + 1] /\ (i + 1 = Len(t) => i = Len(s))
      BY <2>1
    <3>2. /\ t[i + 1] = Espacio
          /\ i + 1 # Len(t) => ~EsBlanco(t[(i + 1) + 1])
      BY <3>1 DEF Compacto
    <3>3. i # Len(s) => i + 1 \in 1..Len(s) BY <2>1
    <3> QED BY <2>1, <3>1, <3>2, <3>3
  <2>6. s # <<>> => ~EsBlanco(s[1])
    <3> SUFFICES ASSUME s # <<>> PROVE ~EsBlanco(s[1])
      OBVIOUS
    <3>1. Len(s) \in Nat \ {0} BY <2>1, EmptySeq
    <3>2. 1 \in 1..Len(s) /\ 1 # Len(t) BY <2>1, <3>1
    <3>3. s[1] = t[1 + 1] BY <2>1, <3>2
    <3> QED BY <1>2, <2>2, <3>2, <3>3 DEF Compacto
  <2>7. Palabras(t) = Palabras(s)
    <3>1. /\ SubSeq(t, 1, 0) = e /\ SubSeq(t, 2, Len(t)) = s
      <4>1. SubSeq(t, 1, 0) = e
        <5>1. SubSeq(t, 1, 0) \in Seq(Caracteres) /\ Len(SubSeq(t, 1, 0)) = 0
          <6>1. 1 \in Nat \ {0} /\ 0 \in Nat /\ 0 <= Len(t) BY <2>1
          <6>2. ~(1 <= 0) OBVIOUS
          <6> QED BY <6>1, <6>2, Trozo
        <5> QED BY <5>1, EmptySeq DEF e
      <4>2. SubSeq(t, 2, Len(t)) = s
        <5> DEFINE x == SubSeq(t, 2, Len(t))
        <5>1. /\ x \in Seq(Caracteres)
              /\ Len(x) = IF 2 <= Len(t) THEN (Len(t) - 2) + 1 ELSE 0
              /\ \A k \in 1..((Len(t) - 2) + 1) : x[k] = t[(2 + k) - 1]
          <6>1. 2 \in Nat \ {0} /\ Len(t) \in Nat /\ Len(t) <= Len(t) BY <2>1
          <6> QED BY <6>1, Trozo
        <5> HIDE DEF x
        <5>2. Len(x) = Len(s) BY <2>1, <5>1
        <5>3. \A k \in 1..Len(x) : x[k] = s[k] BY <2>1, <5>1, <5>2
        <5>4. x = s BY <2>1, <5>1, <5>2, <5>3, SeqEqual
        <5> QED BY <5>4 DEF x
      <4> QED BY <4>1, <4>2
    <3>2. t = Append(e, t[1]) \o s
      <4>1. t = Append(SubSeq(t, 1, 1 - 1), t[1]) \o SubSeq(t, 1 + 1, Len(t))
        BY <2>2, Partido
      <4>2. 1 - 1 = 0 /\ 1 + 1 = 2 OBVIOUS
      <4> QED BY <3>1, <4>1, <4>2
    <3>3. Palabras(Append(e, t[1]) \o s) = Palabras(e) \o Palabras(s)
      BY <1>2, <2>1, <2>2, <2>3, <2>4, PalabrasCorte
    <3>4. Palabras(s) \in Seq(Palabra) BY <2>1, <2>3, PalabrasMas
    <3>5. <<>> \o Palabras(s) = Palabras(s) BY <3>4, ConcatEmptySeq
    <3> QED BY <2>4, <3>2, <3>3, <3>5
  <2> QED BY <1>2, <2>1, <2>5, <2>6, <2>7 DEF s
<1> QED BY <1>1, <1>2

(* The second: the text ends with no blank either.                         *)
LEMMA SinFinal ==
  ASSUME NEW s \in Seq(Caracteres), Compacto(s), s # <<>> => ~EsBlanco(s[1])
  PROVE  LET r == IF s # <<>> /\ EsBlanco(Last(s)) THEN Front(s) ELSE s
         IN  r \in Seq(Caracteres) /\ Normal(r) /\ Palabras(r) = Palabras(s)
<1>1. CASE ~(s # <<>> /\ EsBlanco(Last(s)))
  <2>1. ASSUME NEW i \in 1..Len(s), EsBlanco(s[i])
        PROVE  s[i] = Espacio /\ i \in 2..(Len(s) - 1) /\ ~EsBlanco(s[i + 1])
    <3>1. s # <<>> /\ Len(s) \in Nat \ {0} BY EmptySeq
    <3>2. i # 1 /\ i # Len(s) BY <1>1, <2>1, <3>1 DEF Last
    <3>3. i \in 2..(Len(s) - 1) BY <3>1, <3>2
    <3> QED BY <2>1, <3>2, <3>3 DEF Compacto
  <2> QED BY <1>1, <2>1 DEF Normal
<1>2. CASE s # <<>> /\ EsBlanco(Last(s))
  <2> DEFINE n == Len(s)
             r == SubSeq(s, 1, n - 1)
             z == SubSeq(s, n + 1, n)
  <2>1. n \in Nat \ {0} /\ EsBlanco(s[n]) /\ ~EsBlanco(s[1])
    BY <1>2, EmptySeq DEF Last
  <2>2. n # 1 /\ n \in 1..n BY <2>1
  <2>3. /\ r \in Seq(Caracteres) /\ z \in Seq(Caracteres) /\ s[n] \in Caracteres
        /\ s = Append(r, s[n]) \o z
    BY <2>2, Partido
  <2>4. Front(s) = r BY DEF Front
  <2>5. Len(r) = n - 1 /\ \A k \in 1..(n - 1) : r[k] = s[k]
    <3>1. 1 \in Nat \ {0} /\ n - 1 \in Nat /\ n - 1 <= Len(s) BY <2>1
    <3>2. /\ Len(r) = IF 1 <= n - 1 THEN ((n - 1) - 1) + 1 ELSE 0
          /\ \A k \in 1..(((n - 1) - 1) + 1) : r[k] = s[(1 + k) - 1]
      BY <3>1, Trozo
    <3> HIDE DEF n, r
    <3> QED BY <2>1, <2>2, <3>2
  <2>6. z = <<>>
    <3>1. n + 1 \in Nat \ {0} /\ n <= Len(s) /\ n \in Nat /\ ~(n + 1 <= n)
      BY <2>1
    <3>2. Len(z) = 0 BY <3>1, Trozo
    <3> QED BY <2>3, <3>2, EmptySeq
  <2>7. s = Append(r, s[n])
    <3> DEFINE d == Append(r, s[n])
    <3>1. d \in Seq(Caracteres) BY <2>3, UnoMas
    <3> HIDE DEF d
    <3>2. d \o <<>> = d BY <3>1, ConcatEmptySeq
    <3>3. s = d \o z BY <2>3 DEF d
    <3> QED BY <2>6, <3>2, <3>3 DEF d
  <2>8. Palabras(Append(r, s[n])) = Palabras(r) BY <2>1, <2>3, PalabrasMas
  <2>9. Normal(r)
    <3> HIDE DEF n, r, z
    <3> SUFFICES ASSUME NEW i \in 1..Len(r), EsBlanco(r[i])
                 PROVE  r[i] = Espacio /\ i \in 2..(Len(r) - 1) /\ ~EsBlanco(r[i + 1])
      BY DEF Normal
    <3>1. i \in 1..(n - 1) /\ r[i] = s[i] BY <2>5
    <3>2. i \in 1..Len(s) /\ i # Len(s) /\ n = Len(s) BY <2>1, <3>1 DEF n
    <3>3. s[i] = Espacio /\ ~EsBlanco(s[i + 1]) BY <3>1, <3>2 DEF Compacto
    <3>4. i # 1 /\ i # n - 1
      <4>1. i = n - 1 => i + 1 = n BY <2>1
      <4> QED BY <2>1, <3>1, <3>3, <4>1
    <3>5. i \in 2..(n - 2) /\ i + 1 \in 1..(n - 1) BY <2>1, <3>1, <3>4
    <3>6. r[i + 1] = s[i + 1] BY <2>5, <3>5
    <3>7. i \in 2..(Len(r) - 1) BY <2>1, <2>5, <3>5
    <3> QED BY <3>1, <3>3, <3>6, <3>7
  <2>10. Palabras(r) = Palabras(s) BY <2>7, <2>8
  <2> QED BY <1>2, <2>3, <2>4, <2>9, <2>10
<1> QED BY <1>1, <1>2

(* What the web service answers is in normal form and has the words of     *)
(* what it is asked.                                                       *)
LEMMA NormalizeMessage ==
  ASSUME NEW t \in Seq(Caracteres)
  PROVE  /\ normalize_message(t) \in Seq(Caracteres)
         /\ Normal(normalize_message(t))
         /\ Palabras(normalize_message(t)) = Palabras(t)
<1> DEFINE u == Sub(t)
           s == IF u # <<>> /\ EsBlanco(Head(u)) THEN Tail(u) ELSE u
           r == IF s # <<>> /\ EsBlanco(Last(s)) THEN Front(s) ELSE s
<1>1. u \in Seq(Caracteres) /\ Compacto(u) /\ Palabras(u) = Palabras(t) BY SubBien
<1>2. normalize_message(t) = r BY DEF normalize_message, Strip
<1> HIDE DEF u
<1>3. /\ s \in Seq(Caracteres) /\ Compacto(s) /\ (s # <<>> => ~EsBlanco(s[1]))
      /\ Palabras(s) = Palabras(u)
  BY <1>1, SinPrincipio
<1> HIDE DEF s
<1>4. r \in Seq(Caracteres) /\ Normal(r) /\ Palabras(r) = Palabras(s)
  BY <1>3, SinFinal
<1> QED BY <1>1, <1>2, <1>3, <1>4
-----------------------------------------------------------------------------
(* The inductive invariant: what was typed is a text; until the service is *)
(* asked there is no message and no file; and from then on both properties *)
(* hold, of texts.                                                         *)
Textos ==
    /\ resto \in Seq(Caracteres)
    /\ mensaje \in Seq(Caracteres) /\ fichero \in Seq(Caracteres)
    /\ fase \in {"tecleada", "pide", "envia", "fallo"}
    /\ fase = "tecleada" => mensaje = <<>> /\ fichero = <<>>

TextoInv == Textos /\ FormaNormal /\ PalabrasIntactas

(* What can be typed is a text.                                            *)
LEMMA TextoInit == Init => TextoInv
<1> SUFFICES ASSUME Init PROVE TextoInv
  OBVIOUS
<1>1. resto \in Seq(Caracteres)
  <2>1. resto \in UNION {[1..m -> Caracteres] : m \in 0..MaxLargo}
    BY DEF Init, BoundedSeq, SeqOf, Caracteres
  <2>2. PICK m \in 0..MaxLargo : resto \in [1..m -> Caracteres] BY <2>1
  <2>3. m \in Nat BY ServicioWebAssumption
  <2> QED BY <2>2, <2>3, SeqDef
<1>2. <<>> \in Seq(Caracteres) BY EmptySeq
<1> QED BY <1>1, <1>2 DEF Init, TextoInv, Textos, FormaNormal, PalabrasIntactas

(* Every step keeps it: a command takes the words out of the line whole,   *)
(* and the service keeps those of the message.                             *)
LEMMA TextoPaso == TextoInv /\ [Next]_vars => TextoInv'
<1> SUFFICES ASSUME TextoInv, [Next]_vars PROVE TextoInv'
  OBVIOUS
<1> USE DEF TextoInv, Textos
<1>1. CASE TomaSend
  <2>1. Palabras(resto) \in Seq(Palabra)
    <3>1. Espacio \in Caracteres BY DEF Caracteres
    <3> QED BY <3>1, PalabrasMas
  <2>2. fichero = <<>> BY <1>1 DEF TomaSend
  <2>3. Palabras(resto) \o Palabras(fichero) = Palabras(resto)
    BY <2>1, <2>2, PalabrasVacio, ConcatEmptySeq
  <2>4. /\ mensaje' = resto /\ fase' = "pide" /\ resto' = resto
        /\ fichero' = fichero
    BY <1>1 DEF TomaSend
  <2> QED BY <2>3, <2>4 DEF FormaNormal, PalabrasIntactas
<1>2. CASE TomaSendattach
  <2>1. PICK i \in Espacios :
           /\ mensaje' = SubSeq(resto, 1, i - 1)
           /\ fichero' = SubSeq(resto, i + 1, Len(resto))
    BY <1>2 DEF TomaSendattach
  <2>2. i \in 1..Len(resto) /\ EsBlanco(resto[i]) BY DEF Espacios, EsBlanco
  <2> DEFINE a == SubSeq(resto, 1, i - 1)
             z == SubSeq(resto, i + 1, Len(resto))
  <2>3. /\ a \in Seq(Caracteres) /\ z \in Seq(Caracteres) /\ resto[i] \in Caracteres
        /\ resto = Append(a, resto[i]) \o z
    BY <2>2, Partido
  <2>4. mensaje' = a /\ fichero' = z /\ fase' = "pide" /\ resto' = resto
    BY <1>2, <2>1 DEF TomaSendattach
  <2> HIDE DEF a, z
  <2>5. Palabras(Append(a, resto[i]) \o z) = Palabras(a) \o Palabras(z)
    BY <2>2, <2>3, PalabrasCorte
  <2>6. Palabras(a) \o Palabras(z) = Palabras(resto) BY <2>3, <2>5
  <2> QED BY <2>3, <2>4, <2>6 DEF FormaNormal, PalabrasIntactas
<1>3. CASE ErrorSintaxis
  BY <1>3 DEF ErrorSintaxis, FormaNormal, PalabrasIntactas
<1>4. CASE do_POST
  <2> DEFINE n == normalize_message(mensaje)
  <2>1. n \in Seq(Caracteres) /\ Normal(n) /\ Palabras(n) = Palabras(mensaje)
    BY NormalizeMessage
  <2>2. /\ fase = "pide" /\ fase' = "envia" /\ mensaje' = n
        /\ resto' = resto /\ fichero' = fichero
    BY <1>4 DEF do_POST
  <2> HIDE DEF n
  <2>3. Palabras(mensaje) \o Palabras(fichero) = Palabras(resto)
    BY <2>2 DEF PalabrasIntactas
  <2>4. FormaNormal' BY <2>1, <2>2 DEF FormaNormal
  <2>5. PalabrasIntactas' BY <2>1, <2>2, <2>3 DEF PalabrasIntactas
  <2> QED BY <2>1, <2>2, <2>4, <2>5
<1>5. CASE SinServicio
  BY <1>5 DEF SinServicio, FormaNormal, PalabrasIntactas
<1>6. CASE UNCHANGED vars
  BY <1>6 DEF vars, FormaNormal, PalabrasIntactas
<1> QED BY <1>1, <1>2, <1>3, <1>4, <1>5, <1>6 DEF Next

(* So it always holds.                                                     *)
LEMMA TextoSiempre == Spec => []TextoInv
BY TextoInit, TextoPaso, PTL DEF Spec

(* What goes to the server has one space between each two words, none at   *)
(* its ends and no other blank (web_service.py:22-25, client.py:432-435).  *)
THEOREM FormaNormalCorrecta == Spec => []FormaNormal
<1>1. TextoInv => FormaNormal BY DEF TextoInv
<1> QED BY <1>1, TextoSiempre, PTL

(* No word that is typed is lost, split, joined to another or moved on its *)
(* way to the server (web_service.py:25, client.py:599, :607-608).         *)
THEOREM PalabrasIntactasCorrecta == Spec => []PalabrasIntactas
<1>1. TextoInv => PalabrasIntactas BY DEF TextoInv
<1> QED BY <1>1, TextoSiempre, PTL
=============================================================================
