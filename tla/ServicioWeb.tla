---------------------------- MODULE ServicioWeb ----------------------------
(***************************************************************************)
(* The text of a message on its way from the keyboard to the server: the   *)
(* shell of src/client.py takes it out of the line, and the web service of *)
(* src/web/web_service.py normalises it.  A text is a sequence of          *)
(* characters; the space parts the words of a command, and the other       *)
(* blanks only those of a text.                                            *)
(***************************************************************************)
EXTENDS Naturals, SequencesExt

CONSTANTS
    Letras,   \* characters that are no blanks
    Espacio,  \* ' '
    Blancos,  \* the other characters that \s matches
    MaxLargo  \* bound of the exploration: characters after the user's name

ASSUME ServicioWebAssumption ==
    /\ Espacio \notin Letras \cup Blancos /\ Letras \cap Blancos = {}
    /\ MaxLargo \in Nat

VARIABLES
    orden,    \* SEND or SENDATTACH
    resto,    \* what follows the name of the recipient in the line
    mensaje, fichero,
    fase

vars == <<orden, resto, mensaje, fichero, fase>>

EsBlanco(c) == c = Espacio \/ c \in Blancos

Init ==
    /\ orden \in {"SEND", "SENDATTACH"}
    /\ resto \in BoundedSeq(Letras \cup Blancos \cup {Espacio}, MaxLargo)
    /\ mensaje = <<>> /\ fichero = <<>> /\ fase = "tecleada"
-----------------------------------------------------------------------------
(* Seeded bug: '' in place of ' '.                                         *)
SubPorNada(t) == SelectSeq(t, LAMBDA c : ~EsBlanco(c))

(* re.sub(r'\s+', ' ', t): the first blank of a run becomes a space, and    *)
(* the others go.                                                          *)
Sub(t) ==
    LET hecho[n \in 0..Len(t)] ==
          IF n = 0 THEN <<>>
          ELSE IF ~EsBlanco(t[n]) THEN Append(hecho[n - 1], t[n])
          ELSE IF n = 1 \/ ~EsBlanco(t[n - 1]) THEN Append(hecho[n - 1], Espacio)
          ELSE hecho[n - 1]
    IN  hecho[Len(t)]

(* Seeded bug: only the end of the text is stripped.                       *)
SoloFinal(t) == IF t # <<>> /\ EsBlanco(Last(t)) THEN Front(t) ELSE t

(* strip, of a text without two blanks in a row.                           *)
Strip(t) ==
    LET s == IF t # <<>> /\ EsBlanco(Head(t)) THEN Tail(t) ELSE t
    IN  IF s # <<>> /\ EsBlanco(Last(s)) THEN Front(s) ELSE s

normalize_message(t) == Strip(Sub(t))
-----------------------------------------------------------------------------
(* The command interpreter: split by spaces and joined again by spaces.    *)
Espacios == {i \in 1..Len(resto) : resto[i] = Espacio}

TomaSend ==
    /\ orden = "SEND" /\ fase = "tecleada"
    /\ mensaje' = resto /\ fase' = "pide"
    /\ UNCHANGED <<orden, resto, fichero>>

(* The file is the last word of the line, which is empty after a space.    *)
TomaSendattach ==
    /\ orden = "SENDATTACH" /\ fase = "tecleada"
    /\ \E i \in Espacios :
        /\ \A j \in Espacios : j <= i
        /\ mensaje' = SubSeq(resto, 1, i - 1)
        /\ fichero' = SubSeq(resto, i + 1, Len(resto))
    /\ fase' = "pide"
    /\ UNCHANGED <<orden, resto>>

(* Usage: a SENDATTACH of one word.                                        *)
ErrorSintaxis ==
    /\ orden = "SENDATTACH" /\ fase = "tecleada" /\ Espacios = {}
    /\ fase' = "fallo"
    /\ UNCHANGED <<orden, resto, mensaje, fichero>>

do_POST ==
    /\ fase = "pide"
    /\ mensaje' = normalize_message(mensaje) /\ fase' = "envia"
    /\ UNCHANGED <<orden, resto, fichero>>

(* Seeded bug: without the service the text goes out as it is.             *)
SigueSinServicio ==
    /\ fase = "pide"
    /\ fase' = "envia"
    /\ UNCHANGED <<orden, resto, mensaje, fichero>>

(* The service does not run, answers after two seconds or not at all.      *)
SinServicio ==
    /\ fase = "pide"
    /\ fase' = "fallo"
    /\ UNCHANGED <<orden, resto, mensaje, fichero>>

Next == TomaSend \/ TomaSendattach \/ ErrorSintaxis \/ do_POST \/ SinServicio

Spec == Init /\ [][Next]_vars
-----------------------------------------------------------------------------
(* The reference: the words of a text, its longest runs without blanks.    *)
Alarga(palabras, c) ==
    [palabras EXCEPT ![Len(palabras)] = Append(@, c)]

Palabras(t) ==
    LET dichas[n \in 0..Len(t)] ==
          IF n = 0 THEN <<>>
          ELSE IF EsBlanco(t[n]) THEN dichas[n - 1]
          ELSE IF n = 1 \/ EsBlanco(t[n - 1]) THEN Append(dichas[n - 1], <<t[n]>>)
          ELSE Alarga(dichas[n - 1], t[n])
    IN  dichas[Len(t)]

(* What goes to the server has one space between each two words and none   *)
(* at its ends, and no other blank, with the web service up or down        *)
(* (web_service.py:22-25, client.py:432-435).                              *)
Normal(t) ==
    \A i \in 1..Len(t) : EsBlanco(t[i]) =>
        t[i] = Espacio /\ i \in 2..(Len(t) - 1) /\ ~EsBlanco(t[i + 1])

FormaNormal == fase = "envia" => Normal(mensaje)

(* No word of the line is lost, split, joined to another or moved: the     *)
(* message and the file together are the words that were typed, as they    *)
(* are taken out of the line and as they are sent                          *)
(* (web_service.py:25, client.py:599, :607-608).                           *)
PalabrasIntactas ==
    fase \in {"pide", "envia"} =>
        Palabras(mensaje) \o Palabras(fichero) = Palabras(resto)
=============================================================================
