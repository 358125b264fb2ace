----------------------------- MODULE MCServidor -----------------------------
(* Model-checking instances of Servidor. *)
EXTENDS Refinamiento, TLC

Simetria == Permutations(Hilos)
SimetriaTotal == Permutations(Hilos) \cup Permutations(Usuarios)
=============================================================================
