--------------------------- MODULE MCDiccionario ---------------------------
(* Instances of Diccionario for TLC.                                         *)
EXTENDS Diccionario, TLC

CONSTANTS n1, n2, n3, n4

MCSimetria == Permutations({n1, n2, n3, n4})
=============================================================================
