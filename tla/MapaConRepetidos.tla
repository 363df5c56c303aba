-------------------------- MODULE MapaConRepetidos --------------------------
(***************************************************************************)
(* What a dictionary promises: under each key, the data that were put and  *)
(* not removed, in order.  dictionary_put never replaces: get and remove   *)
(* answer for the oldest.                                                  *)
(***************************************************************************)
EXTENDS Sequences

CONSTANTS Claves, Datos

VARIABLE pares

Init == pares = [k \in Claves |-> <<>>]

Pone(k, d) == pares' = [pares EXCEPT ![k] = Append(@, d)]

Saca(k, d) ==
  /\ pares[k] # <<>> /\ d = Head(pares[k])
  /\ pares' = [pares EXCEPT ![k] = Tail(@)]

Limpia == pares' = [k \in Claves |-> <<>>]

Next == \/ \E k \in Claves, d \in Datos : Pone(k, d) \/ Saca(k, d)
        \/ Limpia
=============================================================================
