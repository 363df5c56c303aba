------------------------------- MODULE Listas -------------------------------
(***************************************************************************)
(* The two operations of list.c that cola_listos is kept in order with.  A *)
(* comparator is a relation: <<a, b>> \in menor iff comparator(a, b).      *)
(***************************************************************************)
EXTENDS Naturals, SequencesExt

\* No element goes before one it should follow.
OrdenadaPor(s, menor) ==
  \A i, j \in DOMAIN s : i < j => <<s[j], s[i]>> \notin menor

\* list_ordered_insert goes before the first element that e precedes, or last.
LugarDeInsercion(s, e, menor) ==
  CHOOSE k \in 1..(Len(s) + 1) :
    /\ k <= Len(s) => <<e, s[k]>> \in menor
    /\ \A i \in 1..(k - 1) : <<e, s[i]>> \notin menor

InsertaOrdenado(s, e, menor) == InsertAt(s, LugarDeInsercion(s, e, menor), e)

Intercambia(s, i) == [s EXCEPT ![i] = s[i + 1], ![i + 1] = s[i]]

\* One pass of list_sort over the first n pairs: neighbours are exchanged
\* unless the first precedes the second, so equal ones are exchanged too.  ult
\* is the index of the last exchange (from 0), and hubo says there was one.
Pasada(s, n, menor) ==
  LET pares == IF n < Len(s) THEN n ELSE Len(s) - 1
      hasta[k \in 0..pares] ==
        IF k = 0 THEN [lista |-> s, ult |-> n, hubo |-> FALSE]
        ELSE LET a == hasta[k - 1] IN
             IF <<a.lista[k], a.lista[k + 1]>> \in menor THEN a
             ELSE [lista |-> Intercambia(a.lista, k), ult |-> k - 1, hubo |-> TRUE]
  IN hasta[pares]

\* list_sort: passes until one exchanges nothing, each up to the last exchange
\* of the one before.
Ordena(s, menor) ==
  LET tras[k \in 0..Len(s)] ==
        IF k = 0 THEN [lista |-> s, ult |-> Len(s), hubo |-> TRUE]
        ELSE LET a == tras[k - 1] IN
             IF a.hubo THEN Pasada(a.lista, a.ult, menor) ELSE a
  IN IF Len(s) < 2 THEN s ELSE tras[Len(s)].lista
=============================================================================
