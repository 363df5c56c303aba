----------------------------- MODULE ColaAtomica -----------------------------
(***************************************************************************)
(* What sync_queue promises to the threads of PP: a queue of PCBs whose    *)
(* operations take effect at one instant between the call and the return.  *)
(* try_pop answers NULL only at an instant at which the queue is empty.    *)
(***************************************************************************)
EXTENDS Naturals, SequencesExt

CONSTANTS Productores, Consumidores, Ordenadores, Elementos, Nulo

Hilos == Productores \cup Consumidores \cup Ordenadores

VARIABLES
  items,     \* the queue
  llamada,   \* what each thread is calling, "nada" outside
  hecho,     \* the call has taken effect
  valor      \* the argument of a push, the result of a pop

vars == <<items, llamada, hecho, valor>>

Init ==
  /\ items = <<>>
  /\ llamada = [h \in Hilos |-> "nada"]
  /\ hecho = [h \in Hilos |-> FALSE]
  /\ valor = [h \in Hilos |-> Nulo]

\* A caller pushes what nobody else holds: a PCB has one owner.
Llama(h, op, e) ==
  /\ llamada[h] = "nada"
  /\ llamada' = [llamada EXCEPT ![h] = op]
  /\ valor' = [valor EXCEPT ![h] = e]
  /\ UNCHANGED <<items, hecho>>

Efecto(h, op) ==
  /\ llamada[h] = op /\ ~hecho[h]
  /\ hecho' = [hecho EXCEPT ![h] = TRUE]
  /\ UNCHANGED llamada

\* push appends; ordered_insert chooses the place by the comparator.
Agrega(h) ==
  /\ Efecto(h, "push")
  /\ items' = Append(items, valor[h])
  /\ UNCHANGED valor

Inserta(h) ==
  /\ Efecto(h, "insert")
  /\ \E i \in 1..(Len(items) + 1) : items' = InsertAt(items, i, valor[h])
  /\ UNCHANGED valor

Saca(h) ==
  /\ \E op \in {"pop", "try_pop"} : Efecto(h, op)
  /\ items # <<>>
  /\ valor' = [valor EXCEPT ![h] = Head(items)]
  /\ items' = Tail(items)

NoHay(h) ==
  /\ Efecto(h, "try_pop")
  /\ items = <<>>
  /\ UNCHANGED <<items, valor>>

\* sort leaves the same elements.
Ordena(h) ==
  /\ Efecto(h, "sort")
  /\ \E f \in [DOMAIN items -> DOMAIN items] :
       /\ \A i, j \in DOMAIN items : f[i] = f[j] => i = j
       /\ items' = [i \in DOMAIN items |-> items[f[i]]]
  /\ UNCHANGED valor

Vuelve(h) ==
  /\ hecho[h]
  /\ llamada' = [llamada EXCEPT ![h] = "nada"]
  /\ hecho' = [hecho EXCEPT ![h] = FALSE]
  /\ valor' = [valor EXCEPT ![h] = Nulo]
  /\ UNCHANGED items

Next ==
  \/ \E h \in Productores, op \in {"push", "insert"}, e \in Elementos :
       Llama(h, op, e)
  \/ \E h \in Consumidores, op \in {"pop", "try_pop"} : Llama(h, op, Nulo)
  \/ \E h \in Ordenadores : Llama(h, "sort", Nulo)
  \/ \E h \in Hilos :
       Agrega(h) \/ Inserta(h) \/ Saca(h) \/ NoHay(h) \/ Ordena(h) \/ Vuelve(h)

Spec == Init /\ [][Next]_vars
=============================================================================
