--------------------------- MODULE ListaEnlazada ---------------------------
(***************************************************************************)
(* list.c: the linked list that queues and stacks are made of, and that    *)
(* cola_listos and the LAP list are.  Positions are counted from 0.        *)
(***************************************************************************)
EXTENDS Naturals, SequencesExt

CONSTANTS
  Celdas,   \* bound: the t_link_elements that fit in memory
  Valores,  \* what is stored
  Menor,    \* the comparator: the pairs <<a, b>> with a before b
  Nada      \* NULL

ASSUME ListaAssumption ==
  Menor \subseteq Valores \X Valores /\ Nada \notin Celdas /\ IsFiniteSet(Celdas)

VARIABLES
  head, next, data, elements_count,
  usadas    \* the t_link_elements that were created and not freed

vars == <<head, next, data, elements_count, usadas>>

Siguiente(c) == IF c = Nada THEN Nada ELSE next[c]

\* The cell k steps from the head.
A(k) == LET paso[j \in 0..k] == IF j = 0 THEN head ELSE Siguiente(paso[j - 1])
        IN paso[k]

-----------------------------------------------------------------------------
(* Seeded faults, not used by any action.                                    *)

ElementoDeMenos(i) == IF i < elements_count - 1 THEN A(i) ELSE Nada
DespuesAlReves(v) == {k \in 0..(elements_count - 1) : <<data[A(k)], v>> \in Menor}

-----------------------------------------------------------------------------
\* list_get_element.
Elemento(i) == IF i < elements_count THEN A(i) ELSE Nada

\* What list_iterate visits.
Alcanzadas == {c \in Celdas : \E k \in 0..Cardinality(Celdas) : A(k) = c}
Contenido == [k \in 1..Cardinality(Alcanzadas) |-> data[A(k - 1)]]

\* list_link_element.
Enlaza(nx, c, d) == IF c = Nada THEN nx ELSE [nx EXCEPT ![c] = d]

Init ==
  /\ head = Nada /\ elements_count = 0 /\ usadas = {}
  /\ next = [c \in Celdas |-> Nada]
  /\ data \in [Celdas -> {CHOOSE v \in Valores : TRUE}]

Crea(c, v) ==
  /\ c \in Celdas \ usadas /\ usadas' = usadas \cup {c}
  /\ data' = [data EXCEPT ![c] = v]

\* list_add: also queue_push.
list_add(v) ==
  \E c \in Celdas :
    /\ Crea(c, v)
    /\ IF elements_count = 0
         THEN head' = c /\ next' = [next EXCEPT ![c] = Nada]
         ELSE /\ next' = Enlaza([next EXCEPT ![c] = Nada], Elemento(elements_count - 1), c)
              /\ UNCHANGED head
    /\ elements_count' = elements_count + 1

\* list_add_in_index; at 0 it is stack_push.
list_add_in_index(i, v) ==
  \E c \in Celdas :
    /\ Crea(c, v)
    /\ IF i = 0
         THEN head' = c /\ next' = [next EXCEPT ![c] = head]
         ELSE /\ next' = [Enlaza(next, Elemento(i - 1), c) EXCEPT ![c] = Elemento(i)]
              /\ UNCHANGED head
    /\ elements_count' = elements_count + 1

\* list_remove of an element there is; at 0 it is queue_pop and stack_pop.
list_remove(i) ==
  LET c == Elemento(i) IN
  /\ IF i = 0
       THEN head' = next[c] /\ UNCHANGED next
       ELSE next' = Enlaza(next, Elemento(i - 1), next[c]) /\ UNCHANGED head
  /\ elements_count' = elements_count - 1
  /\ usadas' = usadas \ {c}
  /\ UNCHANGED data

\* list_find_element: the first that satisfies a condition, which here is to
\* be v.
list_remove_by_condition(v) ==
  \E i \in 0..(elements_count - 1) :
    /\ data[Elemento(i)] = v /\ \A j \in 0..(i - 1) : data[Elemento(j)] # v
    /\ list_remove(i)

list_replace(i, v) ==
  /\ data' = IF Elemento(i) = Nada THEN data ELSE [data EXCEPT ![Elemento(i)] = v]
  /\ UNCHANGED <<head, next, elements_count, usadas>>

\* list_ordered_insert: before the first that v goes before, or last.
Despues(v) == {k \in 0..(elements_count - 1) : <<v, data[Elemento(k)]>> \in Menor}

list_ordered_insert(v) ==
  IF Despues(v) = {} THEN list_add(v)
  ELSE list_add_in_index(CHOOSE k \in Despues(v) : \A j \in Despues(v) : k <= j, v)

\* list_clean frees from the head on.
list_clean ==
  /\ head' = Nada /\ elements_count' = 0
  /\ usadas' = usadas \ Alcanzadas
  /\ UNCHANGED <<next, data>>

Next ==
  \/ \E v \in Valores :
       list_add(v) \/ list_ordered_insert(v) \/ list_remove_by_condition(v)
  \/ \E i \in 0..elements_count, v \in Valores :
       list_add_in_index(i, v) \/ list_replace(i, v)
  \/ \E i \in 0..(elements_count - 1) : list_remove(i)
  \/ list_clean

Spec == Init /\ [][Next]_vars
-----------------------------------------------------------------------------
(* Properties.                                                               *)

\* The list is the sequence its users take it for: each operation does to what
\* list_iterate visits what its name says, whatever cells were freed and used
\* again.  list_ordered_insert is the one of Listas.tla, which Planificador uses.
L == INSTANCE Listas

ImplementaSecuencia ==
  /\ Contenido = <<>>
  /\ [][ /\ \A v \in Valores :
             /\ list_add(v) => Contenido' = Append(Contenido, v)
             /\ list_ordered_insert(v) =>
                  Contenido' = L!InsertaOrdenado(Contenido, v, Menor)
             /\ list_remove_by_condition(v) => Contenido' = RemoveFirst(Contenido, v)
             /\ \A i \in 0..elements_count :
                  /\ list_add_in_index(i, v) => Contenido' = InsertAt(Contenido, i + 1, v)
                  /\ list_replace(i, v) =>
                       Contenido' = IF i < elements_count THEN ReplaceAt(Contenido, i + 1, v)
                                    ELSE Contenido
         /\ \A i \in 0..(elements_count - 1) :
              list_remove(i) => Contenido' = RemoveAt(Contenido, i + 1)
         /\ list_clean => Contenido' = <<>> ]_vars

\* The count that every walk trusts is the length of the chain, the chain ends,
\* and no cell is lost: what was created and not freed is what can be reached.
CuentaYCadena ==
  /\ elements_count = Cardinality(Alcanzadas)
  /\ A(elements_count) = Nada
  /\ Alcanzadas = usadas
=============================================================================
