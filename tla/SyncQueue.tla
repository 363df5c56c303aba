------------------------------ MODULE SyncQueue ------------------------------
(***************************************************************************)
(* commons/collections/sync_queue.c: a list under a mutex, with a          *)
(* semaphore that counts what can be popped.  The semaphore is waited for  *)
(* outside the mutex and posted inside it, so the two can disagree while   *)
(* an operation is half done.  One action is one call to pthread, to the   *)
(* semaphore or to the list.                                               *)
(*                                                                         *)
(* Elements are pointers: what a consumer popped may be pushed again, and  *)
(* nobody pushes what somebody else holds.  Where the comparator puts an   *)
(* element, and how it sorts, is left open here (Listas.tla).              *)
(***************************************************************************)
EXTENDS Naturals, FiniteSets, SequencesExt

CONSTANTS
  Productores,   \* the threads that push (or insert) into this queue
  Consumidores,  \* the threads that pop; every queue of PP has one
  Ordenadores,   \* the threads that sort it
  Elementos,     \* the pointers that travel through it
  Nulo           \* NULL

Hilos == Productores \cup Consumidores \cup Ordenadores

ASSUME HilosAssumption ==
  /\ IsFiniteSet(Hilos)
  /\ Productores \cap Consumidores = {} /\ Productores \cap Ordenadores = {}
  /\ Consumidores \cap Ordenadores = {}
ASSUME NuloAssumption == Nulo \notin Elementos /\ Nulo \notin Hilos

Operaciones == {"nada", "push", "insert", "pop", "try_pop", "sort"}

\* How far a thread is in its call.
Pasos == {"afuera", "llamo", "con_semaforo", "con_mutex", "en_lista",
          "posteado", "listo"}

VARIABLES
  lista,     \* self->queue
  semaforo,  \* self->semaphore
  mutex,     \* who holds self->mutex, or Nulo
  op, paso,  \* the call of each thread and its next line
  elemento,  \* the local "element" of each thread
  lugar      \* where list_add or list_add_in_index put it (0: nowhere)

hilo == <<op, paso, elemento, lugar>>
vars == <<lista, semaforo, mutex, op, paso, elemento, lugar>>

\* The element is in the hands of h and of nobody else: before a push put it
\* in the list, after a pop took it out.
Posee(h) ==
  \/ op[h] \in {"push", "insert"} /\ paso[h] \in {"llamo", "con_mutex"}
  \/ op[h] \in {"pop", "try_pop"} /\ elemento[h] # Nulo

\* What a thread that calls push may have got from the rest of the system,
\* another push of the same pointer that has not returned yet included.
Libres == Elementos \ (Range(lista) \cup {elemento[h] : h \in {g \in Hilos : Posee(g)}})

Avanza(h, p) == paso' = [paso EXCEPT ![h] = p]

Reordenamientos(s) ==
  {f \in [DOMAIN s -> DOMAIN s] : \A i, j \in DOMAIN s : f[i] = f[j] => i = j}

-----------------------------------------------------------------------------
(* Seeded faults, not used by any action.                                    *)

\* try_pop leaves the semaphore as it found it.
TomaSemaforoSinRestar(h) ==
  /\ op[h] \in {"pop", "try_pop"} /\ paso[h] = "llamo"
  /\ semaforo > 0
  /\ semaforo' = IF op[h] = "try_pop" THEN semaforo ELSE semaforo - 1
  /\ Avanza(h, "con_semaforo")
  /\ UNCHANGED <<lista, mutex, op, elemento, lugar>>

\* list_get where list_remove is meant.
SacaSinQuitar(h) ==
  /\ op[h] \in {"pop", "try_pop"} /\ paso[h] = "con_mutex"
  /\ elemento' = [elemento EXCEPT ![h] = IF lista = <<>> THEN @ ELSE Head(lista)]
  /\ Avanza(h, "posteado")
  /\ UNCHANGED <<lista, semaforo, mutex, op, lugar>>

\* ordered_insert forgets the sem_post.
PosteaSoloPush(h) ==
  /\ op[h] \in {"push", "insert"} /\ paso[h] = "en_lista"
  /\ semaforo' = IF op[h] = "push" THEN semaforo + 1 ELSE semaforo
  /\ Avanza(h, "posteado")
  /\ UNCHANGED <<lista, mutex, op, elemento, lugar>>

\* try_pop answers NULL without looking at the semaphore.
NoHaySinMirar(h) ==
  /\ op[h] = "try_pop" /\ paso[h] = "llamo"
  /\ Avanza(h, "listo")
  /\ UNCHANGED <<lista, semaforo, mutex, op, elemento, lugar>>

-----------------------------------------------------------------------------
Init ==
  /\ lista = <<>> /\ semaforo = 0 /\ mutex = Nulo
  /\ op = [h \in Hilos |-> "nada"]
  /\ paso = [h \in Hilos |-> "afuera"]
  /\ elemento = [h \in Hilos |-> Nulo]
  /\ lugar = [h \in Hilos |-> 0]

Llama(h, o, e) ==
  /\ op[h] = "nada"
  /\ op' = [op EXCEPT ![h] = o]
  /\ elemento' = [elemento EXCEPT ![h] = e]
  /\ Avanza(h, "llamo")
  /\ UNCHANGED <<lista, semaforo, mutex, lugar>>

LlamaPush(h) ==
  \E e \in Libres, o \in {"push", "insert"} : Llama(h, o, e)

LlamaPop(h) == \E o \in {"pop", "try_pop"} : Llama(h, o, Nulo)

LlamaSort(h) == Llama(h, "sort", Nulo)

\* sem_wait, or a sem_trywait that succeeds.
TomaSemaforo(h) ==
  /\ op[h] \in {"pop", "try_pop"} /\ paso[h] = "llamo"
  /\ semaforo > 0
  /\ semaforo' = semaforo - 1
  /\ Avanza(h, "con_semaforo")
  /\ UNCHANGED <<lista, mutex, op, elemento, lugar>>

\* sem_trywait fails: NULL is returned and the list is not looked at.
NoHay(h) ==
  /\ op[h] = "try_pop" /\ paso[h] = "llamo"
  /\ semaforo = 0
  /\ Avanza(h, "listo")
  /\ UNCHANGED <<lista, semaforo, mutex, op, elemento, lugar>>

\* pthread_mutex_lock: the first line of push, insert and sort, the second
\* of pop and try_pop.
TomaMutex(h) ==
  /\ paso[h] = IF op[h] \in {"pop", "try_pop"} THEN "con_semaforo" ELSE "llamo"
  /\ op[h] # "nada" /\ mutex = Nulo
  /\ mutex' = h
  /\ Avanza(h, "con_mutex")
  /\ UNCHANGED <<lista, semaforo, op, elemento, lugar>>

\* list_add, or list_ordered_insert with a comparator that is not seen here.
Agrega(h) ==
  /\ op[h] \in {"push", "insert"} /\ paso[h] = "con_mutex"
  /\ \E i \in 1..(Len(lista) + 1) :
       /\ op[h] = "push" => i = Len(lista) + 1
       /\ lista' = InsertAt(lista, i, elemento[h])
       /\ lugar' = [lugar EXCEPT ![h] = i]
  /\ Avanza(h, "en_lista")
  /\ UNCHANGED <<semaforo, mutex, op, elemento>>

Postea(h) ==
  /\ op[h] \in {"push", "insert"} /\ paso[h] = "en_lista"
  /\ semaforo' = semaforo + 1
  /\ Avanza(h, "posteado")
  /\ UNCHANGED <<lista, mutex, op, elemento, lugar>>

\* list_remove(queue, 0), which returns NULL when there is nothing.
Saca(h) ==
  /\ op[h] \in {"pop", "try_pop"} /\ paso[h] = "con_mutex"
  /\ IF lista = <<>>
       THEN UNCHANGED <<lista, elemento>>
       ELSE /\ elemento' = [elemento EXCEPT ![h] = Head(lista)]
            /\ lista' = Tail(lista)
  /\ Avanza(h, "posteado")
  /\ UNCHANGED <<semaforo, mutex, op, lugar>>

Ordena(h) ==
  /\ op[h] = "sort" /\ paso[h] = "con_mutex"
  /\ \E f \in Reordenamientos(lista) :
       lista' = [i \in DOMAIN lista |-> lista[f[i]]]
  /\ Avanza(h, "posteado")
  /\ UNCHANGED <<semaforo, mutex, op, elemento, lugar>>

SueltaMutex(h) ==
  /\ paso[h] = "posteado"
  /\ mutex' = Nulo
  /\ Avanza(h, "listo")
  /\ UNCHANGED <<lista, semaforo, op, elemento, lugar>>

Vuelve(h) ==
  /\ paso[h] = "listo"
  /\ op' = [op EXCEPT ![h] = "nada"]
  /\ elemento' = [elemento EXCEPT ![h] = Nulo]
  /\ lugar' = [lugar EXCEPT ![h] = 0]
  /\ Avanza(h, "afuera")
  /\ UNCHANGED <<lista, semaforo, mutex>>

Adentro(h) ==
  \/ TomaSemaforo(h) \/ NoHay(h) \/ TomaMutex(h) \/ Agrega(h) \/ Postea(h)
  \/ Saca(h) \/ Ordena(h) \/ SueltaMutex(h) \/ Vuelve(h)

Next ==
  \/ \E h \in Productores : LlamaPush(h)
  \/ \E h \in Consumidores : LlamaPop(h)
  \/ \E h \in Ordenadores : LlamaSort(h)
  \/ \E h \in Hilos : Adentro(h)

Spec == Init /\ [][Next]_vars

\* A thread goes on with its call, and a mutex that is released again and
\* again is not refused to the same thread for ever.
EspecJusta == Spec /\ \A h \in Hilos : WF_vars(Adentro(h)) /\ SF_vars(TomaMutex(h))

-----------------------------------------------------------------------------
(* Properties.                                                               *)

DentroDelMutex == {"con_mutex", "en_lista", "posteado"}

\* A pop that has taken its unit of the semaphore and not its element yet.
ConReserva == {h \in Hilos : /\ op[h] \in {"pop", "try_pop"}
                             /\ paso[h] \in {"con_semaforo", "con_mutex"}}

\* A push whose element is in the list and not in the semaphore yet.
SinPostear == {h \in Hilos : paso[h] = "en_lista"}

\* Where a thread may be in each operation.
PasosDe(o) ==
  CASE o = "nada" -> {"afuera"}
    [] o \in {"push", "insert"} ->
         {"llamo", "con_mutex", "en_lista", "posteado", "listo"}
    [] o \in {"pop", "try_pop"} ->
         {"llamo", "con_semaforo", "con_mutex", "posteado", "listo"}
    [] o = "sort" -> {"llamo", "con_mutex", "posteado", "listo"}

\* The type of every variable; a thread is at a line of the operation it
\* called, and pushes a pointer that is not NULL.
TypeOK ==
  /\ lista \in Seq(Elementos) /\ semaforo \in Nat
  /\ mutex \in Hilos \cup {Nulo}
  /\ op \in [Hilos -> Operaciones] /\ paso \in [Hilos -> Pasos]
  /\ elemento \in [Hilos -> Elementos \cup {Nulo}]
  /\ lugar \in [Hilos -> Nat]
  /\ \A h \in Hilos : /\ paso[h] \in PasosDe(op[h])
                      /\ op[h] \in {"push", "insert"} => elemento[h] # Nulo

\* The list is only touched by the thread that holds the mutex.
Exclusion ==
  \A h \in Hilos : paso[h] \in DentroDelMutex <=> mutex = h

\* The semaphore plus the pops under way plus the pushes not yet posted is
\* the length of the list, in every interleaving.
SemaforoCuenta ==
  semaforo + Cardinality(ConReserva) + Cardinality(SinPostear) = Len(lista)

\* pop never answers NULL, and try_pop only when its sem_trywait failed: every
\* caller of pop in pp.c dereferences what it gets.
PopNoEsNulo ==
  \A h \in Hilos :
    /\ paso[h] = "posteado" /\ op[h] # "sort" => elemento[h] # Nulo
    /\ paso[h] = "listo" /\ op[h] = "pop" => elemento[h] # Nulo

\* A pointer is in the list once, or in the hands of one thread, never both:
\* the pushed element is the caller's until list_add and the popper's from
\* list_remove on.
UnDueno ==
  /\ \A i, j \in DOMAIN lista : lista[i] = lista[j] => i = j
  /\ \A h \in Hilos : Posee(h) =>
       /\ elemento[h] \notin Range(lista)
       /\ \A g \in Hilos \ {h} : Posee(g) => elemento[g] # elemento[h]

\* A pop that waits while something can be popped gets it: neither the mutex
\* nor the order of post and unlock loses the wake-up.
EsperaAtendida ==
  \A h \in Consumidores :
    op[h] = "pop" /\ lista # <<>> ~> op[h] # "pop"

-----------------------------------------------------------------------------
(* The queue the callers see: an element counts from its sem_post on.        *)

Visibles ==
  IF SinPostear = {} THEN lista
  ELSE RemoveAt(lista, lugar[CHOOSE h \in SinPostear : TRUE])

YaHecho == [h \in Hilos |-> paso[h] \in {"posteado", "listo"}]

Cola == INSTANCE ColaAtomica
          WITH items <- Visibles, llamada <- op, hecho <- YaHecho,
               valor <- elemento

\* With one consumer per queue, as in PP, each operation takes effect at one
\* instant and try_pop says NULL only when the queue is empty.
ImplementaCola == Cola!Spec
=============================================================================
