--------------------------- MODULE SyncQueueProofs ---------------------------
(***************************************************************************)
(* SyncQueue for any number of producers, consumers and sorters: the       *)
(* semaphore counts what can be popped, so a pop never answers NULL, and   *)
(* no pointer is in two places.  IInv is inductive because a pop that took *)
(* its unit of the semaphore is counted against the length of the list     *)
(* until it has the mutex and its element.  The second half shows that,    *)
(* with one consumer, the queue is the one of ColaAtomica.                 *)
(***************************************************************************)
EXTENDS SyncQueue, Secuencias, FiniteSetTheorems

\* The conjunction that every step preserves.
IInv == TypeOK /\ Exclusion /\ SemaforoCuenta /\ PopNoEsNulo /\ UnDueno

-----------------------------------------------------------------------------
\* The two sets of threads the semaphore is counted against are finite.
LEMMA Finitos ==
  /\ IsFiniteSet(ConReserva) /\ IsFiniteSet(SinPostear)
  /\ Cardinality(ConReserva) \in Nat /\ Cardinality(SinPostear) \in Nat
  <1>1. ConReserva \subseteq Hilos /\ SinPostear \subseteq Hilos
    BY DEF ConReserva, SinPostear
  <1>2. IsFiniteSet(ConReserva) /\ IsFiniteSet(SinPostear)
    BY <1>1, HilosAssumption, FS_Subset
  <1> QED BY <1>2, FS_CardinalityType

\* A step that leaves the list, the semaphore and both sets alone keeps the
\* count; so does one that moves a unit from one of the four to another.
LEMMA CuentaIgual ==
  ASSUME SemaforoCuenta, ConReserva' = ConReserva, SinPostear' = SinPostear,
         semaforo' = semaforo, Len(lista') = Len(lista)
  PROVE  SemaforoCuenta'
  BY DEF SemaforoCuenta

\* The initial state satisfies the invariant.
LEMMA Inicial == Init => IInv
  <1> SUFFICES ASSUME Init PROVE IInv
    OBVIOUS
  <1> USE DEF Init
  <1>1. TypeOK
    BY DEF TypeOK, PasosDe, Operaciones, Pasos
  <1>2. Exclusion
    BY NuloAssumption DEF Exclusion, DentroDelMutex
  <1>3. SemaforoCuenta
    <2>1. ConReserva = {} /\ SinPostear = {}
      BY DEF ConReserva, SinPostear
    <2> QED BY <2>1, FS_EmptySet DEF SemaforoCuenta
  <1>4. PopNoEsNulo
    BY DEF PopNoEsNulo
  <1>5. UnDueno
    BY DEF UnDueno, Posee
  <1> QED BY <1>1, <1>2, <1>3, <1>4, <1>5 DEF IInv

\* A call begins.  A producer brings an element that is nobody's.
LEMMA PasoLlama ==
  ASSUME IInv, NEW h \in Hilos, NEW o \in Operaciones \ {"nada"},
         NEW e \in Elementos \cup {Nulo}, Llama(h, o, e),
         o \in {"push", "insert"} => e \in Libres,
         o \notin {"push", "insert"} => e = Nulo
  PROVE  IInv'
  <1> USE DEF IInv, Llama, Avanza
  <1>0. paso[h] = "afuera" /\ paso'[h] = "llamo" /\ op'[h] = o
    BY DEF TypeOK, PasosDe
  <1>1. TypeOK'
    BY <1>0, NuloAssumption DEF TypeOK, PasosDe, Operaciones, Pasos, Libres
  <1>2. Exclusion'
    BY <1>0 DEF TypeOK, Exclusion, DentroDelMutex
  <1>3. SemaforoCuenta'
    <2>1. ConReserva' = ConReserva /\ SinPostear' = SinPostear
      BY <1>0 DEF TypeOK, ConReserva, SinPostear
    <2> QED BY <2>1, CuentaIgual
  <1>4. PopNoEsNulo'
    BY <1>0 DEF TypeOK, PopNoEsNulo
  <1>5. UnDueno'
    <2>1. \A g \in Hilos \ {h} : Posee(g)' = Posee(g) /\ elemento'[g] = elemento[g]
      BY DEF TypeOK, Posee
    <2>2. Posee(h)' => e \in Libres /\ elemento'[h] = e
      BY <1>0 DEF TypeOK, Posee, Operaciones
    <2> QED BY <2>1, <2>2 DEF UnDueno, Libres
  <1> QED BY <1>1, <1>2, <1>3, <1>4, <1>5

\* sem_wait: the unit moves from the semaphore to the pop under way.
LEMMA PasoTomaSemaforo ==
  ASSUME IInv, NEW h \in Hilos, TomaSemaforo(h) PROVE IInv'
  <1> USE DEF IInv, TomaSemaforo, Avanza
  <1>1. TypeOK'
    BY DEF TypeOK, PasosDe, Operaciones, Pasos
  <1>2. Exclusion'
    BY DEF TypeOK, Exclusion, DentroDelMutex
  <1>3. SemaforoCuenta'
    <2>1. ConReserva' = ConReserva \cup {h} /\ h \notin ConReserva
      BY DEF TypeOK, ConReserva
    <2>2. SinPostear' = SinPostear
      BY DEF TypeOK, SinPostear
    <2>3. Cardinality(ConReserva') = Cardinality(ConReserva) + 1
      BY <2>1, Finitos, FS_AddElement
    <2> QED BY <2>2, <2>3, Finitos DEF SemaforoCuenta, TypeOK
  <1>4. PopNoEsNulo'
    BY DEF TypeOK, PopNoEsNulo
  <1>5. UnDueno'
    BY DEF TypeOK, UnDueno, Posee
  <1> QED BY <1>1, <1>2, <1>3, <1>4, <1>5

\* sem_trywait fails.
LEMMA PasoNoHay ==
  ASSUME IInv, NEW h \in Hilos, NoHay(h) PROVE IInv'
  <1> USE DEF IInv, NoHay, Avanza
  <1>1. TypeOK'
    BY DEF TypeOK, PasosDe, Operaciones, Pasos
  <1>2. Exclusion'
    BY DEF TypeOK, Exclusion, DentroDelMutex
  <1>3. SemaforoCuenta'
    <2>1. ConReserva' = ConReserva /\ SinPostear' = SinPostear
      BY DEF TypeOK, ConReserva, SinPostear
    <2> QED BY <2>1, CuentaIgual
  <1>4. PopNoEsNulo'
    BY DEF TypeOK, PopNoEsNulo
  <1>5. UnDueno'
    BY DEF TypeOK, UnDueno, Posee
  <1> QED BY <1>1, <1>2, <1>3, <1>4, <1>5

\* The mutex is taken.
LEMMA PasoTomaMutex ==
  ASSUME IInv, NEW h \in Hilos, TomaMutex(h) PROVE IInv'
  <1> USE DEF IInv, TomaMutex, Avanza
  <1>1. TypeOK'
    BY DEF TypeOK, PasosDe, Operaciones, Pasos
  <1>2. Exclusion'
    BY NuloAssumption DEF TypeOK, Exclusion, DentroDelMutex
  <1>3. SemaforoCuenta'
    <2>1. ConReserva' = ConReserva /\ SinPostear' = SinPostear
      BY DEF TypeOK, ConReserva, SinPostear
    <2> QED BY <2>1, CuentaIgual
  <1>4. PopNoEsNulo'
    BY DEF TypeOK, PopNoEsNulo
  <1>5. UnDueno'
    BY DEF TypeOK, UnDueno, Posee, PasosDe
  <1> QED BY <1>1, <1>2, <1>3, <1>4, <1>5

\* The pushed element passes from the caller to the list.
LEMMA PasoAgrega ==
  ASSUME IInv, NEW h \in Hilos, Agrega(h) PROVE IInv'
  <1> USE DEF IInv, Agrega, Avanza
  <1>0. PICK i \in 1..(Len(lista) + 1) : lista' = InsertAt(lista, i, elemento[h])
                                         /\ lugar' = [lugar EXCEPT ![h] = i]
    OBVIOUS
  <1>a. Posee(h) /\ elemento[h] \notin Range(lista)
    BY DEF Posee, UnDueno
  <1>b. elemento[h] \in Elementos
    BY DEF TypeOK, Posee
  <1>c. /\ lista' \in Seq(Elementos) /\ Len(lista') = Len(lista) + 1
        /\ Range(lista') = Range(lista) \cup {elemento[h]}
        /\ \A j, k \in DOMAIN lista' : lista'[j] = lista'[k] => j = k
    <2>1. lista \in Seq(Elementos) /\ lista' = InsertAt(lista, i, elemento[h])
      BY <1>0 DEF TypeOK
    <2>2. \A j, k \in DOMAIN lista : lista[j] = lista[k] => j = k
      BY DEF UnDueno
    <2> DEFINE e == elemento[h]
    <2>3. i \in 1..(Len(lista) + 1) /\ e \in Elementos /\ e \notin Range(lista)
      BY <1>a, <1>b
    <2> HIDE DEF e
    <2>4. lista' = InsertAt(lista, i, e)
      BY <2>1 DEF e
    <2>5. /\ lista' \in Seq(Elementos) /\ Len(lista') = Len(lista) + 1
          /\ Range(lista') = Range(lista) \cup {e}
          /\ \A j, k \in DOMAIN lista' : lista'[j] = lista'[k] => j = k
      <3>1. lista' \in Seq(Elementos) /\ Len(lista') = Len(lista) + 1
        BY <2>1, <2>3, <2>4, InsertaRango
      <3>2. Range(lista') = Range(lista) \cup {e}
        BY <2>1, <2>3, <2>4, InsertaRango
      <3>3. \A j, k \in DOMAIN lista' : lista'[j] = lista'[k] => j = k
        BY <2>1, <2>2, <2>3, <2>4, InsertaUnicos
      <3> QED BY <3>1, <3>2, <3>3
    <2> QED BY <2>5 DEF e
  <1>1. TypeOK'
    BY <1>0, <1>c DEF TypeOK, PasosDe, Operaciones, Pasos
  <1>2. Exclusion'
    BY DEF TypeOK, Exclusion, DentroDelMutex
  <1>3. SemaforoCuenta'
    <2>1. ConReserva' = ConReserva
      BY DEF TypeOK, ConReserva
    <2>2. SinPostear' = SinPostear \cup {h} /\ h \notin SinPostear
      BY DEF TypeOK, SinPostear
    <2>3. Cardinality(SinPostear') = Cardinality(SinPostear) + 1
      BY <2>2, Finitos, FS_AddElement
    <2>4. semaforo' = semaforo /\ semaforo \in Nat /\ Len(lista) \in Nat
      BY DEF TypeOK
    <2>5. Cardinality(ConReserva') = Cardinality(ConReserva)
      BY <2>1
    <2> HIDE DEF Agrega
    <2> QED BY <1>c, <2>3, <2>4, <2>5, Finitos DEF SemaforoCuenta
  <1>4. PopNoEsNulo'
    BY DEF TypeOK, PopNoEsNulo
  <1>5. UnDueno'
    <2>1. \A g \in Hilos \ {h} : Posee(g)' = Posee(g) /\ elemento'[g] = elemento[g]
      BY DEF TypeOK, Posee
    <2>2. ~Posee(h)'
      BY DEF TypeOK, Posee
    <2> QED BY <1>a, <1>c, <2>1, <2>2 DEF UnDueno
  <1> QED BY <1>1, <1>2, <1>3, <1>4, <1>5

\* sem_post: the unit moves from the push under way to the semaphore.
LEMMA PasoPostea ==
  ASSUME IInv, NEW h \in Hilos, Postea(h) PROVE IInv'
  <1> USE DEF IInv, Postea, Avanza
  <1>1. TypeOK'
    BY DEF TypeOK, PasosDe, Operaciones, Pasos
  <1>2. Exclusion'
    BY DEF TypeOK, Exclusion, DentroDelMutex
  <1>3. SemaforoCuenta'
    <2>1. Cardinality(ConReserva') = Cardinality(ConReserva)
      <3>1. ConReserva' = ConReserva
        BY DEF TypeOK, ConReserva
      <3> QED BY <3>1
    <2>2. SinPostear' = SinPostear \ {h} /\ h \in SinPostear
      BY DEF TypeOK, SinPostear
    <2>3. Cardinality(SinPostear') = Cardinality(SinPostear) - 1
      BY <2>2, Finitos, FS_RemoveElement
    <2>4. semaforo' = semaforo + 1 /\ semaforo \in Nat /\ lista' = lista
      BY DEF TypeOK
    <2> QED BY <2>1, <2>3, <2>4, Finitos DEF SemaforoCuenta
  <1>4. PopNoEsNulo'
    BY DEF TypeOK, PopNoEsNulo
  <1>5. UnDueno'
    BY DEF TypeOK, UnDueno, Posee
  <1> QED BY <1>1, <1>2, <1>3, <1>4, <1>5

\* A pop that has the mutex finds something to remove: its unit of the
\* semaphore is part of the length of the list.
LEMMA HayQueSacar ==
  ASSUME IInv, NEW h \in ConReserva PROVE lista # <<>>
  <1>1. Cardinality(ConReserva) # 0
    BY Finitos, FS_EmptySet
  <1>2. semaforo \in Nat /\ Len(lista) # 0
    BY <1>1, Finitos DEF IInv, SemaforoCuenta, TypeOK
  <1> QED BY <1>2

\* The popped element passes from the list to the caller.
LEMMA PasoSaca ==
  ASSUME IInv, NEW h \in Hilos, Saca(h) PROVE IInv'
  <1> USE DEF IInv, Saca, Avanza
  <1>0. h \in ConReserva
    BY DEF ConReserva
  <1>a. /\ lista # <<>> /\ lista \in Seq(Elementos)
        /\ elemento' = [elemento EXCEPT ![h] = Head(lista)]
        /\ lista' = Tail(lista)
    BY <1>0, HayQueSacar DEF TypeOK
  <1>b. /\ Head(lista) \in Elementos /\ lista' \in Seq(Elementos)
        /\ Len(lista') = Len(lista) - 1
        /\ Head(lista) = lista[1] /\ 1 \in DOMAIN lista
        /\ \A j \in DOMAIN lista' : lista'[j] = lista[j + 1] /\ j + 1 \in DOMAIN lista
    BY <1>a
  <1>1. TypeOK'
    BY <1>a, <1>b DEF TypeOK, PasosDe, Operaciones, Pasos
  <1>2. Exclusion'
    BY DEF TypeOK, Exclusion, DentroDelMutex
  <1>3. SemaforoCuenta'
    <2>1. Cardinality(SinPostear') = Cardinality(SinPostear)
      <3>1. SinPostear' = SinPostear
        BY DEF TypeOK, SinPostear
      <3> QED BY <3>1
    <2>2. ConReserva' = ConReserva \ {h}
      BY DEF TypeOK, ConReserva
    <2>3. Cardinality(ConReserva') = Cardinality(ConReserva) - 1
      BY <1>0, <2>2, Finitos, FS_RemoveElement
    <2>4. semaforo' = semaforo /\ semaforo \in Nat /\ Len(lista) \in Nat
      BY <1>a DEF TypeOK
    <2>5. Len(lista') = Len(lista) - 1 /\ SemaforoCuenta
      BY <1>b
    <2> QED BY ONLY <2>1, <2>3, <2>4, <2>5, Finitos DEF SemaforoCuenta
  <1>4. PopNoEsNulo'
    BY <1>a, <1>b, NuloAssumption DEF TypeOK, PopNoEsNulo
  <1>5. UnDueno'
    <2>1. \A j, k \in DOMAIN lista' : lista'[j] = lista'[k] => j = k
      <3>1. \A j \in DOMAIN lista' : j \in Int
        BY <1>b
      <3>2. \A j, k \in DOMAIN lista : lista[j] = lista[k] => j = k
        BY DEF UnDueno
      <3> HIDE DEF Saca, IInv
      <3> QED BY <1>b, <3>1, <3>2
    <2>2. Range(lista') \subseteq Range(lista) /\ Head(lista) \in Range(lista)
      BY <1>b DEF Range
    <2>3. Head(lista) \notin Range(lista')
      <3>1. \A j \in DOMAIN lista' : j \in Nat /\ j + 1 # 1
        BY <1>b
      <3>2. \A j, k \in DOMAIN lista : lista[j] = lista[k] => j = k
        BY DEF UnDueno
      <3> HIDE DEF Saca, IInv
      <3> QED BY <1>b, <3>1, <3>2 DEF Range
    <2>4. \A g \in Hilos \ {h} : Posee(g)' = Posee(g) /\ elemento'[g] = elemento[g]
      BY <1>a DEF TypeOK, Posee
    <2>5. elemento'[h] = Head(lista)
      BY <1>a DEF TypeOK
    <2>6. \A g \in Hilos \ {h} : Posee(g) => elemento[g] # Head(lista)
      BY <2>2 DEF UnDueno
    <2> QED BY <2>1, <2>2, <2>3, <2>4, <2>5, <2>6 DEF UnDueno
  <1> QED BY <1>1, <1>2, <1>3, <1>4, <1>5

\* list_sort keeps the elements, none twice.
LEMMA PasoOrdena ==
  ASSUME IInv, NEW h \in Hilos, Ordena(h) PROVE IInv'
  <1> USE DEF IInv, Ordena, Avanza
  <1>0. PICK f \in [DOMAIN lista -> DOMAIN lista] :
          /\ \A i, j \in DOMAIN lista : f[i] = f[j] => i = j
          /\ lista' = [i \in DOMAIN lista |-> lista[f[i]]]
    BY DEF Reordenamientos
  <1>a. lista \in Seq(Elementos) /\ DOMAIN lista = 1..Len(lista) /\ Len(lista) \in Nat
    BY DEF TypeOK
  <1>b. \A i \in DOMAIN lista : lista[f[i]] \in Elementos /\ f[i] \in DOMAIN lista
    BY <1>0, <1>a
  <1>c. lista' \in [1..Len(lista) -> Elementos]
    BY <1>0, <1>a, <1>b
  <1>d. lista' \in Seq(Elementos) /\ Len(lista') = Len(lista)
    BY <1>a, <1>c
  <1>1. TypeOK'
    BY <1>d DEF TypeOK, PasosDe, Operaciones, Pasos
  <1>2. Exclusion'
    BY DEF TypeOK, Exclusion, DentroDelMutex
  <1>3. SemaforoCuenta'
    <2>1. ConReserva' = ConReserva /\ SinPostear' = SinPostear
      BY DEF TypeOK, ConReserva, SinPostear
    <2> QED BY <1>d, <2>1, CuentaIgual
  <1>4. PopNoEsNulo'
    BY DEF TypeOK, PopNoEsNulo
  <1>5. UnDueno'
    <2>1. \A j, k \in DOMAIN lista' : lista'[j] = lista'[k] => j = k
      BY <1>0, <1>a, <1>b DEF UnDueno
    <2>2. Range(lista') \subseteq Range(lista)
      BY <1>0, <1>b DEF Range
    <2>3. \A g \in Hilos : Posee(g)' = Posee(g) /\ elemento'[g] = elemento[g]
      BY DEF TypeOK, Posee
    <2> QED BY <2>1, <2>2, <2>3 DEF UnDueno
  <1> QED BY <1>1, <1>2, <1>3, <1>4, <1>5

\* The mutex is released.
LEMMA PasoSueltaMutex ==
  ASSUME IInv, NEW h \in Hilos, SueltaMutex(h) PROVE IInv'
  <1> USE DEF IInv, SueltaMutex, Avanza
  <1>1. TypeOK'
    BY DEF TypeOK, PasosDe, Operaciones, Pasos
  <1>2. Exclusion'
    BY NuloAssumption DEF TypeOK, Exclusion, DentroDelMutex
  <1>3. SemaforoCuenta'
    <2>1. ConReserva' = ConReserva /\ SinPostear' = SinPostear
      BY DEF TypeOK, ConReserva, SinPostear
    <2> QED BY <2>1, CuentaIgual
  <1>4. PopNoEsNulo'
    BY DEF TypeOK, PopNoEsNulo
  <1>5. UnDueno'
    BY DEF TypeOK, UnDueno, Posee
  <1> QED BY <1>1, <1>2, <1>3, <1>4, <1>5

\* The call returns.
LEMMA PasoVuelve ==
  ASSUME IInv, NEW h \in Hilos, Vuelve(h) PROVE IInv'
  <1> USE DEF IInv, Vuelve, Avanza
  <1>1. TypeOK'
    BY DEF TypeOK, PasosDe, Operaciones, Pasos
  <1>2. Exclusion'
    BY DEF TypeOK, Exclusion, DentroDelMutex
  <1>3. SemaforoCuenta'
    <2>1. ConReserva' = ConReserva /\ SinPostear' = SinPostear
      BY DEF TypeOK, ConReserva, SinPostear
    <2> QED BY <2>1, CuentaIgual
  <1>4. PopNoEsNulo'
    BY DEF TypeOK, PopNoEsNulo
  <1>5. UnDueno'
    BY DEF TypeOK, UnDueno, Posee
  <1> QED BY <1>1, <1>2, <1>3, <1>4, <1>5

\* Every step preserves the invariant: one case per action.
LEMMA Paso == IInv /\ [Next]_vars => IInv'
  <1> SUFFICES ASSUME IInv, [Next]_vars PROVE IInv'
    OBVIOUS
  <1>1. ASSUME NEW h \in Productores, LlamaPush(h) PROVE IInv'
    <2>1. PICK e \in Libres, o \in {"push", "insert"} : Llama(h, o, e)
      BY <1>1 DEF LlamaPush
    <2>2. e \in Elementos \cup {Nulo} /\ o \in Operaciones \ {"nada"} /\ h \in Hilos
      BY <2>1 DEF Libres, Operaciones, Hilos
    <2> QED BY <2>1, <2>2, PasoLlama
  <1>2. ASSUME NEW h \in Consumidores, LlamaPop(h) PROVE IInv'
    <2>1. PICK o \in {"pop", "try_pop"} : Llama(h, o, Nulo)
      BY <1>2 DEF LlamaPop
    <2>2. o \in Operaciones \ {"nada"} /\ h \in Hilos /\ o \notin {"push", "insert"}
      BY <2>1 DEF Operaciones, Hilos
    <2> QED BY <2>1, <2>2, PasoLlama
  <1>3. ASSUME NEW h \in Ordenadores, LlamaSort(h) PROVE IInv'
    <2>1. h \in Hilos /\ "sort" \in Operaciones \ {"nada"}
      BY DEF Hilos, Operaciones
    <2> QED BY <1>3, <2>1, PasoLlama DEF LlamaSort
  <1>4. ASSUME NEW h \in Hilos, Adentro(h) PROVE IInv'
    BY <1>4, PasoTomaSemaforo, PasoNoHay, PasoTomaMutex, PasoAgrega, PasoPostea,
       PasoSaca, PasoOrdena, PasoSueltaMutex, PasoVuelve DEF Adentro
  <1>5. CASE UNCHANGED vars
    BY <1>5 DEF vars, IInv, TypeOK, Exclusion, SemaforoCuenta, ConReserva,
       SinPostear, PopNoEsNulo, UnDueno, Posee
  <1> QED BY <1>1, <1>2, <1>3, <1>4, <1>5 DEF Next

\* The invariant of sync_queue, for any number of threads.
THEOREM InvarianteCola == Spec => []IInv
  BY Inicial, Paso, PTL DEF Spec

\* sync_queue_pop never answers NULL to a thread of PP.
THEOREM PopSeguro == Spec => []PopNoEsNulo
  <1>1. IInv => PopNoEsNulo
    BY DEF IInv
  <1> QED BY <1>1, InvarianteCola, PTL

\* The semaphore of a queue always agrees with its list.
THEOREM Cuenta == Spec => []SemaforoCuenta
  <1>1. IInv => SemaforoCuenta
    BY DEF IInv
  <1> QED BY <1>1, InvarianteCola, PTL

\* A pointer has one owner while it goes through a queue.
THEOREM DuenoEnCola == Spec => []UnDueno
  <1>1. IInv => UnDueno
    BY DEF IInv
  <1> QED BY <1>1, InvarianteCola, PTL

\* Every variable of a queue keeps its type; list and semaphore are not
\* negative.
THEOREM TipoDeCola == Spec => []TypeOK
  <1>1. IInv => TypeOK
    BY DEF IInv
  <1> QED BY <1>1, InvarianteCola, PTL

\* One thread at a time between lock and unlock.
THEOREM UnoPorVez == Spec => []Exclusion
  <1>1. IInv => Exclusion
    BY DEF IInv
  <1> QED BY <1>1, InvarianteCola, PTL

-----------------------------------------------------------------------------
(* sync_queue implements ColaAtomica when one thread pops from it.           *)

\* The element of a push that has not posted yet is where list_add or
\* list_ordered_insert left it: nobody moves it, for the mutex is held.
Lugares ==
  \A h \in SinPostear :
    /\ lugar[h] \in 1..Len(lista)
    /\ lista[lugar[h]] = elemento[h]
    /\ op[h] = "push" => lugar[h] = Len(lista)

\* Only the consumers pop.
SoloConsumidores ==
  \A h \in Hilos : op[h] \in {"pop", "try_pop"} => h \in Consumidores

\* What every step preserves, with what the mapping needs.
RInv == IInv /\ Lugares /\ SoloConsumidores

\* Each queue of PP is popped by one thread.
UnConsumidor == \A c, d \in Consumidores : c = d

\* While a thread holds the mutex nobody else is half way through a push.
LEMMA NadieSinPostear ==
  ASSUME IInv, NEW h \in Hilos, paso[h] \in {"con_mutex", "posteado"}
  PROVE  SinPostear = {}
  BY DEF IInv, Exclusion, DentroDelMutex, SinPostear

\* Nor while it is half way through its own: it is the only one.
LEMMA UnoSinPostear ==
  ASSUME IInv, NEW h \in Hilos, paso[h] = "en_lista"
  PROVE  SinPostear = {h}
  BY DEF IInv, Exclusion, DentroDelMutex, SinPostear

\* What is left alone.
LEMMA LugaresIgual ==
  ASSUME Lugares, SinPostear' \subseteq SinPostear, lista' = lista,
         \A g \in SinPostear' : /\ lugar'[g] = lugar[g] /\ op'[g] = op[g]
                                /\ elemento'[g] = elemento[g]
  PROVE  Lugares'
  BY DEF Lugares

\* A new call touches none of the places.
LEMMA PasoLugaresLlama ==
  ASSUME RInv, NEW h \in Hilos, NEW o, NEW e, Llama(h, o, e),
         o \in {"pop", "try_pop"} => h \in Consumidores
  PROVE  Lugares' /\ SoloConsumidores'
  <1> USE DEF RInv, IInv, Llama, Avanza
  <1>1. SinPostear' = SinPostear \ {h}
    BY DEF TypeOK, SinPostear
  <1>2. \A g \in SinPostear' : /\ lugar'[g] = lugar[g] /\ op'[g] = op[g]
                               /\ elemento'[g] = elemento[g]
    BY <1>1 DEF TypeOK, SinPostear
  <1>3. Lugares'
    BY <1>1, <1>2, LugaresIgual
  <1>4. SoloConsumidores'
    BY DEF TypeOK, SoloConsumidores
  <1> QED BY <1>3, <1>4

\* list_add and list_ordered_insert record the place.
LEMMA PasoLugaresAgrega ==
  ASSUME RInv, NEW h \in Hilos, Agrega(h)
  PROVE  Lugares' /\ SoloConsumidores'
  <1> USE DEF RInv, Agrega, Avanza
  <1>0. PICK i \in 1..(Len(lista) + 1) :
          /\ op[h] = "push" => i = Len(lista) + 1
          /\ lista' = InsertAt(lista, i, elemento[h])
          /\ lugar' = [lugar EXCEPT ![h] = i]
    OBVIOUS
  <1>1. lista \in Seq(Elementos) /\ elemento[h] \in Elementos
    BY DEF IInv, TypeOK
  <1>2. Len(lista') = Len(lista) + 1 /\ lista'[i] = elemento[h]
    <2> DEFINE e == elemento[h]
    <2>1. e \in Elementos /\ lista' = InsertAt(lista, i, e)
      BY <1>0, <1>1
    <2> HIDE DEF e
    <2>2. Len(lista') = Len(lista) + 1 /\ lista'[i] = e
      BY ONLY <1>0, <1>1, <2>1, i \in 1..(Len(lista) + 1), InsertaElementos
         DEF Insertado
    <2> QED BY <2>2 DEF e
  <1>3. SinPostear = {}
    BY NadieSinPostear
  <1>4. SinPostear' = {h}
    BY <1>3 DEF IInv, TypeOK, SinPostear
  <1>5. lugar'[h] = i /\ elemento' = elemento /\ op' = op
    BY <1>0 DEF IInv, TypeOK
  <1>6. Lugares'
    BY <1>0, <1>1, <1>2, <1>4, <1>5 DEF Lugares
  <1>7. SoloConsumidores'
    BY DEF SoloConsumidores
  <1> QED BY <1>6, <1>7

\* list_remove and list_sort find nobody half way through a push.
LEMMA PasoLugaresMueve ==
  ASSUME RInv, NEW h \in Hilos, Saca(h) \/ Ordena(h)
  PROVE  Lugares' /\ SoloConsumidores'
  <1> USE DEF RInv, Saca, Ordena, Avanza
  <1>1. SinPostear = {}
    BY NadieSinPostear
  <1>2. SinPostear' = {}
    BY <1>1 DEF IInv, TypeOK, SinPostear
  <1> QED BY <1>2 DEF Lugares, SoloConsumidores

\* The rest of the steps leave the list alone.
LEMMA PasoLugaresQuieto ==
  ASSUME RInv, NEW h \in Hilos,
         \/ TomaSemaforo(h) \/ NoHay(h) \/ TomaMutex(h)
         \/ Postea(h) \/ SueltaMutex(h) \/ Vuelve(h)
  PROVE  Lugares' /\ SoloConsumidores'
  <1> USE DEF RInv, TomaSemaforo, NoHay, TomaMutex, Postea, SueltaMutex, Vuelve, Avanza
  <1>1. lista' = lista
    OBVIOUS
  <1>2. SinPostear' = SinPostear \ {h}
    BY DEF IInv, TypeOK, SinPostear
  <1>3. \A g \in SinPostear' : /\ lugar'[g] = lugar[g] /\ op'[g] = op[g]
                               /\ elemento'[g] = elemento[g]
    BY <1>2 DEF IInv, TypeOK, SinPostear
  <1>4. Lugares'
    BY <1>1, <1>2, <1>3, LugaresIgual
  <1>5. SoloConsumidores'
    BY DEF IInv, TypeOK, SoloConsumidores
  <1> QED BY <1>4, <1>5

\* RInv is inductive.
LEMMA PasoR == RInv /\ [Next]_vars => RInv'
  <1> SUFFICES ASSUME RInv, [Next]_vars PROVE RInv'
    OBVIOUS
  <1>0. IInv'
    BY Paso DEF RInv
  <1>1. ASSUME NEW h \in Productores, LlamaPush(h)
        PROVE  Lugares' /\ SoloConsumidores'
    <2>1. PICK e \in Libres, o \in {"push", "insert"} : Llama(h, o, e)
      BY <1>1 DEF LlamaPush
    <2>2. h \in Hilos /\ o \notin {"pop", "try_pop"}
      BY DEF Hilos
    <2> QED BY <2>1, <2>2, PasoLugaresLlama
  <1>2. ASSUME NEW h \in Consumidores, LlamaPop(h)
        PROVE  Lugares' /\ SoloConsumidores'
    <2>1. h \in Hilos
      BY DEF Hilos
    <2> QED BY <1>2, <2>1, PasoLugaresLlama DEF LlamaPop
  <1>3. ASSUME NEW h \in Ordenadores, LlamaSort(h)
        PROVE  Lugares' /\ SoloConsumidores'
    <2>1. h \in Hilos
      BY DEF Hilos
    <2> QED BY <1>3, <2>1, PasoLugaresLlama DEF LlamaSort
  <1>4. ASSUME NEW h \in Hilos, Adentro(h)
        PROVE  Lugares' /\ SoloConsumidores'
    BY <1>4, PasoLugaresAgrega, PasoLugaresMueve, PasoLugaresQuieto DEF Adentro
  <1>5. ASSUME UNCHANGED vars PROVE Lugares' /\ SoloConsumidores'
    BY <1>5 DEF vars, RInv, Lugares, SoloConsumidores, SinPostear
  <1>6. Lugares' /\ SoloConsumidores'
    BY <1>1, <1>2, <1>3, <1>4, <1>5 DEF Next
  <1> QED BY <1>0, <1>6 DEF RInv

-----------------------------------------------------------------------------
\* What the callers see of the queue at each step.
LEMMA VistaQuieta ==
  ASSUME SinPostear = {} PROVE Visibles = lista
  BY DEF Visibles

\* The same after the step.
LEMMA VistaPosterior ==
  ASSUME SinPostear' = {} PROVE Visibles' = lista'
  BY DEF Visibles

\* An element that is not posted yet is not seen.
LEMMA VistaAMedias ==
  ASSUME NEW h, SinPostear = {h} PROVE Visibles = RemoveAt(lista, lugar[h])
  <1>1. (CHOOSE g \in SinPostear : TRUE) = h
    OBVIOUS
  <1> QED BY <1>1 DEF Visibles

\* The same after the step.
LEMMA VistaAMediasPosterior ==
  ASSUME NEW h, SinPostear' = {h} PROVE Visibles' = RemoveAt(lista', lugar'[h])
  <1>1. (CHOOSE g \in SinPostear' : TRUE) = h
    OBVIOUS
  <1> QED BY <1>1 DEF Visibles

\* A step that touches neither the list nor the pushes under way.
LEMMA VistaIgual ==
  ASSUME IInv, lista' = lista, SinPostear' = SinPostear,
         \A g \in SinPostear : lugar'[g] = lugar[g]
  PROVE  Visibles' = Visibles
  <1>1. CASE SinPostear = {}
    BY <1>1 DEF Visibles
  <1>2. CASE SinPostear # {}
    <2>1. PICK h \in SinPostear : TRUE
      BY <1>2
    <2>2. SinPostear = {h}
      BY <2>1, UnoSinPostear DEF SinPostear
    <2>3. Visibles = RemoveAt(lista, lugar[h])
      BY ONLY <2>2, VistaAMedias
    <2>4. Visibles' = RemoveAt(lista', lugar'[h])
      BY ONLY <2>2, SinPostear' = SinPostear, VistaAMediasPosterior
    <2> QED BY <2>1, <2>3, <2>4
  <1> QED BY <1>1, <1>2

\* The call begins in both specifications.
LEMMA RefinaLlama ==
  ASSUME RInv, NEW h \in Hilos, NEW o, NEW e, Llama(h, o, e)
  PROVE  Cola!Llama(h, o, e)
  <1> USE DEF RInv, Llama, Avanza
  <1>1. op[h] = "nada" /\ paso[h] = "afuera"
    BY DEF IInv, TypeOK, PasosDe
  <1>2. SinPostear' = SinPostear
    BY <1>1 DEF IInv, TypeOK, SinPostear
  <1>3. Visibles' = Visibles
    BY <1>2, VistaIgual
  <1>4. YaHecho' = YaHecho
    BY <1>1 DEF IInv, TypeOK, YaHecho
  <1> QED BY <1>1, <1>3, <1>4 DEF Cola!Llama

\* Waiting for the semaphore or the mutex, and leaving the mutex, is nothing
\* to the callers.
LEMMA RefinaQuieto ==
  ASSUME RInv, NEW h \in Hilos,
         TomaSemaforo(h) \/ TomaMutex(h) \/ SueltaMutex(h)
  PROVE  UNCHANGED Cola!vars
  <1> USE DEF RInv, TomaSemaforo, TomaMutex, SueltaMutex, Avanza
  <1>1. SinPostear' = SinPostear
    BY DEF IInv, TypeOK, SinPostear
  <1>2. Visibles' = Visibles
    BY <1>1, VistaIgual
  <1>3. YaHecho' = YaHecho
    BY DEF IInv, TypeOK, YaHecho
  <1> QED BY <1>2, <1>3 DEF Cola!vars

\* The element that list_add put in is not seen yet.
LEMMA RefinaAgrega ==
  ASSUME RInv, NEW h \in Hilos, Agrega(h)
  PROVE  UNCHANGED Cola!vars
  <1> USE DEF RInv, Agrega, Avanza
  <1>0. PICK i \in 1..(Len(lista) + 1) : /\ lista' = InsertAt(lista, i, elemento[h])
                                        /\ lugar' = [lugar EXCEPT ![h] = i]
    OBVIOUS
  <1>1. lista \in Seq(Elementos) /\ elemento[h] \in Elementos
    BY DEF IInv, TypeOK
  <1>2. SinPostear = {} /\ SinPostear' = {h}
    <2>1. SinPostear = {}
      BY NadieSinPostear
    <2> QED BY <2>1 DEF IInv, TypeOK, SinPostear
  <1>3. Visibles = lista
    BY <1>2, VistaQuieta
  <1>4. Visibles' = RemoveAt(lista', lugar'[h])
    BY ONLY <1>2, VistaAMediasPosterior
  <1>5. lugar'[h] = i
    BY <1>0 DEF IInv, TypeOK
  <1>6. RemoveAt(InsertAt(lista, i, elemento[h]), i) = lista
    <2> DEFINE e == elemento[h]
    <2>1. e \in Elementos
      BY <1>1
    <2> HIDE DEF e
    <2>2. PICK t : t = InsertAt(lista, i, e)
      OBVIOUS
    <2>3. PICK u : u = RemoveAt(t, i)
      OBVIOUS
    <2>4. u = lista
      BY ONLY <1>1, <2>1, <2>2, <2>3, i \in 1..(Len(lista) + 1), QuitaLoInsertado
    <2> QED BY <2>2, <2>3, <2>4 DEF e
  <1>7. Visibles' = Visibles
    BY <1>0, <1>3, <1>4, <1>5, <1>6
  <1>8. YaHecho' = YaHecho
    BY DEF IInv, TypeOK, YaHecho
  <1> QED BY <1>7, <1>8 DEF Cola!vars

\* sem_post is the instant of a push and of an ordered insert.
LEMMA RefinaPostea ==
  ASSUME RInv, NEW h \in Hilos, Postea(h)
  PROVE  Cola!Agrega(h) \/ Cola!Inserta(h)
  <1> USE DEF RInv, Postea, Avanza
  <1>0. lista \in Seq(Elementos) /\ Len(lista) \in Nat
    BY DEF IInv, TypeOK
  <1>1. SinPostear = {h} /\ SinPostear' = {}
    <2>1. SinPostear = {h}
      BY UnoSinPostear
    <2> QED BY <2>1 DEF IInv, TypeOK, SinPostear
  <1>2. PICK i : i = lugar[h]
    OBVIOUS
  <1>3. /\ i \in 1..Len(lista) /\ lista[i] = elemento[h]
        /\ op[h] = "push" => i = Len(lista)
    BY <1>1, <1>2 DEF Lugares
  <1>4. PICK s : s = RemoveAt(lista, i)
    OBVIOUS
  <1>5. Visibles = s
    <2>1. Visibles = RemoveAt(lista, lugar[h])
      BY ONLY <1>1, VistaAMedias
    <2> QED BY <2>1, <1>2, <1>4
  <1>6. Visibles' = lista
    <2>1. Visibles' = lista'
      BY ONLY <1>1, VistaPosterior
    <2> QED BY <2>1
  <1>7. s \in Seq(Elementos) /\ Len(s) = Len(lista) - 1
    BY ONLY <1>0, <1>3, <1>4, QuitaElementos DEF Quitado
  <1>8. InsertAt(s, i, elemento[h]) = lista
    <2>1. InsertAt(RemoveAt(lista, i), i, lista[i]) = lista
      BY <1>0, <1>3, InsertaLoQuitado
    <2> QED BY <2>1, <1>3, <1>4
  <1>9. /\ ~YaHecho[h] /\ YaHecho' = [YaHecho EXCEPT ![h] = TRUE]
        /\ UNCHANGED <<op, elemento>>
    BY DEF IInv, TypeOK, YaHecho
  <1>10. CASE op[h] = "push"
    <2>1. i = Len(s) + 1
      BY <1>0, <1>3, <1>7, <1>10
    <2>2. elemento[h] \in Elementos
      BY <1>0, <1>3
    <2>3. lista = Append(s, elemento[h])
      <3> DEFINE e == elemento[h]
      <3>1. e \in Elementos /\ InsertAt(s, i, e) = lista
        BY <2>2, <1>8
      <3> HIDE DEF e
      <3>2. InsertAt(s, Len(s) + 1, e) = Append(s, e)
        BY ONLY <3>1, <1>7, InsertaAlFinal
      <3>3. lista = Append(s, e)
        BY <3>1, <3>2, <2>1
      <3> QED BY <3>3 DEF e
    <2> QED BY <1>5, <1>6, <1>9, <1>10, <2>3 DEF Cola!Agrega, Cola!Efecto
  <1>11. CASE op[h] = "insert"
    <2>1. i \in 1..(Len(s) + 1)
      BY <1>0, <1>3, <1>7
    <2>2. Cola!InsertAt(s, i, elemento[h]) = lista
      BY <1>8 DEF Cola!InsertAt, InsertAt
    <2>3. Cola!Efecto(h, "insert")
      BY <1>9, <1>11 DEF Cola!Efecto
    <2>4. \E j \in 1..(Len(Visibles) + 1) :
            Visibles' = Cola!InsertAt(Visibles, j, elemento[h])
      BY <1>5, <1>6, <2>1, <2>2
    <2> QED BY <1>9, <2>3, <2>4 DEF Cola!Inserta
  <1> QED BY <1>10, <1>11

\* The instant of a pop is its list_remove: with the mutex held the list is
\* what the callers see, and it is not empty.
LEMMA RefinaSaca ==
  ASSUME RInv, NEW h \in Hilos, Saca(h)
  PROVE  Cola!Saca(h)
  <1> USE DEF RInv, Saca, Avanza
  <1>1. SinPostear = {} /\ SinPostear' = {}
    <2>1. SinPostear = {}
      BY NadieSinPostear
    <2> QED BY <2>1 DEF IInv, TypeOK, SinPostear
  <1>2. Visibles = lista /\ Visibles' = lista'
    BY ONLY <1>1, VistaQuieta, VistaPosterior
  <1>3. lista # <<>>
    BY HayQueSacar DEF ConReserva
  <1>4. /\ ~YaHecho[h] /\ YaHecho' = [YaHecho EXCEPT ![h] = TRUE]
        /\ UNCHANGED op
    BY DEF IInv, TypeOK, YaHecho
  <1> QED BY <1>2, <1>3, <1>4 DEF Cola!Saca, Cola!Efecto

\* sem_trywait fails: nobody else pops, so what the list holds, if anything,
\* is one element whose push has not posted yet.
LEMMA RefinaNoHay ==
  ASSUME RInv, UnConsumidor, NEW h \in Hilos, NoHay(h)
  PROVE  Cola!NoHay(h)
  <1> USE DEF RInv, NoHay, Avanza
  <1>0. lista \in Seq(Elementos) /\ Len(lista) \in Nat
    BY DEF IInv, TypeOK
  <1>1. ConReserva = {}
    <2> SUFFICES ASSUME NEW g \in ConReserva PROVE FALSE
      OBVIOUS
    <2>1. g \in Hilos /\ op[g] \in {"pop", "try_pop"} /\ paso[g] # "llamo"
      BY DEF ConReserva
    <2>2. g = h
      BY <2>1 DEF SoloConsumidores, UnConsumidor
    <2> QED BY <2>1, <2>2
  <1>2. Len(lista) = Cardinality(SinPostear)
    <2>1. Cardinality(ConReserva) = 0 /\ semaforo = 0
      BY <1>1, FS_EmptySet
    <2>2. SemaforoCuenta
      BY DEF IInv
    <2> QED BY ONLY <1>0, <2>1, <2>2, Finitos DEF SemaforoCuenta
  <1>3. Visibles = <<>>
    <2>1. CASE SinPostear = {}
      <3>1. Len(lista) = 0
        BY <1>2, <2>1, FS_EmptySet
      <3> QED BY <1>0, <2>1, <3>1, VistaQuieta
    <2>2. CASE SinPostear # {}
      <3>1. PICK g \in SinPostear : TRUE
        BY <2>2
      <3>2. SinPostear = {g}
        BY <3>1, UnoSinPostear DEF SinPostear
      <3>3. Len(lista) = 1
        BY <1>2, <3>2, FS_Singleton
      <3>4. PICK i : i = lugar[g]
        OBVIOUS
      <3>5. i \in 1..Len(lista)
        BY <3>1, <3>4 DEF Lugares
      <3>6. PICK s : s = RemoveAt(lista, i)
        OBVIOUS
      <3>7. s \in Seq(Elementos) /\ Len(s) = Len(lista) - 1
        BY ONLY <1>0, <3>5, <3>6, QuitaElementos DEF Quitado
      <3>8. s = <<>>
        BY <3>3, <3>7
      <3>9. Visibles = RemoveAt(lista, lugar[g])
        BY ONLY <3>2, VistaAMedias
      <3> QED BY <3>4, <3>6, <3>8, <3>9
    <2> QED BY <2>1, <2>2
  <1>4. SinPostear' = SinPostear
    BY DEF IInv, TypeOK, SinPostear
  <1>5. Visibles' = Visibles
    BY <1>4, VistaIgual
  <1>6. /\ ~YaHecho[h] /\ YaHecho' = [YaHecho EXCEPT ![h] = TRUE]
        /\ UNCHANGED <<op, elemento>>
    BY DEF IInv, TypeOK, YaHecho
  <1> QED BY <1>3, <1>5, <1>6 DEF Cola!NoHay, Cola!Efecto

\* The instant of a sort is its list_sort, for the same reason.
LEMMA RefinaOrdena ==
  ASSUME RInv, NEW h \in Hilos, Ordena(h)
  PROVE  Cola!Ordena(h)
  <1> USE DEF RInv, Ordena, Avanza
  <1>1. SinPostear = {} /\ SinPostear' = {}
    <2>1. SinPostear = {}
      BY NadieSinPostear
    <2> QED BY <2>1 DEF IInv, TypeOK, SinPostear
  <1>2. Visibles = lista /\ Visibles' = lista'
    BY ONLY <1>1, VistaQuieta, VistaPosterior
  <1>3. /\ ~YaHecho[h] /\ YaHecho' = [YaHecho EXCEPT ![h] = TRUE]
        /\ UNCHANGED <<op, elemento>>
    BY DEF IInv, TypeOK, YaHecho
  <1> QED BY <1>2, <1>3 DEF Reordenamientos, Cola!Ordena, Cola!Efecto

\* The call returns in both.
LEMMA RefinaVuelve ==
  ASSUME RInv, NEW h \in Hilos, Vuelve(h)
  PROVE  Cola!Vuelve(h)
  <1> USE DEF RInv, Vuelve, Avanza
  <1>1. SinPostear' = SinPostear
    BY DEF IInv, TypeOK, SinPostear
  <1>2. \A g \in SinPostear : lugar'[g] = lugar[g]
    BY DEF IInv, TypeOK, SinPostear
  <1>3. Visibles' = Visibles
    BY <1>1, <1>2, VistaIgual
  <1>4. YaHecho[h] /\ YaHecho' = [YaHecho EXCEPT ![h] = FALSE]
    <2>1. \A g \in Hilos : (paso'[g] \in {"posteado", "listo"})
                           = IF g = h THEN FALSE ELSE paso[g] \in {"posteado", "listo"}
      <3>1. /\ paso'[h] \notin {"posteado", "listo"}
            /\ \A g \in Hilos \ {h} : paso'[g] = paso[g]
        BY DEF IInv, TypeOK
      <3> TAKE g \in Hilos
      <3>2. CASE g = h
        <4>1. (paso'[g] \in {"posteado", "listo"}) = FALSE
          BY <3>1, <3>2
        <4> QED BY ONLY <3>2, <4>1, Zenon
      <3>3. CASE g # h
        <4>1. paso'[g] = paso[g]
          BY <3>1, <3>3
        <4> QED BY ONLY <3>3, <4>1, Zenon
      <3> QED BY ONLY <3>2, <3>3
    <2> DEFINE antes == [g \in Hilos |-> paso[g] \in {"posteado", "listo"}]
               despues == [g \in Hilos |-> paso'[g] \in {"posteado", "listo"}]
    <2>2. despues = [antes EXCEPT ![h] = FALSE]
      BY ONLY <2>1, Zenon
    <2>3. antes[h]
      OBVIOUS
    <2> QED BY <2>2, <2>3 DEF YaHecho
  <1> QED BY <1>3, <1>4 DEF Cola!Vuelve

\* The queue starts empty in both.
LEMMA RefinaInicial == Init => Cola!Init
  <1> SUFFICES ASSUME Init PROVE Cola!Init
    OBVIOUS
  <1> USE DEF Init
  <1>1. SinPostear = {}
    BY DEF SinPostear
  <1>2. Visibles = <<>>
    BY <1>1, VistaQuieta
  <1>3. YaHecho = [h \in Hilos |-> FALSE]
    <2>1. \A h \in Hilos : (paso[h] \in {"posteado", "listo"}) = FALSE
      OBVIOUS
    <2> QED BY ONLY <2>1, Zenon DEF YaHecho
  <1> QED BY <1>2, <1>3 DEF Cola!Init, Cola!Hilos, Hilos

\* Every step of sync_queue is a step of the queue the callers see, or none.
LEMMA RefinaPaso ==
  UnConsumidor => (RInv /\ [Next]_vars => [Cola!Next]_Cola!vars)
  <1> SUFFICES ASSUME UnConsumidor, RInv, [Next]_vars
               PROVE  Cola!Next \/ UNCHANGED Cola!vars
    OBVIOUS
  <1>1. ASSUME NEW h \in Productores, LlamaPush(h) PROVE Cola!Next
    <2>1. PICK e \in Libres, o \in {"push", "insert"} : Llama(h, o, e)
      BY <1>1 DEF LlamaPush
    <2>2. e \in Elementos /\ h \in Hilos
      BY DEF Libres, Hilos
    <2>3. Cola!Llama(h, o, e)
      BY <2>1, <2>2, RefinaLlama
    <2> QED BY <2>2, <2>3 DEF Cola!Next
  <1>2. ASSUME NEW h \in Consumidores, LlamaPop(h) PROVE Cola!Next
    <2>1. PICK o \in {"pop", "try_pop"} : Llama(h, o, Nulo)
      BY <1>2 DEF LlamaPop
    <2>2. Cola!Llama(h, o, Nulo)
      BY <2>1, RefinaLlama DEF Hilos
    <2> QED BY <2>2 DEF Cola!Next
  <1>3. ASSUME NEW h \in Ordenadores, LlamaSort(h) PROVE Cola!Next
    <2>1. Cola!Llama(h, "sort", Nulo)
      BY <1>3, RefinaLlama DEF Hilos, LlamaSort
    <2> QED BY <2>1 DEF Cola!Next
  <1>4. ASSUME NEW h \in Hilos, Adentro(h)
        PROVE  Cola!Next \/ UNCHANGED Cola!vars
    <2>1. h \in Cola!Hilos
      BY DEF Hilos, Cola!Hilos
    <2>2. CASE TomaSemaforo(h) \/ TomaMutex(h) \/ SueltaMutex(h)
      BY <2>2, RefinaQuieto
    <2>3. CASE Agrega(h)
      BY <2>3, RefinaAgrega
    <2>4. CASE Postea(h)
      BY <2>1, <2>4, RefinaPostea DEF Cola!Next
    <2>5. CASE Saca(h)
      BY <2>1, <2>5, RefinaSaca DEF Cola!Next
    <2>6. CASE NoHay(h)
      BY <2>1, <2>6, RefinaNoHay DEF Cola!Next
    <2>7. CASE Ordena(h)
      BY <2>1, <2>7, RefinaOrdena DEF Cola!Next
    <2>8. CASE Vuelve(h)
      BY <2>1, <2>8, RefinaVuelve DEF Cola!Next
    <2> QED BY <1>4, <2>2, <2>3, <2>4, <2>5, <2>6, <2>7, <2>8 DEF Adentro
  <1>5. ASSUME UNCHANGED vars PROVE UNCHANGED Cola!vars
    BY <1>5 DEF vars, Cola!vars, Visibles, YaHecho, SinPostear
  <1> QED BY <1>1, <1>2, <1>3, <1>4, <1>5 DEF Next

\* With one consumer per queue, as in PP, sync_queue is ColaAtomica: each
\* operation takes effect at one instant between its call and its return, and
\* try_pop says NULL only when nothing has been posted.
THEOREM Linealizable == UnConsumidor => (Spec => ImplementaCola)
<1> SUFFICES ASSUME UnConsumidor PROVE Spec => ImplementaCola
  OBVIOUS
<1>1. Init => RInv
  BY Inicial DEF RInv, Init, Lugares, SoloConsumidores, SinPostear
<1>2. RInv /\ [Next]_vars => [Cola!Next]_Cola!vars
  BY RefinaPaso
<1> QED BY <1>1, <1>2, PasoR, RefinaInicial, PTL DEF Spec, ImplementaCola, Cola!Spec
=============================================================================
