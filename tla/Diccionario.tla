---------------------------- MODULE Diccionario ----------------------------
(***************************************************************************)
(* dictionary.c: a hash table of chains, that nothing locks.               *)
(*                                                                         *)
(* A key is its hash code, since an element is told from another by the    *)
(* hash alone.  A chain is the sequence of its nodes.  put and remove are  *)
(* two steps each, the walk along the chain and the write at its end: one  *)
(* thread puts and another removes, as the LTS and finalizados do on       *)
(* tabla_procesos, and procer and the LTS on tabla_suspendidos.            *)
(***************************************************************************)
EXTENDS Integers, FiniteSets, SequencesExt

CONSTANTS
  Claves,      \* the keys in use, as hash codes
  Datos,       \* what is stored; 0 is NULL
  Inicial,     \* DEFAULT_DICTIONARY_INITIAL_SIZE
  Nodos,       \* bound: the elements that fit in memory
  MaxTabla,    \* bound: no put that would make the table larger
  MaxNulos,    \* bound: removals of elements whose data is NULL
  Encuentros,  \* bound: operations that begin while another is under way; 0
               \*        is a dictionary of a single thread
  Nulo

ASSUME DiccionarioAssumption ==
  /\ Claves \subseteq Nat /\ Datos \subseteq Nat
  /\ Inicial \in Nat \ {0} /\ MaxTabla \in Nat /\ Inicial <= MaxTabla
  /\ IsFiniteSet(Nodos) /\ MaxNulos \in Nat /\ Encuentros \in Nat /\ Nulo \notin Nodos

VARIABLES
  max, ocupadas, cantidad,  \* table_max_size, table_current_size, elements_amount
  cubetas,                  \* elements
  hash, dato,               \* of each node
  pon, saca,                \* the put and the remove under way, or Nulo
  nulos,                    \* ghost: removed elements whose data was NULL
  encuentros, cruces        \* ghost: how often the two threads met, and how

nodos == <<hash, dato>>
vars == <<max, ocupadas, cantidad, cubetas, nodos, pon, saca, nulos, encuentros,
          cruces>>

EnCadena(i) == Range(cubetas[i])
Enlazados == UNION {EnCadena(i) : i \in 0..(max - 1)}
EnUso == Enlazados \cup (IF pon = Nulo THEN {} ELSE {pon.nodo})
                   \cup (IF saca = Nulo THEN {} ELSE {saca.nodo})

\* The elements of s that are in ns, in their order.
Filtra(s, ns) ==
  LET hasta[k \in 0..Len(s)] ==
        IF k = 0 THEN <<>>
        ELSE IF s[k] \in ns THEN Append(hasta[k - 1], s[k]) ELSE hasta[k - 1]
  IN hasta[Len(s)]

DeClave(s, h) == Filtra(s, {n \in Nodos : hash[n] = h})

\* dictionary_get_element: the first of the chain with that hash.
Elemento(h) ==
  LET s == cubetas[h % max]
      lugares == {j \in DOMAIN s : hash[s[j]] = h}
  IN IF lugares = {} THEN Nulo ELSE s[Min(lugares)]

\* The place of n in the chain s, and what follows it.
Donde(s, n) == SelectInSeq(s, LAMBDA m : m = n)

Resto(n) ==
  LET s == CHOOSE c \in Range(cubetas) : n \in Range(c)
  IN SubSeq(s, Donde(s, n) + 1, Len(s))

\* Seeded faults, not used by any action: the moved elements go first in their
\* new bucket; the index of the old table is kept.
MudanzaAlFrente(cs, m, nueva) ==
  [i \in 0..(nueva - 1) |->
     Reverse(Filtra(FlattenSeq([k \in 1..m |-> cs[k - 1]]),
                    {n \in Nodos : hash[n] % nueva = i}))]
MudanzaEnSuLugar(cs, m, nueva) ==
  [i \in 0..(nueva - 1) |-> IF i < m THEN cs[i] ELSE <<>>]

\* dictionary_resize moves the elements bucket by bucket, in order: a new
\* bucket gets from each old one those whose hash is now its index.
Mudanza(cs, m, nueva) ==
  [i \in 0..(nueva - 1) |->
     LET desde[k \in 0..m] ==
           IF k = 0 THEN <<>>
           ELSE desde[k - 1] \o Filtra(cs[k - 1], {n \in Nodos : hash[n] % nueva = i})
     IN desde[m]]

Ocupadas(cs) == Cardinality({i \in DOMAIN cs : cs[i] # <<>>})

\* x += d without a lock, where vs are the values that x had before and since
\* the operation began: it may add to an old value, so that what the other
\* thread wrote is lost, or be written over by the other, so that d is lost.
Suma(x, d, vs) ==
  IF d = 0 THEN {x}
  ELSE {v + d : v \in vs \cup {x}} \cup (IF vs = {} THEN {} ELSE {x})

\* The values x has had, for who is under way when it is written.
Escrito(x, d) == IF d = 0 THEN {} ELSE {x}

Anota(op, cs, ts) ==
  IF op = Nulo THEN op ELSE [op EXCEPT !.vc = @ \cup cs, !.vt = @ \cup ts]
-----------------------------------------------------------------------------

Init ==
  /\ max = Inicial /\ ocupadas = 0 /\ cantidad = 0
  /\ cubetas = [i \in 0..(Inicial - 1) |-> <<>>]
  /\ hash = [n \in Nodos |-> 0] /\ dato = [n \in Nodos |-> 0]
  /\ pon = Nulo /\ saca = Nulo
  /\ nulos = 0 /\ encuentros = 0 /\ cruces = {}

\* An operation begins, alone or beside the other.
Empieza(otra) ==
  IF otra = Nulo THEN UNCHANGED encuentros
  ELSE encuentros < Encuentros /\ encuentros' = encuentros + 1

\* A remove that was walking the table another thread has replaced and freed:
\* what it does then is undefined, and nothing is said of it.
Definido == "mudanza" \notin cruces

\* The tail the put will write to is the element being removed.
CruceDe(p, s) ==
  IF p = Nulo \/ s = Nulo THEN {}
  ELSE {"contador"} \cup (IF p.cola = s.nodo THEN {"cadena"} ELSE {})

-----------------------------------------------------------------------------
(* dictionary_put.                                                           *)

\* The new element is made, and the chain walked to its last one.
PonBusca(h, d) ==
  /\ Definido /\ pon = Nulo /\ Empieza(saca)
  /\ max * 2 <= MaxTabla \/ ocupadas + 1 < max
  /\ LET i == h % max
         cola == IF cubetas[i] = <<>> THEN Nulo ELSE Last(cubetas[i])
     IN \E n \in Nodos \ EnUso :
          /\ hash' = [hash EXCEPT ![n] = h]
          /\ dato' = [dato EXCEPT ![n] = d]
          /\ pon' = [nodo |-> n, i |-> i, cola |-> cola, vc |-> {}, vt |-> {}]
  /\ cruces' = cruces \cup CruceDe(pon', saca)
  /\ UNCHANGED <<max, ocupadas, cantidad, cubetas, saca, nulos>>

\* It is linked, to nothing in the program's reach if the tail was freed; a
\* bucket that stops being empty may be the one that makes the table grow.
PonEscribe ==
  /\ Definido /\ pon # Nulo
  /\ LET cs == IF pon.cola = Nulo
                 THEN [cubetas EXCEPT ![pon.i] = <<pon.nodo>>]
               ELSE IF pon.cola \in EnCadena(pon.i)
                 THEN [cubetas EXCEPT ![pon.i] = Append(@, pon.nodo)]
               ELSE cubetas
         dt == IF pon.cola = Nulo THEN 1 ELSE 0
     IN \E t \in Suma(ocupadas, dt, pon.vt), c \in Suma(cantidad, 1, pon.vc) :
          /\ cantidad' = c
          /\ IF dt = 1 /\ t >= max
               THEN /\ max' = max * 2
                    /\ cubetas' = Mudanza(cs, max, max * 2)
                    /\ ocupadas' = Ocupadas(cubetas')
                    /\ cruces' = cruces \cup (IF saca = Nulo THEN {} ELSE {"mudanza"})
               ELSE /\ ocupadas' = t /\ cubetas' = cs
                    /\ UNCHANGED <<max, cruces>>
          /\ saca' = Anota(saca, Escrito(cantidad, 1), Escrito(ocupadas, dt))
  /\ pon' = Nulo
  /\ UNCHANGED <<nodos, nulos, encuentros>>

-----------------------------------------------------------------------------
(* dictionary_remove.                                                        *)

\* The element is found, and its next pointer read.
SacaBusca(h) ==
  /\ Definido /\ saca = Nulo /\ Empieza(pon) /\ Elemento(h) # Nulo
  /\ nulos = MaxNulos => dato[Elemento(h)] # 0
  /\ saca' = [nodo |-> Elemento(h), i |-> h % max, ultimo |-> Resto(Elemento(h)) = <<>>,
              vc |-> {}, vt |-> {}]
  /\ cruces' = cruces \cup CruceDe(pon, saca')
  /\ UNCHANGED <<max, ocupadas, cantidad, cubetas, nodos, pon, nulos>>

\* It is unlinked, keeping what follows it, or nothing if its next pointer was
\* NULL when it was read; and freed.  Its count is taken back unless its data
\* is NULL.
SacaEscribe ==
  /\ Definido /\ saca # Nulo
  /\ LET s == cubetas[saca.i]
         antes == SubSeq(s, 1, Donde(s, saca.nodo) - 1)
         nulo == dato[saca.nodo] = 0
     IN \E resto \in {Resto(saca.nodo)} \cup (IF saca.ultimo THEN {<<>>} ELSE {}) :
          LET dt == IF antes \o resto = <<>> THEN -1 ELSE 0
              dc == IF nulo THEN 0 ELSE -1
          IN /\ cubetas' = [cubetas EXCEPT ![saca.i] = antes \o resto]
             /\ ocupadas' \in Suma(ocupadas, dt, saca.vt)
             /\ cantidad' \in Suma(cantidad, dc, saca.vc)
             /\ pon' = Anota(pon, Escrito(cantidad, dc), Escrito(ocupadas, dt))
             /\ nulos' = IF nulo THEN nulos + 1 ELSE nulos
  /\ hash' = [hash EXCEPT ![saca.nodo] = 0]
  /\ dato' = [dato EXCEPT ![saca.nodo] = 0]
  /\ saca' = Nulo
  /\ UNCHANGED <<max, encuentros, cruces>>

-----------------------------------------------------------------------------
\* Seeded fault, not used by any action: elements_amount is not reset.
LimpiaSinCuenta ==
  /\ Definido /\ pon = Nulo /\ saca = Nulo
  /\ cubetas' = [i \in 0..(max - 1) |-> <<>>]
  /\ ocupadas' = 0 /\ nulos' = 0
  /\ hash' = [n \in Nodos |-> 0] /\ dato' = [n \in Nodos |-> 0]
  /\ UNCHANGED <<max, cantidad, pon, saca, encuentros, cruces>>

\* dictionary_clean, by the thread that destroys the dictionary.
Limpia ==
  /\ Definido /\ pon = Nulo /\ saca = Nulo
  /\ cubetas' = [i \in 0..(max - 1) |-> <<>>]
  /\ ocupadas' = 0 /\ cantidad' = 0 /\ nulos' = 0
  /\ hash' = [n \in Nodos |-> 0] /\ dato' = [n \in Nodos |-> 0]
  /\ UNCHANGED <<max, pon, saca, encuentros, cruces>>

Next == \/ \E h \in Claves, d \in Datos : PonBusca(h, d)
        \/ \E h \in Claves : SacaBusca(h)
        \/ PonEscribe \/ SacaEscribe \/ Limpia

Spec == Init /\ [][Next]_vars
-----------------------------------------------------------------------------
(* Properties.                                                               *)

\* The table after k growths.
Tamanio(k) ==
  LET doble[j \in 0..k] == IF j = 0 THEN Inicial ELSE 2 * doble[j - 1] IN doble[k]

TypeOK ==
  /\ \E k \in 0..MaxTabla : max = Tamanio(k)
  /\ max <= MaxTabla
  /\ ocupadas \in Int /\ cantidad \in Int
  /\ nulos \in 0..MaxNulos /\ encuentros \in 0..Encuentros
  /\ cubetas \in [0..(max - 1) -> Seq(Nodos)]
  /\ hash \in [Nodos -> Claves \cup {0}] /\ dato \in [Nodos -> Datos \cup {0}]
  /\ cruces \subseteq {"contador", "cadena", "mudanza"}

\* What dictionary_get, dictionary_has_key and dictionary_iterator see.
Contenido == [h \in Claves |->
  LET s == DeClave(cubetas[h % max], h) IN [j \in DOMAIN s |-> dato[s[j]]]]

Mapa == INSTANCE MapaConRepetidos WITH pares <- Contenido

\* Each operation does to the contents what a map with repetitions does: put
\* goes last under its key, remove takes and returns the first, and nothing
\* else, a search or the growth of the table, changes them.  With two threads
\* this holds until a put links its element to the one being removed, or makes
\* the table grow under a remove; racing for the counters does not spoil it.
ImplementaMapa ==
  /\ Mapa!Init
  /\ [][ cruces' \subseteq {"contador"} =>
           /\ PonEscribe => Mapa!Pone(hash[pon.nodo], dato[pon.nodo])
           /\ SacaEscribe => Mapa!Saca(hash[saca.nodo], dato[saca.nodo])
           /\ Limpia => Mapa!Limpia
           /\ PonEscribe \/ SacaEscribe \/ Limpia \/ UNCHANGED Contenido ]_vars

\* Every element is linked once, in the bucket its hash has in the table of
\* today, so a lookup that starts there finds it after any number of growths.
CadaUnoEnSuCubeta ==
  /\ TypeOK
  /\ \A i, j \in 0..(max - 1) : \A a \in DOMAIN cubetas[i], b \in DOMAIN cubetas[j] :
       /\ hash[cubetas[i][a]] % max = i
       /\ cubetas[i][a] = cubetas[j][b] => <<i, a>> = <<j, b>>

\* The two counters.  A thread alone keeps them exact, and a bucket free: the
\* table grew in time.  Two threads may spoil them, since nothing locks the
\* dictionary, but by no more than one for every time that they met, in either
\* direction: dictionary_size does not drift while they work in turns.
CuentasExactas ==
  LET usadas == {i \in 0..(max - 1) : cubetas[i] # <<>>}
      Desvio(x, n) == encuentros >= x - n /\ encuentros >= n - x
  IN /\ cruces = {} => usadas # 0..(max - 1)
     /\ cruces \subseteq {"contador"} =>
          /\ Desvio(ocupadas, Cardinality(usadas))
          /\ nulos = 0 => Desvio(cantidad, Cardinality(Enlazados))

\* What dictionary.c says of dictionary_size, with no operation under way: it is
\* the number of elements.  dictionary_remove cannot tell an element whose data
\* is NULL from a key that is not there, and does not take it back; the
\* variables of a program that hold 0 and the label of its first line are such
\* elements.
TamanioEsCantidad ==
  pon = Nulo /\ saca = Nulo => cantidad = Cardinality(Enlazados)
=============================================================================
