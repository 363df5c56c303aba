---------------------------- MODULE CommonsProofs ----------------------------
(***************************************************************************)
(* Two of the libraries in src/procer/commons.                             *)
(*                                                                         *)
(* list.c, by ListaEnlazada: for any memory and any values, the links are  *)
(* always those of one sequence of cells, and each operation does to it    *)
(* what its name says.                                                     *)
(*                                                                         *)
(* network.c, by Red: for any messages and any length of the header, what  *)
(* is received is what was sent, message by message, however the bytes     *)
(* arrive, unless a header is cut or a file is not sent whole.             *)
(***************************************************************************)
EXTENDS ListaEnlazada, Red, Secuencias, FiniteSetTheorems

-----------------------------------------------------------------------------
(*                                 list.c                                    *)
-----------------------------------------------------------------------------
Dato == Valores \cup {CHOOSE v \in Valores : TRUE}

-----------------------------------------------------------------------------
(* Walks.                                                                    *)

\* The cell k steps from h by the links nx.
Camino(h, nx, k) ==
  LET paso[j \in 0..k] ==
        IF j = 0 THEN h ELSE IF paso[j - 1] = Nada THEN Nada ELSE nx[paso[j - 1]]
  IN paso[k]

\* What is k steps from the first of s.
EnLugar(s, k) == IF k < Len(s) THEN s[k + 1] ELSE Nada

\* The links from h are s.
Hilada(s, h, nx) ==
  /\ s \in Seq(Celdas) /\ \A i, j \in DOMAIN s : s[i] = s[j] => i = j
  /\ h = EnLugar(s, 0)
  /\ \A i \in 1..Len(s) : nx[s[i]] = EnLugar(s, i)

\* A walk goes along the sequence and stays at NULL after it.
LEMMA CaminoPorLaLista ==
  ASSUME NEW s, NEW h, NEW nx, Hilada(s, h, nx), NEW k \in Nat
  PROVE  Camino(h, nx, k) = EnLugar(s, k)
  <1> DEFINE ecuacion(f) == [j \in 0..k |->
               IF j = 0 THEN h ELSE IF f[j - 1] = Nada THEN Nada ELSE nx[f[j - 1]]]
             paso == CHOOSE f : f = ecuacion(f)
             g == [j \in 0..k |-> EnLugar(s, j)]
  <1>0. /\ s \in Seq(Celdas) /\ Len(s) \in Nat /\ DOMAIN s = 1..Len(s)
        /\ \A i \in 1..Len(s) : s[i] \in Celdas /\ s[i] # Nada
        /\ h = EnLugar(s, 0)
        /\ \A i \in 1..Len(s) : nx[s[i]] = EnLugar(s, i)
    BY ListaAssumption DEF Hilada
  <1>1. ASSUME NEW j \in 1..k
        PROVE  EnLugar(s, j) = IF EnLugar(s, j - 1) = Nada THEN Nada
                               ELSE nx[EnLugar(s, j - 1)]
    <2>0. j - 1 \in Nat /\ (j - 1) + 1 = j
      OBVIOUS
    <2>1. CASE j <= Len(s)
      <3>1. EnLugar(s, j - 1) = s[j] /\ j \in 1..Len(s)
        BY <1>0, <2>0, <2>1 DEF EnLugar
      <3> QED BY <1>0, <3>1
    <2>2. CASE ~(j <= Len(s))
      <3>1. EnLugar(s, j - 1) = Nada /\ EnLugar(s, j) = Nada
        BY <1>0, <2>0, <2>2 DEF EnLugar
      <3> QED BY <3>1
    <2> QED BY <2>1, <2>2
  <1>2. g = ecuacion(g)
    <2>1. ASSUME NEW j \in 0..k PROVE g[j] = ecuacion(g)[j]
      <3>1. CASE j = 0
        BY <1>0, <3>1
      <3>2. CASE j # 0
        <4>1. j \in 1..k /\ j - 1 \in 0..k
          BY <3>2
        <4> HIDE DEF paso
        <4> QED BY <1>1, <3>2, <4>1
      <3> QED BY <3>1, <3>2
    <2> HIDE DEF paso
    <2> QED BY <2>1
  <1>3. paso = ecuacion(paso)
    <2> HIDE DEF ecuacion, g
    <2> QED BY <1>2
  <1>4. Camino(h, nx, k) = paso[k]
    BY DEF Camino
  <1>5. /\ paso[0] = h
        /\ \A j \in 1..k : paso[j] = IF paso[j - 1] = Nada THEN Nada ELSE nx[paso[j - 1]]
    <2> HIDE DEF paso
    <2> QED BY <1>3
  <1> DEFINE T == {j \in Nat : j <= k => paso[j] = EnLugar(s, j)}
  <1> HIDE DEF paso
  <1>6. 0 \in T
    BY <1>0, <1>5
  <1>7. ASSUME NEW j \in Nat, j \in T PROVE j + 1 \in T
    <2>1. CASE j + 1 <= k
      <3>1. j + 1 \in 1..k /\ (j + 1) - 1 = j /\ j <= k
        BY <2>1
      <3>2. paso[j] = EnLugar(s, j)
        BY <1>7, <3>1
      <3> QED BY <1>1, <1>5, <3>1, <3>2
    <2>2. CASE ~(j + 1 <= k)
      BY <2>2
    <2> QED BY <2>1, <2>2
  <1>8. k \in T
    <2> HIDE DEF T
    <2> QED BY <1>6, <1>7, Induccion
  <1> QED BY <1>4, <1>8

-----------------------------------------------------------------------------
(* The invariant.                                                            *)

\* The state is the list s of cells.
Es(s, h, nx, d, n, u) ==
  /\ Hilada(s, h, nx)
  /\ nx \in [Celdas -> Celdas \cup {Nada}] /\ d \in [Celdas -> Dato]
  /\ n = Len(s) /\ u = Range(s)

Inv == \E s \in Seq(Celdas) : Es(s, head, next, data, elements_count, usadas)

Datos(s, d) == [k \in 1..Len(s) |-> d[s[k]]]

AlcanzadasDe(h, nx) ==
  {c \in Celdas : \E k \in 0..Cardinality(Celdas) : Camino(h, nx, k) = c}

ContenidoDe(h, nx, d) ==
  [k \in 1..Cardinality(AlcanzadasDe(h, nx)) |-> d[Camino(h, nx, k - 1)]]

\* A walk from the head visits s, and counts it.
LEMMA Visita ==
  ASSUME NEW s, NEW h, NEW nx, NEW d, NEW n, NEW u, Es(s, h, nx, d, n, u)
  PROVE  /\ AlcanzadasDe(h, nx) = u
         /\ Cardinality(u) = n
         /\ Camino(h, nx, n) = Nada
         /\ ContenidoDe(h, nx, d) = Datos(s, d)
  <1>0. /\ s \in Seq(Celdas) /\ Len(s) \in Nat /\ DOMAIN s = 1..Len(s)
        /\ \A i \in 1..Len(s) : s[i] \in Celdas /\ s[i] # Nada
        /\ \A i, j \in 1..Len(s) : s[i] = s[j] => i = j
        /\ n = Len(s) /\ u = Range(s) /\ Range(s) = {s[i] : i \in 1..Len(s)}
    BY ListaAssumption DEF Es, Hilada, Range
  <1>1. \A k \in Nat : Camino(h, nx, k) = EnLugar(s, k)
    BY CaminoPorLaLista DEF Es
  <1>2. Cardinality(Range(s)) = Len(s)
    <2>1. s \in Bijection(1..Len(s), Range(s))
      BY <1>0 DEF Bijection, Injection, Surjection, IsInjective
    <2>2. ExistsBijection(1..Len(s), Range(s))
      BY <2>1 DEF ExistsBijection
    <2> QED BY <1>0, <2>2, FS_CountingElements
  <1>3. Cardinality(Celdas) \in Nat /\ Len(s) <= Cardinality(Celdas)
    <2>1. Range(s) \subseteq Celdas
      BY <1>0
    <2> QED BY <1>2, <2>1, ListaAssumption, FS_Subset, FS_CardinalityType
  <1>4. AlcanzadasDe(h, nx) = u
    <2>1. ASSUME NEW c \in AlcanzadasDe(h, nx) PROVE c \in Range(s)
      <3>1. PICK k \in 0..Cardinality(Celdas) : Camino(h, nx, k) = c
        BY DEF AlcanzadasDe
      <3>2. k \in Nat /\ c \in Celdas /\ c # Nada
        BY ListaAssumption, <1>3 DEF AlcanzadasDe
      <3>3. k < Len(s) /\ c = s[k + 1]
        BY <1>1, <3>1, <3>2 DEF EnLugar
      <3> QED BY <1>0, <3>2, <3>3
    <2>2. ASSUME NEW i \in 1..Len(s) PROVE s[i] \in AlcanzadasDe(h, nx)
      <3>1. i - 1 \in Nat /\ (i - 1) + 1 = i /\ i - 1 < Len(s)
            /\ i - 1 \in 0..Cardinality(Celdas)
        BY <1>0, <1>3
      <3>2. Camino(h, nx, i - 1) = s[i]
        BY <1>1, <3>1 DEF EnLugar
      <3> QED BY <1>0, <3>1, <3>2 DEF AlcanzadasDe
    <2> QED BY <1>0, <2>1, <2>2
  <1>5. Camino(h, nx, n) = Nada
    BY <1>0, <1>1 DEF EnLugar
  <1>6. ASSUME NEW k \in 1..Len(s) PROVE Camino(h, nx, k - 1) = s[k]
    <2>1. k - 1 \in Nat /\ (k - 1) + 1 = k /\ k - 1 < Len(s)
      BY <1>0
    <2> QED BY <1>1, <2>1 DEF EnLugar
  <1>7. Cardinality(AlcanzadasDe(h, nx)) = Len(s)
    BY <1>0, <1>2, <1>4
  <1>8. ContenidoDe(h, nx, d) = Datos(s, d)
    BY <1>6, <1>7 DEF ContenidoDe, Datos
  <1> QED BY <1>0, <1>2, <1>4, <1>5, <1>8

\* What the module says of its variables, as walks.
LEMMA PorCaminos ==
  /\ \A k \in Nat : A(k) = Camino(head, next, k)
  /\ Alcanzadas = AlcanzadasDe(head, next)
  /\ Contenido = ContenidoDe(head, next, data)
  /\ Contenido' = ContenidoDe(head', next', data')
  BY DEF A, Siguiente, Camino, Alcanzadas, AlcanzadasDe, Contenido, ContenidoDe

\* What the walks of the module find when the state is s.
LEMMA Vista ==
  ASSUME NEW s, Es(s, head, next, data, elements_count, usadas)
  PROVE  /\ CuentaYCadena
         /\ Contenido = Datos(s, data)
         /\ elements_count = Len(s) /\ Len(s) \in Nat
         /\ \A k \in Nat : k <= Len(s) => Elemento(k) = EnLugar(s, k)
  <1>1. s \in Seq(Celdas) /\ elements_count = Len(s) /\ Len(s) \in Nat
    BY DEF Es, Hilada
  <1>2. \A k \in Nat : A(k) = EnLugar(s, k)
    BY PorCaminos, CaminoPorLaLista DEF Es
  <1>3. CuentaYCadena
    BY <1>1, PorCaminos, Visita DEF CuentaYCadena
  <1>4. Contenido = Datos(s, data)
    BY PorCaminos, Visita
  <1>5. ASSUME NEW k \in Nat, k <= Len(s) PROVE Elemento(k) = EnLugar(s, k)
    BY <1>1, <1>2, <1>5 DEF Elemento, EnLugar
  <1> QED BY <1>1, <1>3, <1>4, <1>5

-----------------------------------------------------------------------------
(* The operations on the sequence of cells.                                  *)

\* Two sequences that are s with e at i are the same.
LEMMA InsertadoUnico ==
  ASSUME NEW S, NEW s \in Seq(S), NEW t \in Seq(S), NEW r \in Seq(S), NEW e,
         NEW i \in 1..(Len(s) + 1), Insertado(t, s, i, e), Insertado(r, s, i, e)
  PROVE  t = r
  <1>1. Len(t) = Len(r) /\ Len(s) \in Nat /\ Len(t) = Len(s) + 1
    BY DEF Insertado
  <1>2. ASSUME NEW j \in 1..Len(t) PROVE t[j] = r[j]
    <2>1. j \in 1..(i - 1) \/ j = i \/ j \in (i + 1)..(Len(s) + 1)
      BY <1>1
    <2> QED BY <2>1 DEF Insertado
  <1> QED BY <1>1, <1>2, SeqEqual

\* Two sequences that are s without the element at i are the same.
LEMMA QuitadoUnico ==
  ASSUME NEW S, NEW s \in Seq(S), NEW t \in Seq(S), NEW r \in Seq(S),
         NEW i \in 1..Len(s), Quitado(t, s, i), Quitado(r, s, i)
  PROVE  t = r
  <1>1. Len(t) = Len(r) /\ Len(s) \in Nat /\ Len(t) = Len(s) - 1
    BY DEF Quitado
  <1>2. ASSUME NEW j \in 1..Len(t) PROVE t[j] = r[j]
    <2>1. j \in 1..(i - 1) \/ j \in i..(Len(s) - 1)
      BY <1>1
    <2> QED BY <2>1 DEF Quitado
  <1> QED BY <1>1, <1>2, SeqEqual

\* Data of cells are what may be stored.
LEMMA DatosTipo ==
  ASSUME NEW s \in Seq(Celdas), NEW d \in [Celdas -> Dato]
  PROVE  /\ Datos(s, d) \in Seq(Dato) /\ Len(Datos(s, d)) = Len(s)
         /\ \A k \in 1..Len(s) : Datos(s, d)[k] = d[s[k]]
  <1>1. Len(s) \in Nat /\ \A k \in 1..Len(s) : s[k] \in Celdas
    OBVIOUS
  <1> QED BY <1>1 DEF Datos

\* c is linked to the place i, and to what was there.
Enlazada(s, h, nx, n, i, c, h1, nx1) ==
  /\ h1 = IF i = 0 THEN c ELSE h
  /\ nx1 \in [Celdas -> Celdas \cup {Nada}]
  /\ nx1[c] = EnLugar(s, i)
  /\ i > 0 => nx1[s[i]] = c
  /\ \A k \in 1..n : k # i => nx1[s[k]] = nx[s[k]]

\* The link to the place i leads to the place after it.
Salteada(s, h, nx, n, i, h1, nx1) ==
  /\ h1 = IF i = 0 THEN nx[s[1]] ELSE h
  /\ nx1 \in [Celdas -> Celdas \cup {Nada}]
  /\ i > 0 => nx1[s[i]] = nx[s[i + 1]]
  /\ \A k \in 1..n : k # i => nx1[s[k]] = nx[s[k]]

\* The state is s with v in the cell c at the place i.
ConElemento(s, d, n, u, i, c, v, h1, nx1) ==
  \E t \in Seq(Celdas) :
    /\ Es(t, h1, nx1, [d EXCEPT ![c] = v], n + 1, u \cup {c})
    /\ Datos(t, [d EXCEPT ![c] = v]) = InsertAt(Datos(s, d), i + 1, v)

\* The state is s without its element at the place i.
SinElemento(s, d, n, u, i, h1, nx1) ==
  \E t \in Seq(Celdas) :
    /\ Es(t, h1, nx1, d, n - 1, u \ {s[i + 1]})
    /\ Datos(t, d) = RemoveAt(Datos(s, d), i + 1)

\* A new cell linked at i is an element inserted.
LEMMA Inserta ==
  ASSUME NEW s, NEW h, NEW nx, NEW d, NEW n, NEW u, Es(s, h, nx, d, n, u),
         NEW i \in 0..n, NEW c \in Celdas \ u, NEW v \in Valores,
         NEW h1, NEW nx1, Enlazada(s, h, nx, n, i, c, h1, nx1)
  PROVE  ConElemento(s, d, n, u, i, c, v, h1, nx1)
  <1> DEFINE t == InsertAt(s, i + 1, c)
             d1 == [d EXCEPT ![c] = v]
  <1> USE DEF Enlazada
  <1>0. /\ s \in Seq(Celdas) /\ Len(s) \in Nat /\ DOMAIN s = 1..Len(s) /\ n = Len(s)
        /\ \A k \in 1..Len(s) : s[k] \in Celdas /\ s[k] # c
        /\ \A j, k \in DOMAIN s : s[j] = s[k] => j = k
        /\ u = Range(s) /\ c \notin Range(s) /\ c \in Celdas
        /\ d \in [Celdas -> Dato] /\ h = EnLugar(s, 0)
        /\ \A k \in 1..Len(s) : nx[s[k]] = EnLugar(s, k)
    BY DEF Es, Hilada, Range
  <1>1. i + 1 \in 1..(Len(s) + 1)
    BY <1>0
  <1>2. t \in Seq(Celdas) /\ Insertado(t, s, i + 1, c)
    <2> HIDE DEF t
    <2> QED BY <1>0, <1>1, InsertaElementos DEF t
  <1>3. Range(t) = Range(s) \cup {c}
    <2>1. c \in Celdas /\ s \in Seq(Celdas)
      BY <1>0
    <2> HIDE DEF t
    <2> QED BY ONLY <1>1, <2>1, InsertaRango DEF t
  <1>4. \A j, k \in DOMAIN t : t[j] = t[k] => j = k
    <2> HIDE DEF t
    <2> QED BY <1>0, <1>1, InsertaUnicos DEF t
  <1> HIDE DEF t
  <1>5. /\ Len(t) = Len(s) + 1 /\ t[i + 1] = c
        /\ \A j \in 1..i : t[j] = s[j]
        /\ \A j \in (i + 2)..(Len(s) + 1) : t[j] = s[j - 1]
    <2>1. i \in Int /\ Len(s) \in Nat /\ (i + 1) - 1 = i /\ (i + 1) + 1 = i + 2
      BY <1>0, <1>1
    <2> QED BY ONLY <1>2, <2>1 DEF Insertado
  <1>6. h1 = EnLugar(t, 0)
    <2>1. CASE i = 0
      BY <1>0, <1>5, <2>1 DEF EnLugar
    <2>2. CASE i # 0
      <3>1. 1 \in 1..i /\ t[1] = s[1] /\ 0 < Len(s)
        BY <1>0, <1>1, <1>5, <2>2
      <3> QED BY <1>0, <1>5, <2>2, <3>1 DEF EnLugar
    <2> QED BY <2>1, <2>2
  <1>7. ASSUME NEW k \in 1..Len(t) PROVE nx1[t[k]] = EnLugar(t, k)
    <2>1. CASE k < i
      <3>1. k \in 1..i /\ k + 1 \in 1..i /\ k \in 1..Len(s) /\ k # i /\ k < Len(s) /\ k < Len(t)
        BY <1>0, <1>1, <1>5, <2>1
      <3> QED BY <1>0, <1>5, <3>1 DEF EnLugar
    <2>2. CASE k = i
      <3>1. k \in 1..i /\ k < Len(t) /\ i > 0
        BY <1>0, <1>1, <1>5, <2>2
      <3> QED BY <1>0, <1>5, <2>2, <3>1 DEF EnLugar
    <2>3. CASE k = i + 1
      <3>1. CASE i < Len(s)
        <4>1. k + 1 \in (i + 2)..(Len(s) + 1) /\ (k + 1) - 1 = i + 1 /\ k < Len(t)
          BY <1>0, <1>5, <2>3, <3>1
        <4>2. EnLugar(t, k) = s[i + 1] /\ EnLugar(s, i) = s[i + 1]
          BY <1>5, <3>1, <4>1 DEF EnLugar
        <4> QED BY <1>5, <2>3, <4>2
      <3>2. CASE ~(i < Len(s))
        <4>1. EnLugar(t, k) = Nada /\ EnLugar(s, i) = Nada
          BY <1>0, <1>1, <1>5, <2>3, <3>2 DEF EnLugar
        <4> QED BY <1>5, <2>3, <4>1
      <3> QED BY <3>1, <3>2
    <2>4. CASE k > i + 1
      <3>1. /\ k \in (i + 2)..(Len(s) + 1) /\ k - 1 \in 1..Len(s) /\ k - 1 # i
            /\ (k - 1) + 1 = k
        BY <1>0, <1>1, <1>5, <2>4
      <3>2. nx1[t[k]] = EnLugar(s, k - 1)
        BY <1>0, <1>5, <3>1
      <3>3. EnLugar(s, k - 1) = EnLugar(t, k)
        <4>1. CASE k < Len(t)
          <5>1. k + 1 \in (i + 2)..(Len(s) + 1) /\ (k + 1) - 1 = k /\ k - 1 < Len(s)
            BY <1>0, <1>1, <1>5, <3>1, <4>1
          <5>2. t[k + 1] = s[k]
            BY <1>5, <5>1
          <5> QED BY <3>1, <4>1, <5>1, <5>2 DEF EnLugar
        <4>2. CASE ~(k < Len(t))
          <5>1. ~(k - 1 < Len(s))
            BY <1>0, <1>5, <3>1, <4>2
          <5> QED BY <4>2, <5>1 DEF EnLugar
        <4> QED BY <4>1, <4>2
      <3> QED BY <3>2, <3>3
    <2>5. k \in Int /\ i \in Int
      BY <1>0, <1>1, <1>5
    <2> QED BY <2>1, <2>2, <2>3, <2>4, <2>5
  <1>8. Hilada(t, h1, nx1)
    BY <1>2, <1>4, <1>6, <1>7 DEF Hilada
  <1>9. d1 \in [Celdas -> Dato] /\ d1[c] = v /\ \A x \in Celdas \ {c} : d1[x] = d[x]
    BY <1>0 DEF Dato
  <1>10. Es(t, h1, nx1, d1, n + 1, u \cup {c})
    BY <1>0, <1>3, <1>5, <1>8, <1>9 DEF Es
  <1>11. Datos(t, d1) = InsertAt(Datos(s, d), i + 1, v)
    <2> DEFINE D == Datos(s, d)
               E == Datos(t, d1)
    <2> HIDE DEF d1
    <2>1. /\ D \in Seq(Dato) /\ Len(D) = Len(s)
          /\ \A k \in 1..Len(s) : D[k] = d[s[k]]
      BY <1>0, DatosTipo
    <2>2. /\ E \in Seq(Dato) /\ Len(E) = Len(s) + 1
          /\ \A k \in 1..(Len(s) + 1) : E[k] = d1[t[k]]
      BY <1>2, <1>5, <1>9, DatosTipo
    <2> HIDE DEF D, E
    <2>3. Insertado(E, D, i + 1, v)
      <3>1. ASSUME NEW j \in 1..i PROVE E[j] = D[j]
        <4>1. j \in 1..Len(s) /\ j \in 1..(Len(s) + 1)
          BY <1>0, <1>1
        <4> QED BY <1>0, <1>5, <1>9, <2>1, <2>2, <4>1
      <3>2. E[i + 1] = v
        BY <1>1, <1>5, <1>9, <2>2
      <3>3. ASSUME NEW j \in (i + 2)..(Len(s) + 1) PROVE E[j] = D[j - 1]
        <4>1. j - 1 \in 1..Len(s) /\ j \in 1..(Len(s) + 1)
          BY <1>0, <1>1
        <4>2. t[j] = s[j - 1] /\ s[j - 1] \in Celdas \ {c}
          BY <1>0, <1>5, <4>1
        <4>3. E[j] = d[s[j - 1]]
          BY <1>9, <2>2, <4>1, <4>2
        <4> QED BY <2>1, <4>1, <4>3
      <3>4. (i + 1) - 1 = i /\ (i + 1) + 1 = i + 2
        BY <1>1
      <3> QED BY <2>1, <2>2, <3>1, <3>2, <3>3, <3>4 DEF Insertado
    <2> DEFINE F == InsertAt(D, i + 1, v)
    <2>4. v \in Dato
      BY DEF Dato
    <2>5. F \in Seq(Dato) /\ Insertado(F, D, i + 1, v)
      <3> HIDE DEF F
      <3> QED BY <1>1, <2>1, <2>4, InsertaElementos DEF F
    <2> HIDE DEF F
    <2>6. E = F
      BY <1>1, <2>1, <2>2, <2>3, <2>5, InsertadoUnico
    <2> QED BY <2>6 DEF D, E, F
  <1> QED BY <1>2, <1>10, <1>11 DEF ConElemento

\* A cell unlinked from i is an element removed.
LEMMA Quita ==
  ASSUME NEW s, NEW h, NEW nx, NEW d, NEW n, NEW u, Es(s, h, nx, d, n, u),
         NEW i \in 0..(n - 1),
         NEW h1, NEW nx1, Salteada(s, h, nx, n, i, h1, nx1)
  PROVE  SinElemento(s, d, n, u, i, h1, nx1)
  <1> DEFINE t == RemoveAt(s, i + 1)
  <1> USE DEF Salteada
  <1>0. /\ s \in Seq(Celdas) /\ Len(s) \in Nat /\ DOMAIN s = 1..Len(s) /\ n = Len(s)
        /\ \A k \in 1..Len(s) : s[k] \in Celdas
        /\ \A j, k \in DOMAIN s : s[j] = s[k] => j = k
        /\ u = Range(s) /\ d \in [Celdas -> Dato] /\ h = EnLugar(s, 0)
        /\ \A k \in 1..Len(s) : nx[s[k]] = EnLugar(s, k)
    BY DEF Es, Hilada, Range
  <1>1. i + 1 \in 1..Len(s) /\ i \in Nat
    BY <1>0
  <1>2. t \in Seq(Celdas) /\ Quitado(t, s, i + 1)
    <2>1. s \in Seq(Celdas)
      BY <1>0
    <2> HIDE DEF t
    <2> QED BY ONLY <1>1, <2>1, QuitaElementos DEF t
  <1> HIDE DEF t
  <1>3. /\ Len(t) = Len(s) - 1 /\ DOMAIN t = 1..(Len(s) - 1)
        /\ \A j \in 1..i : t[j] = s[j]
        /\ \A j \in (i + 1)..(Len(s) - 1) : t[j] = s[j + 1]
    BY <1>2, <1>1 DEF Quitado
  <1>4. \A j \in DOMAIN t : \E k \in DOMAIN s :
          t[j] = s[k] /\ k # i + 1 /\ (j = IF k <= i THEN k ELSE k - 1)
    <2> SUFFICES ASSUME NEW j \in 1..(Len(s) - 1)
                 PROVE  \E k \in 1..Len(s) :
                   t[j] = s[k] /\ k # i + 1 /\ (j = IF k <= i THEN k ELSE k - 1)
      BY <1>0, <1>3
    <2>1. CASE j <= i
      <3>1. j \in 1..i /\ j \in 1..Len(s) /\ j # i + 1
        BY <1>0, <1>1, <2>1
      <3> QED BY <1>3, <2>1, <3>1
    <2>2. CASE ~(j <= i)
      <3>1. /\ j \in (i + 1)..(Len(s) - 1) /\ j + 1 \in 1..Len(s) /\ j + 1 # i + 1
            /\ ~(j + 1 <= i) /\ (j + 1) - 1 = j
        BY <1>0, <1>1, <2>2
      <3> QED BY <1>3, <3>1
    <2> QED BY <2>1, <2>2
  <1>5. \A j, k \in DOMAIN t : t[j] = t[k] => j = k
    BY <1>0, <1>4
  <1>6. Range(t) = Range(s) \ {s[i + 1]}
    <2>1. ASSUME NEW j \in DOMAIN t PROVE t[j] \in Range(s) \ {s[i + 1]}
      <3>1. PICK k \in DOMAIN s : t[j] = s[k] /\ k # i + 1
        BY <1>4
      <3>2. i + 1 \in DOMAIN s /\ s[k] # s[i + 1]
        BY <1>0, <1>1, <3>1
      <3> QED BY <3>1, <3>2 DEF Range
    <2>2. ASSUME NEW k \in 1..Len(s), k # i + 1 PROVE s[k] \in Range(t)
      <3>1. CASE k <= i
        <4>1. k \in 1..i /\ k \in DOMAIN t
          BY <1>0, <1>1, <1>3, <3>1
        <4> QED BY <1>3, <4>1 DEF Range
      <3>2. CASE ~(k <= i)
        <4>1. k - 1 \in (i + 1)..(Len(s) - 1) /\ k - 1 \in DOMAIN t /\ (k - 1) + 1 = k
          BY <1>0, <1>1, <1>3, <2>2, <3>2
        <4>2. s[k] = t[k - 1]
          BY <1>3, <4>1
        <4> QED BY <4>1, <4>2 DEF Range
      <3> QED BY <3>1, <3>2
    <2>3. ASSUME NEW x \in Range(s) \ {s[i + 1]} PROVE x \in Range(t)
      <3>1. PICK k \in 1..Len(s) : x = s[k]
        BY <1>0 DEF Range
      <3> QED BY <2>2, <2>3, <3>1
    <2>4. ASSUME NEW x \in Range(t) PROVE x \in Range(s) \ {s[i + 1]}
      <3>1. PICK j \in DOMAIN t : x = t[j]
        BY DEF Range
      <3> QED BY <2>1, <3>1
    <2> QED BY <2>3, <2>4
  <1>7. h1 = EnLugar(t, 0)
    <2>1. CASE i = 0
      <3>1. h1 = EnLugar(s, 1)
        BY <1>0, <1>1, <2>1
      <3>2. CASE Len(s) > 1
        <4>1. 1 \in (i + 1)..(Len(s) - 1) /\ t[1] = s[1 + 1]
          BY <1>0, <1>3, <2>1, <3>2
        <4> QED BY <1>0, <1>3, <3>1, <3>2, <4>1 DEF EnLugar
      <3>3. CASE ~(Len(s) > 1)
        BY <1>0, <1>3, <3>1, <3>3 DEF EnLugar
      <3> QED BY <3>2, <3>3
    <2>2. CASE i # 0
      <3>1. 1 \in 1..i /\ t[1] = s[1] /\ 0 < Len(s) /\ 0 < Len(t)
        BY <1>0, <1>1, <1>3, <2>2
      <3> QED BY <1>0, <2>2, <3>1 DEF EnLugar
    <2> QED BY <2>1, <2>2
  <1>8. ASSUME NEW k \in 1..Len(t) PROVE nx1[t[k]] = EnLugar(t, k)
    <2>0. k \in 1..(Len(s) - 1) /\ k \in Int
      BY <1>3
    <2>1. CASE k < i
      <3>1. k \in 1..i /\ k + 1 \in 1..i /\ k \in 1..Len(s) /\ k # i /\ k < Len(s) /\ k < Len(t)
        BY <1>0, <1>1, <1>3, <2>0, <2>1
      <3> QED BY <1>0, <1>3, <3>1 DEF EnLugar
    <2>2. ASSUME k >= i, k + 1 \in 1..Len(s), nx1[t[k]] = EnLugar(s, k + 1)
          PROVE  nx1[t[k]] = EnLugar(t, k)
      <3>1. CASE k < Len(t)
        <4>1. k + 1 \in (i + 1)..(Len(s) - 1) /\ k + 1 < Len(s)
          BY <1>0, <1>1, <1>3, <2>0, <2>2, <3>1
        <4>2. t[k + 1] = s[(k + 1) + 1]
          BY <1>3, <4>1
        <4> QED BY <2>2, <3>1, <4>1, <4>2 DEF EnLugar
      <3>2. CASE ~(k < Len(t))
        <4>1. ~(k + 1 < Len(s))
          BY <1>0, <1>3, <2>0, <3>2
        <4> QED BY <2>2, <3>2, <4>1 DEF EnLugar
      <3> QED BY <3>1, <3>2
    <2>3. CASE k = i
      <3>1. k \in 1..i /\ i > 0 /\ k + 1 \in 1..Len(s)
        BY <1>0, <1>1, <2>0, <2>3
      <3>2. nx1[t[k]] = EnLugar(s, k + 1)
        BY <1>0, <1>3, <2>3, <3>1
      <3> QED BY <2>2, <2>3, <3>1, <3>2
    <2>4. CASE k > i
      <3>1. k \in (i + 1)..(Len(s) - 1) /\ k + 1 \in 1..Len(s) /\ k + 1 # i
        BY <1>0, <1>1, <2>0, <2>4
      <3>2. nx1[t[k]] = EnLugar(s, k + 1)
        BY <1>0, <1>3, <3>1
      <3> QED BY <2>2, <2>4, <3>1, <3>2
    <2> QED BY <1>1, <2>0, <2>1, <2>3, <2>4
  <1>9. Es(t, h1, nx1, d, n - 1, u \ {s[i + 1]})
    BY <1>0, <1>2, <1>3, <1>5, <1>6, <1>7, <1>8 DEF Es, Hilada
  <1>10. Datos(t, d) = RemoveAt(Datos(s, d), i + 1)
    <2> DEFINE D == Datos(s, d)
               E == Datos(t, d)
    <2>1. /\ D \in Seq(Dato) /\ Len(D) = Len(s)
          /\ \A k \in 1..Len(s) : D[k] = d[s[k]]
      BY <1>0, DatosTipo
    <2>2. /\ E \in Seq(Dato) /\ Len(E) = Len(s) - 1
          /\ \A k \in 1..(Len(s) - 1) : E[k] = d[t[k]]
      <3>1. t \in Seq(Celdas) /\ Len(t) = Len(s) - 1 /\ d \in [Celdas -> Dato]
        BY <1>0, <1>2, <1>3
      <3> QED BY ONLY <3>1, DatosTipo
    <2> HIDE DEF D, E
    <2>3. Quitado(E, D, i + 1)
      <3>1. ASSUME NEW j \in 1..i PROVE E[j] = D[j]
        <4>1. j \in 1..Len(s) /\ j \in 1..(Len(s) - 1)
          BY <1>0, <1>1
        <4>2. E[j] = d[s[j]]
          BY <1>3, <2>2, <4>1
        <4> QED BY <2>1, <4>1, <4>2
      <3>2. ASSUME NEW j \in (i + 1)..(Len(s) - 1) PROVE E[j] = D[j + 1]
        <4>1. j + 1 \in 1..Len(s) /\ j \in 1..(Len(s) - 1)
          BY <1>0, <1>1
        <4>2. E[j] = d[s[j + 1]]
          BY <1>3, <2>2, <4>1
        <4> QED BY <2>1, <4>1, <4>2
      <3>3. (i + 1) - 1 = i
        BY <1>1
      <3> QED BY <2>1, <2>2, <3>1, <3>2, <3>3 DEF Quitado
    <2> DEFINE F == RemoveAt(D, i + 1)
    <2>4. F \in Seq(Dato) /\ Quitado(F, D, i + 1)
      <3>1. i + 1 \in 1..Len(D)
        BY <1>1, <2>1
      <3> HIDE DEF F
      <3> QED BY ONLY <3>1, <2>1, QuitaElementos DEF F
    <2> HIDE DEF F
    <2>5. i + 1 \in 1..Len(D)
      BY <1>1, <2>1
    <2>6. E = F
      BY ONLY <2>1, <2>2, <2>3, <2>4, <2>5, QuitadoUnico
    <2> QED BY <2>6 DEF D, E, F
  <1> QED BY <1>2, <1>9, <1>10 DEF SinElemento

-----------------------------------------------------------------------------
(* The operations of list.c.                                                 *)

\* What is known when the next state is t.
LEMMA Queda ==
  ASSUME NEW t \in Seq(Celdas),
         Es(t, head', next', data', elements_count', usadas')
  PROVE  Inv' /\ Contenido' = Datos(t, data')
  BY PorCaminos, Visita DEF Inv

\* list_add_in_index.
LEMMA PasoInserta ==
  ASSUME NEW s \in Seq(Celdas), Es(s, head, next, data, elements_count, usadas),
         NEW i \in 0..elements_count, NEW v \in Valores, list_add_in_index(i, v)
  PROVE  Inv' /\ Contenido' = InsertAt(Contenido, i + 1, v)
  <1>1. PICK c \in Celdas :
          /\ Crea(c, v)
          /\ IF i = 0
               THEN head' = c /\ next' = [next EXCEPT ![c] = head]
               ELSE /\ next' = [Enlaza(next, Elemento(i - 1), c) EXCEPT ![c] = Elemento(i)]
                    /\ UNCHANGED head
          /\ elements_count' = elements_count + 1
    BY DEF list_add_in_index
  <1>2. /\ c \in Celdas \ usadas /\ usadas' = usadas \cup {c}
        /\ data' = [data EXCEPT ![c] = v]
    BY <1>1 DEF Crea
  <1>3. /\ elements_count = Len(s) /\ Len(s) \in Nat /\ Contenido = Datos(s, data)
        /\ \A k \in Nat : k <= Len(s) => Elemento(k) = EnLugar(s, k)
    BY Vista
  <1>4. /\ \A k \in 1..Len(s) : s[k] \in Celdas /\ s[k] # c /\ s[k] # Nada
        /\ \A j, k \in 1..Len(s) : s[j] = s[k] => j = k
        /\ head = EnLugar(s, 0)
        /\ next \in [Celdas -> Celdas \cup {Nada}]
    <2>1. DOMAIN s = 1..Len(s) /\ usadas = Range(s) /\ Hilada(s, head, next)
          /\ next \in [Celdas -> Celdas \cup {Nada}]
      BY DEF Es
    <2>2. ASSUME NEW k \in 1..Len(s) PROVE s[k] \in Celdas /\ s[k] # c /\ s[k] # Nada
      <3>1. s[k] \in usadas /\ s[k] \in Celdas
        BY <2>1 DEF Range
      <3> QED BY <1>2, <3>1, ListaAssumption
    <2> QED BY <2>1, <2>2 DEF Hilada
  <1>5. EnLugar(s, i) \in Celdas \cup {Nada}
    <2>1. i < Len(s) => i + 1 \in 1..Len(s)
      BY <1>3
    <2> QED BY <1>4, <2>1 DEF EnLugar
  <1>6. /\ head' = IF i = 0 THEN c ELSE head
        /\ next' \in [Celdas -> Celdas \cup {Nada}]
        /\ next'[c] = EnLugar(s, i)
        /\ i > 0 => next'[s[i]] = c
        /\ \A k \in 1..elements_count : k # i => next'[s[k]] = next[s[k]]
    <2>1. CASE i = 0
      <3>1. next' = [next EXCEPT ![c] = EnLugar(s, i)] /\ head' = c
        BY <1>1, <1>4, <2>1
      <3> QED BY <1>2, <1>3, <1>4, <1>5, <2>1, <3>1
    <2>2. CASE i # 0
      <3>1. i \in 1..Len(s) /\ i - 1 \in Nat /\ i - 1 < Len(s) /\ (i - 1) + 1 = i
        BY <1>3, <2>2
      <3>2. Elemento(i - 1) = s[i] /\ Elemento(i) = EnLugar(s, i)
        BY <1>3, <3>1 DEF EnLugar
      <3>3. next' = [[next EXCEPT ![s[i]] = c] EXCEPT ![c] = EnLugar(s, i)] /\ head' = head
        BY <1>1, <1>4, <2>2, <3>1, <3>2 DEF Enlaza
      <3>4. /\ next' \in [Celdas -> Celdas \cup {Nada}] /\ next'[c] = EnLugar(s, i)
            /\ next'[s[i]] = c
            /\ \A x \in Celdas : x # c /\ x # s[i] => next'[x] = next[x]
        BY <1>2, <1>4, <1>5, <3>1, <3>3
      <3> QED BY <1>3, <1>4, <2>2, <3>1, <3>3, <3>4
    <2> QED BY <2>1, <2>2
  <1>7. ConElemento(s, data, elements_count, usadas, i, c, v, head', next')
    <2>1. /\ Es(s, head, next, data, elements_count, usadas)
          /\ i \in 0..elements_count /\ c \in Celdas \ usadas /\ v \in Valores
      BY <1>2
    <2>2. Enlazada(s, head, next, elements_count, i, c, head', next')
      BY <1>6 DEF Enlazada
    <2> QED BY ONLY <2>1, <2>2, Inserta
  <1>8. PICK t \in Seq(Celdas) :
          /\ Es(t, head', next', [data EXCEPT ![c] = v], elements_count + 1, usadas \cup {c})
          /\ Datos(t, [data EXCEPT ![c] = v]) = InsertAt(Datos(s, data), i + 1, v)
    BY <1>7 DEF ConElemento
  <1>9. /\ Es(t, head', next', data', elements_count', usadas')
        /\ Datos(t, data') = InsertAt(Contenido, i + 1, v)
    BY <1>1, <1>2, <1>3, <1>8
  <1> QED BY <1>9, Queda

\* list_add is list_add_in_index after the last.
LEMMA PasoAgrega ==
  ASSUME NEW s \in Seq(Celdas), Es(s, head, next, data, elements_count, usadas),
         NEW v \in Valores, list_add(v)
  PROVE  Inv' /\ Contenido' = InsertAt(Contenido, elements_count + 1, v)
  <1>1. PICK c \in Celdas :
          /\ Crea(c, v)
          /\ IF elements_count = 0
               THEN head' = c /\ next' = [next EXCEPT ![c] = Nada]
               ELSE /\ next' = Enlaza([next EXCEPT ![c] = Nada],
                                      Elemento(elements_count - 1), c)
                    /\ UNCHANGED head
          /\ elements_count' = elements_count + 1
    BY DEF list_add
  <1>2. c \in Celdas \ usadas
    BY <1>1 DEF Crea
  <1>3. /\ elements_count = Len(s) /\ Len(s) \in Nat
        /\ \A k \in Nat : k <= Len(s) => Elemento(k) = EnLugar(s, k)
    BY Vista
  <1>4. /\ \A k \in 1..Len(s) : s[k] \in Celdas /\ s[k] # c /\ s[k] # Nada
        /\ head = EnLugar(s, 0) /\ next \in [Celdas -> Celdas \cup {Nada}]
    BY <1>2, ListaAssumption DEF Es, Hilada, Range
  <1>5. Elemento(elements_count) = Nada
    BY <1>3 DEF EnLugar
  <1>6. list_add_in_index(elements_count, v)
    <2>1. CASE elements_count = 0
      <3>1. head = Nada
        BY <1>3, <1>4, <2>1 DEF EnLugar
      <3> QED BY <1>1, <2>1, <3>1 DEF list_add_in_index
    <2>2. CASE elements_count # 0
      <3>1. /\ Len(s) \in 1..Len(s) /\ Len(s) - 1 \in Nat /\ Len(s) - 1 < Len(s)
            /\ (Len(s) - 1) + 1 = Len(s)
        BY <1>3, <2>2
      <3>2. Elemento(elements_count - 1) = s[Len(s)]
        BY <1>3, <3>1 DEF EnLugar
      <3>3. [[next EXCEPT ![c] = Nada] EXCEPT ![s[Len(s)]] = c]
              = [[next EXCEPT ![s[Len(s)]] = c] EXCEPT ![c] = Nada]
        BY <1>2, <1>4, <3>1
      <3>4. next' = [Enlaza(next, Elemento(elements_count - 1), c) EXCEPT ![c] = Nada]
        BY <1>1, <1>4, <2>2, <3>1, <3>2, <3>3 DEF Enlaza
      <3> QED BY <1>1, <1>5, <2>2, <3>4 DEF list_add_in_index
    <2> QED BY <2>1, <2>2
  <1>7. elements_count \in 0..elements_count
    BY <1>3
  <1> QED BY <1>6, <1>7, PasoInserta

\* list_remove.
LEMMA PasoQuita ==
  ASSUME NEW s \in Seq(Celdas), Es(s, head, next, data, elements_count, usadas),
         NEW i \in 0..(elements_count - 1), list_remove(i)
  PROVE  Inv' /\ Contenido' = RemoveAt(Contenido, i + 1)
  <1>1. /\ elements_count = Len(s) /\ Len(s) \in Nat /\ Contenido = Datos(s, data)
        /\ \A k \in Nat : k <= Len(s) => Elemento(k) = EnLugar(s, k)
    BY Vista
  <1>2. i \in Nat /\ i < Len(s) /\ i + 1 \in 1..Len(s)
    BY <1>1
  <1>3. Elemento(i) = s[i + 1]
    BY <1>1, <1>2 DEF EnLugar
  <1>4. /\ IF i = 0
             THEN head' = next[s[i + 1]] /\ UNCHANGED next
             ELSE next' = Enlaza(next, Elemento(i - 1), next[s[i + 1]]) /\ UNCHANGED head
        /\ elements_count' = elements_count - 1
        /\ usadas' = usadas \ {s[i + 1]} /\ data' = data
    BY <1>3 DEF list_remove
  <1>5. /\ \A k \in 1..Len(s) : s[k] \in Celdas /\ s[k] # Nada
        /\ \A j, k \in 1..Len(s) : s[j] = s[k] => j = k
        /\ next \in [Celdas -> Celdas \cup {Nada}]
    BY ListaAssumption DEF Es, Hilada
  <1>6. /\ head' = IF i = 0 THEN next[s[1]] ELSE head
        /\ next' \in [Celdas -> Celdas \cup {Nada}]
        /\ i > 0 => next'[s[i]] = next[s[i + 1]]
        /\ \A k \in 1..elements_count : k # i => next'[s[k]] = next[s[k]]
    <2>1. CASE i = 0
      BY <1>4, <1>5, <2>1
    <2>2. CASE i # 0
      <3>1. i \in 1..Len(s) /\ i - 1 \in Nat /\ i - 1 < Len(s) /\ (i - 1) + 1 = i
        BY <1>1, <1>2, <2>2
      <3>2. Elemento(i - 1) = s[i]
        BY <1>1, <3>1 DEF EnLugar
      <3>3. next' = [next EXCEPT ![s[i]] = next[s[i + 1]]] /\ head' = head
        BY <1>4, <1>5, <2>2, <3>1, <3>2 DEF Enlaza
      <3>4. /\ next' \in [Celdas -> Celdas \cup {Nada}]
            /\ next'[s[i]] = next[s[i + 1]]
            /\ \A x \in Celdas : x # s[i] => next'[x] = next[x]
        BY <1>2, <1>5, <3>1, <3>3
      <3> QED BY <1>1, <1>5, <2>2, <3>1, <3>3, <3>4
    <2> QED BY <2>1, <2>2
  <1>7. SinElemento(s, data, elements_count, usadas, i, head', next')
    <2>1. Es(s, head, next, data, elements_count, usadas) /\ i \in 0..(elements_count - 1)
      OBVIOUS
    <2>2. Salteada(s, head, next, elements_count, i, head', next')
      BY <1>6 DEF Salteada
    <2> QED BY ONLY <2>1, <2>2, Quita
  <1>8. PICK t \in Seq(Celdas) :
          /\ Es(t, head', next', data, elements_count - 1, usadas \ {s[i + 1]})
          /\ Datos(t, data) = RemoveAt(Datos(s, data), i + 1)
    BY <1>7 DEF SinElemento
  <1>9. /\ Es(t, head', next', data', elements_count', usadas')
        /\ Datos(t, data') = RemoveAt(Contenido, i + 1)
    BY <1>1, <1>4, <1>8
  <1> QED BY <1>9, Queda

\* list_replace.
LEMMA PasoReemplaza ==
  ASSUME NEW s \in Seq(Celdas), Es(s, head, next, data, elements_count, usadas),
         NEW i \in 0..elements_count, NEW v \in Valores, list_replace(i, v)
  PROVE  /\ Inv'
         /\ Contenido' = IF i < elements_count THEN ReplaceAt(Contenido, i + 1, v)
                         ELSE Contenido
  <1>1. /\ elements_count = Len(s) /\ Len(s) \in Nat /\ Contenido = Datos(s, data)
        /\ Elemento(i) = EnLugar(s, i) /\ i \in Nat
    BY Vista
  <1>2. /\ \A k \in 1..Len(s) : s[k] \in Celdas /\ s[k] # Nada
        /\ \A j, k \in 1..Len(s) : s[j] = s[k] => j = k
        /\ data \in [Celdas -> Dato] /\ v \in Dato
    BY ListaAssumption DEF Es, Hilada, Dato
  <1>3. /\ data' = IF Elemento(i) = Nada THEN data ELSE [data EXCEPT ![Elemento(i)] = v]
        /\ UNCHANGED <<head, next, elements_count, usadas>>
    BY DEF list_replace
  <1>4. CASE i < elements_count
    <2>1. i + 1 \in 1..Len(s) /\ Elemento(i) = s[i + 1]
      BY <1>1, <1>4 DEF EnLugar
    <2>2. data' = [data EXCEPT ![s[i + 1]] = v] /\ data' \in [Celdas -> Dato]
      BY <1>2, <1>3, <2>1
    <2>3. Es(s, head', next', data', elements_count', usadas')
      BY <1>3, <2>2 DEF Es
    <2>4. Contenido' = Datos(s, data') /\ Inv'
      BY <2>3, Queda
    <2>5. ASSUME NEW k \in 1..Len(s)
          PROVE  data'[s[k]] = IF k = i + 1 THEN v ELSE data[s[k]]
      BY <1>2, <2>1, <2>2
    <2>6. Datos(s, data') = [Datos(s, data) EXCEPT ![i + 1] = v]
      BY <2>1, <2>5 DEF Datos
    <2> QED BY <1>1, <1>4, <2>4, <2>6 DEF ReplaceAt
  <1>5. CASE ~(i < elements_count)
    <2>1. Elemento(i) = Nada /\ data' = data
      BY <1>1, <1>3, <1>5 DEF EnLugar
    <2>2. Es(s, head', next', data', elements_count', usadas')
      BY <1>3, <2>1
    <2> QED BY <1>1, <1>5, <2>1, <2>2, Queda
  <1> QED BY <1>4, <1>5

\* list_clean.
LEMMA PasoLimpia ==
  ASSUME NEW s \in Seq(Celdas), Es(s, head, next, data, elements_count, usadas),
         list_clean
  PROVE  Inv' /\ Contenido' = <<>>
  <1>1. Alcanzadas = usadas
    BY Vista DEF CuentaYCadena
  <1>2. /\ head' = Nada /\ elements_count' = 0 /\ usadas' = {}
        /\ next' = next /\ data' = data
    BY <1>1 DEF list_clean
  <1>3. <<>> \in Seq(Celdas) /\ Len(<<>>) = 0 /\ Range(<<>>) = {}
    BY DEF Range
  <1>4. Hilada(<<>>, Nada, next)
    BY <1>3 DEF Hilada, EnLugar
  <1>5. Es(<<>>, head', next', data', elements_count', usadas')
    BY <1>2, <1>3, <1>4 DEF Es
  <1>6. Datos(<<>>, data') = <<>>
    BY <1>3 DEF Datos
  <1> QED BY <1>3, <1>5, <1>6, Queda

\* list_remove_by_condition takes the first that is v.
LEMMA PasoQuitaValor ==
  ASSUME NEW s \in Seq(Celdas), Es(s, head, next, data, elements_count, usadas),
         NEW v \in Valores, list_remove_by_condition(v)
  PROVE  Inv' /\ Contenido' = RemoveFirst(Contenido, v)
  <1>1. PICK i \in 0..(elements_count - 1) :
          /\ data[Elemento(i)] = v /\ \A j \in 0..(i - 1) : data[Elemento(j)] # v
          /\ list_remove(i)
    BY DEF list_remove_by_condition
  <1>2. Inv' /\ Contenido' = RemoveAt(Contenido, i + 1)
    BY <1>1, PasoQuita
  <1>3. /\ elements_count = Len(s) /\ Len(s) \in Nat /\ Contenido = Datos(s, data)
        /\ \A k \in Nat : k <= Len(s) => Elemento(k) = EnLugar(s, k)
    BY Vista
  <1>4. Len(Contenido) = Len(s) /\ \A k \in 1..Len(s) : Contenido[k] = data[s[k]]
    BY <1>3, DatosTipo DEF Es
  <1>5. \A k \in 0..(Len(s) - 1) : data[Elemento(k)] = Contenido[k + 1]
    <2> SUFFICES ASSUME NEW k \in 0..(Len(s) - 1)
                 PROVE  data[Elemento(k)] = Contenido[k + 1]
      OBVIOUS
    <2>1. k \in Nat /\ k < Len(s) /\ k + 1 \in 1..Len(s)
      BY <1>3
    <2> QED BY <1>3, <1>4, <2>1 DEF EnLugar
  <1>6. /\ i + 1 \in 1..Len(Contenido) /\ Contenido[i + 1] = v
        /\ \A j \in 1..Len(Contenido) : Contenido[j] = v => i + 1 <= j
    <2>1. i + 1 \in 1..Len(Contenido) /\ Contenido[i + 1] = v
      BY <1>1, <1>3, <1>4, <1>5
    <2>2. ASSUME NEW j \in 1..Len(Contenido), Contenido[j] = v PROVE i + 1 <= j
      <3>1. j - 1 \in 0..(Len(s) - 1) /\ (j - 1) + 1 = j
        BY <1>3, <1>4
      <3>2. data[Elemento(j - 1)] = v
        BY <1>5, <2>2, <3>1
      <3>3. j - 1 \notin 0..(i - 1)
        BY <1>1, <3>2
      <3> QED BY <1>3, <3>1, <3>3
    <2> QED BY <2>1, <2>2
  <1> DEFINE P == {k \in 1..Len(Contenido) : Contenido[k] = v}
  <1>7. Min(P) = i + 1
    <2>1. i + 1 \in P /\ \A j \in P : i + 1 <= j
      BY <1>6
    <2>2. \A j \in P : j \in Int
      BY <1>3, <1>4
    <2> HIDE DEF P
    <2> QED BY <2>1, <2>2 DEF Min
  <1>8. SelectInSeq(Contenido, LAMBDA x : x = v) = i + 1
    <2>1. P # {}
      BY <1>6
    <2> QED BY <1>7, <2>1 DEF SelectInSeq
  <1>9. RemoveFirst(Contenido, v) = RemoveAt(Contenido, i + 1)
    BY <1>6, <1>8 DEF RemoveFirst
  <1> QED BY <1>2, <1>9

\* list_ordered_insert finds the place that Listas gives it.
LEMMA PasoOrdenado ==
  ASSUME NEW s \in Seq(Celdas), Es(s, head, next, data, elements_count, usadas),
         NEW v \in Valores, list_ordered_insert(v)
  PROVE  Inv' /\ Contenido' = L!InsertaOrdenado(Contenido, v, Menor)
  <1>1. /\ elements_count = Len(s) /\ Len(s) \in Nat /\ Contenido = Datos(s, data)
        /\ \A k \in Nat : k <= Len(s) => Elemento(k) = EnLugar(s, k)
    BY Vista
  <1>2. Len(Contenido) = Len(s) /\ \A k \in 1..Len(s) : Contenido[k] = data[s[k]]
    BY <1>1, DatosTipo DEF Es
  <1>3. \A k \in 0..(Len(s) - 1) : data[Elemento(k)] = Contenido[k + 1]
    <2> SUFFICES ASSUME NEW k \in 0..(Len(s) - 1)
                 PROVE  data[Elemento(k)] = Contenido[k + 1]
      OBVIOUS
    <2>1. k \in Nat /\ k < Len(s) /\ k + 1 \in 1..Len(s)
      BY <1>1
    <2> QED BY <1>1, <1>2, <2>1 DEF EnLugar
  <1>4. Despues(v) = {k \in 0..(Len(s) - 1) : <<v, Contenido[k + 1]>> \in Menor}
    BY <1>1, <1>3 DEF Despues
  <1> DEFINE Lugar(k) == /\ k <= Len(Contenido) => <<v, Contenido[k]>> \in Menor
                         /\ \A i \in 1..(k - 1) : <<v, Contenido[i]>> \notin Menor
  <1>5. ASSUME NEW m \in 1..(Len(Contenido) + 1), Lugar(m)
        PROVE  L!InsertaOrdenado(Contenido, v, Menor) = InsertAt(Contenido, m, v)
    <2>1. ASSUME NEW k \in 1..(Len(Contenido) + 1), Lugar(k) PROVE k = m
      <3>1. CASE k < m
        <4>1. k \in 1..(m - 1) /\ k <= Len(Contenido)
          BY <1>1, <1>2, <3>1
        <4> QED BY <1>5, <2>1, <4>1
      <3>2. CASE m < k
        <4>1. m \in 1..(k - 1) /\ m <= Len(Contenido)
          BY <1>1, <1>2, <3>2
        <4> QED BY <1>5, <2>1, <4>1
      <3> QED BY <1>1, <1>2, <3>1, <3>2
    <2>2. (CHOOSE k \in 1..(Len(Contenido) + 1) : Lugar(k)) = m
      <3> HIDE DEF Lugar
      <3> QED BY <1>5, <2>1
    <2>3. L!LugarDeInsercion(Contenido, v, Menor) = m
      BY <2>2 DEF L!LugarDeInsercion
    <2> QED BY <2>3 DEF L!InsertaOrdenado, L!InsertAt, InsertAt
  <1>6. CASE Despues(v) = {}
    <2>1. list_add(v)
      BY <1>6 DEF list_ordered_insert
    <2>2. Inv' /\ Contenido' = InsertAt(Contenido, Len(Contenido) + 1, v)
      BY <1>1, <1>2, <2>1, PasoAgrega
    <2>3. ASSUME NEW i \in 1..Len(Contenido) PROVE <<v, Contenido[i]>> \notin Menor
      <3>1. i - 1 \in 0..(Len(s) - 1) /\ (i - 1) + 1 = i
        BY <1>1, <1>2
      <3> QED BY <1>4, <1>6, <3>1
    <2>4. Len(Contenido) + 1 \in 1..(Len(Contenido) + 1) /\ Lugar(Len(Contenido) + 1)
      BY <1>1, <1>2, <2>3
    <2> QED BY <1>5, <2>2, <2>4
  <1>7. CASE Despues(v) # {}
    <2>1. PICK m \in Despues(v) : \A j \in Despues(v) : m <= j
      <3>1. Despues(v) \subseteq Nat
        BY <1>4
      <3> QED BY <1>7, <3>1, Minimo
    <2>2. (CHOOSE k \in Despues(v) : \A j \in Despues(v) : k <= j) = m
      <3>1. \A k \in Despues(v) : k \in Nat
        BY <1>4
      <3> QED BY <2>1, <3>1
    <2>3. list_add_in_index(m, v)
      BY <1>7, <2>2 DEF list_ordered_insert
    <2>4. m \in 0..(Len(s) - 1) /\ m \in 0..elements_count /\ <<v, Contenido[m + 1]>> \in Menor
      BY <1>1, <1>4, <2>1
    <2>5. Inv' /\ Contenido' = InsertAt(Contenido, m + 1, v)
      BY <2>3, <2>4, PasoInserta
    <2>6. ASSUME NEW i \in 1..((m + 1) - 1) PROVE <<v, Contenido[i]>> \notin Menor
      <3>1. i - 1 \in 0..(Len(s) - 1) /\ (i - 1) + 1 = i /\ ~(m <= i - 1)
        BY <1>1, <2>4
      <3> QED BY <1>4, <2>1, <3>1
    <2>7. m + 1 \in 1..(Len(Contenido) + 1) /\ Lugar(m + 1)
      BY <1>1, <1>2, <2>4, <2>6
    <2> QED BY <1>5, <2>5, <2>7
  <1> QED BY <1>6, <1>7

-----------------------------------------------------------------------------
(* The theorems.                                                             *)

\* The new list is the empty sequence.
LEMMA Inicial == Init => Inv /\ Contenido = <<>>
  <1> SUFFICES ASSUME Init PROVE Inv /\ Contenido = <<>>
    OBVIOUS
  <1>1. <<>> \in Seq(Celdas) /\ Len(<<>>) = 0 /\ Range(<<>>) = {}
    BY DEF Range
  <1>2. Hilada(<<>>, head, next)
    BY <1>1 DEF Hilada, EnLugar, Init
  <1>3. Es(<<>>, head, next, data, elements_count, usadas)
    BY <1>1, <1>2 DEF Es, Init, Dato
  <1>4. Datos(<<>>, data) = <<>>
    BY <1>1 DEF Datos
  <1> QED BY <1>1, <1>3, <1>4, Vista DEF Inv

\* Every operation leads from a sequence of cells to another.
LEMMA Paso == Inv /\ [Next]_vars => Inv'
  <1> SUFFICES ASSUME Inv, [Next]_vars PROVE Inv'
    OBVIOUS
  <1>0. PICK s \in Seq(Celdas) : Es(s, head, next, data, elements_count, usadas)
    BY DEF Inv
  <1>1. CASE UNCHANGED vars
    <2>1. Es(s, head', next', data', elements_count', usadas')
      BY <1>0, <1>1 DEF vars
    <2> QED BY <2>1, Queda
  <1>2. ASSUME NEW v \in Valores, list_add(v) PROVE Inv'
    BY <1>0, <1>2, PasoAgrega
  <1>3. ASSUME NEW v \in Valores, list_ordered_insert(v) PROVE Inv'
    BY <1>0, <1>3, PasoOrdenado
  <1>4. ASSUME NEW v \in Valores, list_remove_by_condition(v) PROVE Inv'
    BY <1>0, <1>4, PasoQuitaValor
  <1>5. ASSUME NEW i \in 0..elements_count, NEW v \in Valores, list_add_in_index(i, v)
        PROVE  Inv'
    BY <1>0, <1>5, PasoInserta
  <1>6. ASSUME NEW i \in 0..elements_count, NEW v \in Valores, list_replace(i, v)
        PROVE  Inv'
    BY <1>0, <1>6, PasoReemplaza
  <1>7. ASSUME NEW i \in 0..(elements_count - 1), list_remove(i) PROVE Inv'
    BY <1>0, <1>7, PasoQuita
  <1>8. CASE list_clean
    BY <1>0, <1>8, PasoLimpia
  <1> QED BY <1>1, <1>2, <1>3, <1>4, <1>5, <1>6, <1>7, <1>8 DEF Next

\* The links are always those of one sequence of cells.
THEOREM Invariante == Spec => []Inv
  <1>1. Init => Inv
    BY Inicial
  <1> QED BY <1>1, Paso, PTL DEF Spec

\* The count that every walk trusts is the length of the chain, and no cell is
\* lost, whatever cells were freed and used again.
THEOREM CadenaCorrecta == Spec => []CuentaYCadena
  <1>1. Inv => CuentaYCadena
    BY Vista DEF Inv
  <1> QED BY <1>1, Invariante, PTL

\* What an operation does to what list_iterate visits.
Promesa ==
  /\ \A v \in Valores :
       /\ list_add(v) => Contenido' = Append(Contenido, v)
       /\ list_ordered_insert(v) =>
            Contenido' = L!InsertaOrdenado(Contenido, v, Menor)
       /\ list_remove_by_condition(v) => Contenido' = RemoveFirst(Contenido, v)
       /\ \A i \in 0..elements_count :
            /\ list_add_in_index(i, v) => Contenido' = InsertAt(Contenido, i + 1, v)
            /\ list_replace(i, v) =>
                 Contenido' = IF i < elements_count THEN ReplaceAt(Contenido, i + 1, v)
                              ELSE Contenido
  /\ \A i \in 0..(elements_count - 1) :
       list_remove(i) => Contenido' = RemoveAt(Contenido, i + 1)
  /\ list_clean => Contenido' = <<>>

\* Each operation does what its name promises from any state of the invariant.
LEMMA Cumple == Inv => Promesa
  <1> SUFFICES ASSUME Inv PROVE Promesa
    OBVIOUS
  <1>0. PICK s \in Seq(Celdas) : Es(s, head, next, data, elements_count, usadas)
    BY DEF Inv
  <1>1. ASSUME NEW v \in Valores, list_add(v) PROVE Contenido' = Append(Contenido, v)
    <2>1. Contenido' = InsertAt(Contenido, elements_count + 1, v)
      BY <1>0, <1>1, PasoAgrega
    <2>2. Contenido \in Seq(Dato) /\ Len(Contenido) = elements_count /\ v \in Dato
      BY <1>0, Vista, DatosTipo DEF Es, Dato
    <2> QED BY <2>1, <2>2, InsertaAlFinal
  <1>2. ASSUME NEW v \in Valores, list_ordered_insert(v)
        PROVE  Contenido' = L!InsertaOrdenado(Contenido, v, Menor)
    BY <1>0, <1>2, PasoOrdenado
  <1>3. ASSUME NEW v \in Valores, list_remove_by_condition(v)
        PROVE  Contenido' = RemoveFirst(Contenido, v)
    BY <1>0, <1>3, PasoQuitaValor
  <1>4. ASSUME NEW v \in Valores, NEW i \in 0..elements_count, list_add_in_index(i, v)
        PROVE  Contenido' = InsertAt(Contenido, i + 1, v)
    BY <1>0, <1>4, PasoInserta
  <1>5. ASSUME NEW v \in Valores, NEW i \in 0..elements_count, list_replace(i, v)
        PROVE  Contenido' = IF i < elements_count THEN ReplaceAt(Contenido, i + 1, v)
                            ELSE Contenido
    BY <1>0, <1>5, PasoReemplaza
  <1>6. ASSUME NEW i \in 0..(elements_count - 1), list_remove(i)
        PROVE  Contenido' = RemoveAt(Contenido, i + 1)
    BY <1>0, <1>6, PasoQuita
  <1>7. ASSUME list_clean PROVE Contenido' = <<>>
    BY <1>0, <1>7, PasoLimpia
  <1> QED BY <1>1, <1>2, <1>3, <1>4, <1>5, <1>6, <1>7 DEF Promesa

\* The list is the sequence its users take it for.
THEOREM Secuencia == Spec => ImplementaSecuencia
  <1>1. Init => Contenido = <<>>
    BY Inicial
  <1>2. Inv => [Promesa]_vars
    BY Cumple
  <1> QED BY <1>1, <1>2, Invariante, PTL DEF Spec, ImplementaSecuencia, Promesa

-----------------------------------------------------------------------------
(*                               network.c                                   *)
-----------------------------------------------------------------------------
(* Numbers and their digits.                                                 *)

\* Quotient and remainder, and that there is one of each.
LEMMA Cociente ==
  ASSUME NEW m \in Nat \ {0}, NEW h \in Int
  PROVE  h % m \in 0..(m - 1) /\ h \div m \in Int /\ h = m * (h \div m) + (h % m)
  OBVIOUS

LEMMA UnCociente ==
  ASSUME NEW m \in Nat \ {0}, NEW q \in Int, NEW r \in 0..(m - 1), NEW h \in Int,
         h = m * q + r
  PROVE  h \div m = q /\ h % m = r
  <1>1. h % m \in 0..(m - 1) /\ h \div m \in Int /\ h = m * (h \div m) + (h % m)
    BY Cociente
  <1> DEFINE e == (h \div m) - q
  <1>2. m * e = r - (h % m) /\ e \in Int
    BY <1>1
  <1>3. r - (h % m) < m /\ r - (h % m) > -m
    BY <1>1
  <1>4. e = 0
    <2> HIDE DEF e
    <2>1. e < 1 /\ e > -1
      BY <1>2, <1>3
    <2> QED BY <1>2, <2>1
  <1> QED BY <1>1, <1>2, <1>4

\* A quotient of a quotient.
LEMMA DobleCociente ==
  ASSUME NEW b \in Nat \ {0}, NEW p \in Nat \ {0}, NEW n \in Nat, NEW d, d = b * p
  PROVE  n \div d = (n \div b) \div p
  <1>1. PICK v \in Int, r \in 0..(b - 1) : v = n \div b /\ n = b * v + r
    BY Cociente
  <1>2. PICK a \in Int, c \in 0..(p - 1) : a = v \div p /\ v = p * a + c
    BY Cociente
  <1>3. d \in Nat \ {0}
    OBVIOUS
  <1>4. b * c + r \in 0..(d - 1)
    <2>1. b * c <= b * (p - 1) /\ b * c >= 0
      OBVIOUS
    <2>2. b * (p - 1) = d - b
      OBVIOUS
    <2>3. b * c \in Int
      OBVIOUS
    <2> QED BY <1>3, <2>1, <2>2, <2>3
  <1>5. n = d * a + (b * c + r)
    <2>1. b * v = b * (p * a) + b * c
      BY <1>2
    <2>2. b * (p * a) = d * a
      OBVIOUS
    <2> QED BY <1>1, <2>1, <2>2
  <1>6. n \div d = a
    <2>1. PICK x \in 0..(d - 1) : x = b * c + r
      BY <1>4
    <2> QED BY ONLY <1>3, <1>5, <2>1, UnCociente, a \in Int, n \in Nat
  <1> QED BY <1>1, <1>2, <1>6

\* The recursion of Potencia.
LEMMA PotenciaPasos ==
  /\ Potencia \in [0..H -> Nat \ {0}] /\ Potencia[0] = 1
  /\ \A k \in 1..H : Potencia[k] = Base * Potencia[k - 1]
  <1> DEFINE F == [k \in 1..H |-> [x \in Nat \ {0} |-> Base * x]]
             ecuacion(f) == [k \in 0..H |-> IF k = 0 THEN 1 ELSE Base * f[k - 1]]
  <1>0. H \in Nat \ {0} /\ Base \in Nat \ {0}
    BY RedAssumption
  <1>1. PICK f \in [0..H -> Nat \ {0}] : Recurre(f, 1, H, F)
    <2>1. F \in [1..H -> [Nat \ {0} -> Nat \ {0}]] /\ 1 \in Nat \ {0}
      BY <1>0
    <2> HIDE DEF F
    <2> QED BY <1>0, <2>1, Recursion
  <1>2. f = ecuacion(f)
    <2>1. ASSUME NEW k \in 1..H PROVE f[k] = Base * f[k - 1]
      <3>1. f[k - 1] \in Nat \ {0}
        BY <1>0
      <3> QED BY <1>1, <3>1 DEF Recurre
    <2>2. f[0] = 1
      BY <1>1 DEF Recurre
    <2> HIDE DEF F
    <2> QED BY <1>0, <2>1, <2>2
  <1>3. Potencia = ecuacion(Potencia)
    <2>1. Potencia = CHOOSE g : g = ecuacion(g)
      BY DEF Potencia
    <2> HIDE DEF ecuacion
    <2> QED BY <1>2, <2>1
  <1>4. /\ Potencia[0] = 1
        /\ \A k \in 1..H : Potencia[k] = Base * Potencia[k - 1]
    BY <1>0, <1>3
  <1>5. \A k \in 0..H : Potencia[k] \in Nat \ {0}
    <2> DEFINE T == {k \in Nat : k <= H => Potencia[k] \in Nat \ {0}}
    <2>1. 0 \in T
      BY <1>4
    <2>2. ASSUME NEW k \in Nat, k \in T PROVE k + 1 \in T
      <3> SUFFICES ASSUME k + 1 <= H PROVE Potencia[k + 1] \in Nat \ {0}
        OBVIOUS
      <3>1. PICK x \in Nat \ {0} : x = Potencia[k]
        BY <1>0, <2>2
      <3>2. Potencia[k + 1] = Base * x
        BY <1>0, <1>4, <3>1
      <3> QED BY <1>0, <3>2
    <2>3. \A k \in Nat : k \in T
      <3> HIDE DEF T
      <3> QED BY <2>1, <2>2, Induccion
    <2> QED BY <1>0, <2>3
  <1>6. Potencia = [k \in 0..H |-> Potencia[k]]
    BY <1>3
  <1> QED BY <1>4, <1>5, <1>6

\* A number is what its digits say.
Cifras(h) ==
  \A v, w \in 0..(Potencia[h] - 1) :
    (\A k \in 0..(h - 1) : Digito(v, k) = Digito(w, k)) => v = w

\* The digits of a number without the last are those of its quotient by Base.
LEMMA CifraSiguiente ==
  ASSUME NEW v \in Nat, NEW k \in 0..(H - 1), k + 1 <= H
  PROVE  Digito(v, k + 1) = Digito(v \div Base, k)
  <1>1. PICK b \in Nat \ {0} : b = Base
    BY RedAssumption
  <1>2. H \in Nat /\ k \in 0..H /\ k + 1 \in 1..H /\ (k + 1) - 1 = k
    BY RedAssumption
  <1>3. PICK p \in Nat \ {0} : p = Potencia[k]
    BY <1>2, PotenciaPasos
  <1>4. PICK d : d = Potencia[k + 1]
    OBVIOUS
  <1>5. d = b * p
    BY <1>1, <1>2, <1>3, <1>4, PotenciaPasos
  <1>6. v \div d = (v \div b) \div p
    BY ONLY <1>5, DobleCociente, v \in Nat, b \in Nat \ {0}, p \in Nat \ {0}
  <1> QED BY <1>1, <1>3, <1>4, <1>6 DEF Digito

LEMMA CifrasDeUnoMas ==
  ASSUME NEW h \in Nat, h + 1 <= H, Cifras(h)
  PROVE  Cifras(h + 1)
  <1> SUFFICES ASSUME NEW v \in 0..(Potencia[h + 1] - 1), NEW w \in 0..(Potencia[h + 1] - 1),
                      \A k \in 0..h : Digito(v, k) = Digito(w, k)
               PROVE  v = w
    BY DEF Cifras
  <1>1. PICK b \in Nat \ {0} : b = Base
    BY RedAssumption
  <1>2. H \in Nat /\ h \in 0..H /\ h + 1 \in 1..H /\ (h + 1) - 1 = h
    BY RedAssumption
  <1>3. PICK p \in Nat \ {0} : p = Potencia[h]
    BY <1>2, PotenciaPasos
  <1>4. PICK d \in Nat : d = Potencia[h + 1] /\ d = b * p
    BY <1>1, <1>2, <1>3, PotenciaPasos
  <1>5. v \in Nat /\ w \in Nat /\ v < d /\ w < d
    BY <1>4
  <1>6. ASSUME NEW x \in Nat, x < d
        PROVE  /\ x \div b \in 0..(p - 1) /\ x % b \in Int
               /\ x = b * (x \div b) + (x % b) /\ Digito(x, 0) = x % b
    <2>0. x % b \in 0..(b - 1) /\ x \div b \in Int /\ x = b * (x \div b) + (x % b)
      BY ONLY Cociente, x \in Nat, b \in Nat \ {0}
    <2>1. PICK q \in Int, r \in 0..(b - 1) : q = x \div b /\ r = x % b /\ x = b * q + r
      BY ONLY <2>0
    <2>2. q \in 0..(p - 1)
      <3>1. b * q <= x /\ b * q > -b
        BY <2>1
      <3>2. b * q < b * p
        BY <1>4, <1>6, <2>1, <3>1
      <3>3. q < p /\ q > -1
        BY ONLY <3>1, <3>2, q \in Int, p \in Nat, b \in Nat \ {0}
      <3> QED BY <3>3
    <2>3. x \div 1 = x
      BY ONLY UnCociente, x \in Nat, x = 1 * x + 0
    <2>4. Digito(x, 0) = x % b
      BY <1>1, <2>3, PotenciaPasos DEF Digito
    <2> QED BY <2>1, <2>2, <2>4
  <1>7. v \div b = w \div b
    <2>1. \A k \in 0..(h - 1) : Digito(v \div b, k) = Digito(w \div b, k)
      <3> SUFFICES ASSUME NEW k \in 0..(h - 1)
                   PROVE  Digito(v \div b, k) = Digito(w \div b, k)
        OBVIOUS
      <3>1. k \in 0..(H - 1) /\ k + 1 <= H /\ k + 1 \in 0..h
        BY <1>2
      <3> QED BY <1>1, <1>5, <3>1, CifraSiguiente
    <2>2. v \div b \in 0..(p - 1) /\ w \div b \in 0..(p - 1)
      BY <1>5, <1>6
    <2> QED BY <1>3, <2>1, <2>2 DEF Cifras
  <1>8. v % b = w % b
    <2>1. 0 \in 0..h
      OBVIOUS
    <2> QED BY <1>5, <1>6, <2>1
  <1> QED BY <1>5, <1>6, <1>7, <1>8

\* The length of a message is read back from its digits.
LEMMA CifrasDelLargo == Cifras(H)
  <1> DEFINE T == {h \in Nat : h <= H => Cifras(h)}
  <1>0. H \in Nat
    BY RedAssumption
  <1>1. 0 \in T
    <2>1. Potencia[0] = 1
      BY PotenciaPasos
    <2>2. \A v, w \in 0..(Potencia[0] - 1) : v = w
      BY <2>1
    <2> QED BY <2>2 DEF Cifras
  <1>2. ASSUME NEW h \in Nat, h \in T PROVE h + 1 \in T
    BY <1>0, <1>2, CifrasDeUnoMas
  <1> HIDE DEF T
  <1>3. H \in T
    BY <1>0, <1>1, <1>2, Induccion
  <1> QED BY <1>3 DEF T

-----------------------------------------------------------------------------
\* Concatenation, as an operator of which only this is known: the provers know
\* too much of the other.
Une(s, t) == s \o t

LEMMA Unir ==
  ASSUME NEW S, NEW s \in Seq(S), NEW t \in Seq(S)
  PROVE  /\ Une(s, t) \in Seq(S) /\ Len(Une(s, t)) = Len(s) + Len(t)
         /\ Une(s, <<>>) = s /\ Une(<<>>, s) = s
         /\ \A u \in Seq(S) : Une(Une(s, t), u) = Une(s, Une(t, u))
         /\ \A u \in Seq(S) : Une(s, t) = Une(s, u) => t = u
  <1>1. s \o t \in Seq(S) /\ Len(s \o t) = Len(s) + Len(t)
    BY ConcatProperties
  <1>2. ASSUME NEW u \in Seq(S) PROVE (s \o t) \o u = s \o (t \o u)
    BY ConcatAssociative
  <1>3. ASSUME NEW u \in Seq(S), s \o t = s \o u PROVE t = u
    <2>1. \A x, y, z \in Seq(S) : x \o y = x \o z => y = z
      BY ConcatSimplifications
    <2> QED BY <1>3, <2>1
  <1>4. s \o <<>> = s /\ <<>> \o s = s
    BY ConcatEmptySeq
  <1> QED BY <1>1, <1>2, <1>3, <1>4 DEF Une

-----------------------------------------------------------------------------
(* Messages on the wire.                                                     *)

Byte == [m : Int, k : Int, d : Int]
Mensaje == [archivo : BOOLEAN, largo : 1..(Potencia[H] - 1)]

CabeceraDe(ms, m) ==
  [k \in 1..H |-> [m |-> m, k |-> k - 1 - H, d |-> Digito(ms[m].largo, k - 1)]]
CuerpoDe(ms, m) == [k \in 1..ms[m].largo |-> [m |-> m, k |-> k, d |-> 0]]
TramaDe(ms, m) == Une(CabeceraDe(ms, m), CuerpoDe(ms, m))

\* The bytes of the first n messages, for each n.
Tramas(ms) ==
  LET hasta[n \in 0..Len(ms)] ==
        IF n = 0 THEN <<>> ELSE Une(hasta[n - 1], TramaDe(ms, n))
  IN hasta

LEMMA DigitoEntero ==
  ASSUME NEW v \in Nat, NEW k \in 0..(H - 1)
  PROVE  Digito(v, k) \in Int
  <1>1. PICK b \in Nat \ {0} : b = Base
    BY RedAssumption
  <1>2. PICK p \in Nat \ {0} : p = Potencia[k]
    BY PotenciaPasos, RedAssumption
  <1>3. v \div p \in Int
    BY ONLY Cociente, v \in Nat, p \in Nat \ {0}
  <1>4. (v \div p) % b \in Int
    BY ONLY <1>3, Cociente, b \in Nat \ {0}
  <1> QED BY <1>1, <1>2, <1>4 DEF Digito

LEMMA TramaBien ==
  ASSUME NEW ms \in Seq(Mensaje), NEW m \in 1..Len(ms)
  PROVE  /\ ms[m].largo \in 1..(Potencia[H] - 1) /\ ms[m].largo \in Nat /\ Potencia[H] \in Nat
         /\ CabeceraDe(ms, m) \in Seq(Byte) /\ Len(CabeceraDe(ms, m)) = H
         /\ CuerpoDe(ms, m) \in Seq(Byte) /\ Len(CuerpoDe(ms, m)) = ms[m].largo
         /\ TramaDe(ms, m) \in Seq(Byte)
  <1>1. ms[m] \in Mensaje /\ m \in Int
    OBVIOUS
  <1>2. H \in Nat /\ H \in 0..H /\ Potencia[H] \in Nat
    BY PotenciaPasos, RedAssumption
  <1>3. ms[m].largo \in 1..(Potencia[H] - 1)
    BY <1>1 DEF Mensaje
  <1>4. PICK l \in Nat : l = ms[m].largo
    BY <1>2, <1>3
  <1>5. CabeceraDe(ms, m) \in Seq(Byte) /\ Len(CabeceraDe(ms, m)) = H
    <2>1. ASSUME NEW k \in 1..H
          PROVE  [m |-> m, k |-> k - 1 - H, d |-> Digito(l, k - 1)] \in Byte
      <3>1. k - 1 \in 0..(H - 1) /\ k - 1 - H \in Int
        BY <1>2
      <3> QED BY <1>1, <3>1, DigitoEntero DEF Byte
    <2> DEFINE c == [k \in 1..H |-> [m |-> m, k |-> k - 1 - H, d |-> Digito(l, k - 1)]]
    <2>2. c \in [1..H -> Byte]
      BY <2>1
    <2>3. c \in Seq(Byte) /\ Len(c) = H
      <3> HIDE DEF c
      <3> QED BY <1>2, <2>2
    <2> QED BY <1>4, <2>3 DEF CabeceraDe
  <1>6. CuerpoDe(ms, m) \in Seq(Byte) /\ Len(CuerpoDe(ms, m)) = l
    <2> DEFINE c == [k \in 1..l |-> [m |-> m, k |-> k, d |-> 0]]
    <2>1. c \in [1..l -> Byte]
      BY <1>1 DEF Byte
    <2>2. c \in Seq(Byte) /\ Len(c) = l
      <3> HIDE DEF c
      <3> QED BY <2>1
    <2> QED BY <1>4, <2>2 DEF CuerpoDe
  <1>7. TramaDe(ms, m) \in Seq(Byte)
    BY <1>5, <1>6, Unir DEF TramaDe
  <1> QED BY <1>2, <1>3, <1>4, <1>5, <1>6, <1>7

\* The recursion of Tramas.
LEMMA TramasPasos ==
  ASSUME NEW ms \in Seq(Mensaje)
  PROVE  /\ Tramas(ms)[0] = <<>>
         /\ \A n \in 0..Len(ms) : Tramas(ms)[n] \in Seq(Byte)
         /\ \A n \in 1..Len(ms) : Tramas(ms)[n] = Une(Tramas(ms)[n - 1], TramaDe(ms, n))
  <1> DEFINE N == Len(ms)
             Sigue(n, t) == Une(t, TramaDe(ms, n))
             F == [n \in 1..N |-> [t \in Seq(Byte) |-> Sigue(n, t)]]
             ecuacion(f) == [n \in 0..N |-> IF n = 0 THEN <<>> ELSE Sigue(n, f[n - 1])]
  <1>0. N \in Nat /\ <<>> \in Seq(Byte)
    OBVIOUS
  <1>a. ASSUME NEW n \in 1..N, NEW t \in Seq(Byte) PROVE Une(t, TramaDe(ms, n)) \in Seq(Byte)
    <2>1. TramaDe(ms, n) \in Seq(Byte)
      BY TramaBien
    <2> QED BY <2>1, Unir
  <1>1. PICK f \in [0..N -> Seq(Byte)] : Recurre(f, <<>>, N, F)
    <2>1. F \in [1..N -> [Seq(Byte) -> Seq(Byte)]]
      <3> HIDE DEF N
      <3> QED BY <1>a
    <2> HIDE DEF F, N, Sigue
    <2> QED BY <1>0, <2>1, Recursion
  <1>2. f = ecuacion(f)
    <2> HIDE DEF Sigue
    <2>1. ASSUME NEW n \in 1..N PROVE f[n] = Sigue(n, f[n - 1])
      <3>1. f[n - 1] \in Seq(Byte)
        BY <1>0
      <3>2. f[n] = F[n][f[n - 1]]
        BY <1>1 DEF Recurre
      <3> HIDE DEF N
      <3> QED BY <3>1, <3>2
    <2>2. f[0] = <<>>
      BY <1>1 DEF Recurre
    <2>3. \A n \in 0..N : n = 0 \/ n \in 1..N
      BY <1>0
    <2>4. \A n \in 0..N : f[n] = ecuacion(f)[n]
      <3> HIDE DEF F, N
      <3> QED BY ONLY <2>1, <2>2, <2>3
    <2>5. f = [n \in 0..N |-> f[n]]
      OBVIOUS
    <2> HIDE DEF F, N, ecuacion
    <2>6. ecuacion(f) = [n \in 0..N |-> ecuacion(f)[n]]
      BY DEF ecuacion
    <2> QED BY ONLY <2>4, <2>5, <2>6
  <1>3. Tramas(ms) = ecuacion(Tramas(ms))
    <2>1. Tramas(ms) = CHOOSE g : g = ecuacion(g)
      BY DEF Tramas
    <2> HIDE DEF ecuacion
    <2> QED BY <1>2, <2>1
  <1>4. PICK g : g = Tramas(ms)
    OBVIOUS
  <1>5. g[0] = <<>> /\ \A n \in 1..N : g[n] = Une(g[n - 1], TramaDe(ms, n))
    <2>1. g = ecuacion(g)
      BY <1>3, <1>4
    <2>2. g[0] = <<>> /\ \A n \in 1..N : g[n] = Sigue(n, g[n - 1])
      <3> HIDE DEF N, Sigue
      <3> QED BY <1>0, <2>1
    <2> HIDE DEF N
    <2> QED BY <2>2
  <1>6. \A n \in 0..N : g[n] \in Seq(Byte)
    <2> DEFINE T == {n \in Nat : n <= N => g[n] \in Seq(Byte)}
    <2> HIDE DEF N
    <2>1. 0 \in T
      BY <1>0, <1>5
    <2>2. ASSUME NEW n \in Nat, n \in T PROVE n + 1 \in T
      <3> SUFFICES ASSUME n + 1 <= N PROVE g[n + 1] \in Seq(Byte)
        OBVIOUS
      <3>1. n + 1 \in 1..N /\ (n + 1) - 1 = n /\ n <= N
        BY <1>0
      <3>2. g[n] \in Seq(Byte) /\ g[n + 1] = Une(g[n], TramaDe(ms, n + 1))
        BY <1>5, <2>2, <3>1
      <3> QED BY <1>a, <3>1, <3>2
    <2>3. \A n \in Nat : n \in T
      <3> HIDE DEF T
      <3> QED BY <2>1, <2>2, Induccion
    <2> QED BY <1>0, <2>3
  <1> QED BY <1>4, <1>5, <1>6

\* What follows the first e messages begins with the next one.
LEMMA TramasSiguen ==
  ASSUME NEW ms \in Seq(Mensaje), NEW e \in Nat, NEW a \in 0..Len(ms), e < a
  PROVE  \E x \in Seq(Byte) : Tramas(ms)[a] = Une(Tramas(ms)[e], Une(TramaDe(ms, e + 1), x))
  <1>1. PICK g : g = Tramas(ms)
    OBVIOUS
  <1>2. PICK n \in Nat : n = Len(ms)
    OBVIOUS
  <1>3. /\ \A i \in 0..n : g[i] \in Seq(Byte)
        /\ \A i \in 1..n : g[i] = Une(g[i - 1], TramaDe(ms, i)) /\ TramaDe(ms, i) \in Seq(Byte)
    BY <1>1, <1>2, TramasPasos, TramaBien
  <1> DEFINE Bien(b) == \E x \in Seq(Byte) : g[b] = Une(g[e], Une(TramaDe(ms, e + 1), x))
             T == {i \in Nat : \A b \in Nat : b = e + 1 + i /\ b <= a => Bien(b)}
  <1>4. 0 \in T
    <2> SUFFICES ASSUME NEW b \in Nat, b = e + 1 + 0, b <= a PROVE Bien(b)
      OBVIOUS
    <2>1. b \in 1..n /\ e \in 0..n /\ b - 1 = e /\ b = e + 1
      BY <1>2
    <2>2. PICK t \in Seq(Byte) : t = TramaDe(ms, e + 1)
      BY <1>3, <2>1
    <2>3. Une(t, <<>>) = t /\ <<>> \in Seq(Byte)
      BY Unir
    <2>4. g[b] = Une(g[e], Une(t, <<>>))
      BY <1>3, <2>1, <2>2, <2>3
    <2> QED BY <2>2, <2>3, <2>4
  <1>5. ASSUME NEW i \in Nat, i \in T PROVE i + 1 \in T
    <2> SUFFICES ASSUME NEW b \in Nat, b = e + 1 + (i + 1), b <= a PROVE Bien(b)
      <3> HIDE DEF Bien
      <3> QED OBVIOUS
    <2>1. b - 1 \in Nat /\ b - 1 = e + 1 + i /\ b - 1 <= a
      OBVIOUS
    <2>2. PICK x \in Seq(Byte) : g[b - 1] = Une(g[e], Une(TramaDe(ms, e + 1), x))
      BY <1>5, <2>1
    <2>3. b \in 1..n /\ e + 1 \in 1..n /\ e \in 0..n
      BY <1>2
    <2>4. PICK t \in Seq(Byte), u \in Seq(Byte) : t = TramaDe(ms, e + 1) /\ u = TramaDe(ms, b)
      BY <1>3, <2>3
    <2>5. PICK y \in Seq(Byte) : y = g[e]
      BY <1>3, <2>3
    <2>6. g[b] = Une(Une(y, Une(t, x)), u)
      BY <1>3, <2>2, <2>3, <2>4, <2>5
    <2>7. Une(Une(y, Une(t, x)), u) = Une(y, Une(t, Une(x, u))) /\ Une(x, u) \in Seq(Byte)
      BY Unir
    <2> QED BY <2>4, <2>5, <2>6, <2>7
  <1>6. \A i \in Nat : i \in T
    <2> HIDE DEF T
    <2> QED BY <1>4, <1>5, Induccion
  <1>7. a - e - 1 \in Nat /\ e + 1 + (a - e - 1) = a
    OBVIOUS
  <1>8. Bien(a)
    <2>1. PICK i \in Nat : e + 1 + i = a
      BY <1>7
    <2>2. i \in T
      <3> HIDE DEF T
      <3> QED BY <1>6
    <2> HIDE DEF Bien
    <2>3. \A b \in Nat : b = e + 1 + i /\ b <= a => Bien(b)
      BY <2>2
    <2>4. a \in Nat /\ a = e + 1 + i /\ a <= a
      BY <2>1
    <2> QED BY <2>3, <2>4
  <1> QED BY <1>1, <1>8

-----------------------------------------------------------------------------
(* Pieces of sequences.                                                      *)

\* Cutting a sequence in two.
LEMMA Corte ==
  ASSUME NEW S, NEW s \in Seq(S), NEW n \in 0..Len(s)
  PROVE  /\ Prefijo(s, n) \in Seq(S) /\ Len(Prefijo(s, n)) = n
         /\ Desde(s, n) \in Seq(S) /\ Len(Desde(s, n)) = Len(s) - n
         /\ Une(Prefijo(s, n), Desde(s, n)) = s
         /\ \A i \in 1..n : Prefijo(s, n)[i] = s[i]
  <1>1. PICK l \in Nat : l = Len(s)
    OBVIOUS
  <1>2. \A i \in 1..l : s[i] \in S
    BY <1>1
  <1>3. /\ Prefijo(s, n) \in Seq(S) /\ Len(Prefijo(s, n)) = n
        /\ \A i \in 1..n : Prefijo(s, n)[i] = s[i]
    <2>1. \A i \in 1..n : s[i] \in S
      BY <1>1, <1>2
    <2>2. SubSeq(s, 1, n) \in Seq(S) /\ Len(SubSeq(s, 1, n)) = IF 1 <= n THEN n - 1 + 1 ELSE 0
      BY <2>1, SubSeqProperties
    <2>3. \A i \in 1..(n - 1 + 1) : SubSeq(s, 1, n)[i] = s[1 + i - 1]
      BY <2>1, SubSeqProperties
    <2> QED BY <2>2, <2>3 DEF Prefijo
  <1>4. Desde(s, n) \in Seq(S) /\ Len(Desde(s, n)) = l - n
    <2>1. \A i \in (n + 1)..l : s[i] \in S
      BY <1>2
    <2>2. /\ SubSeq(s, n + 1, l) \in Seq(S)
          /\ Len(SubSeq(s, n + 1, l)) = IF n + 1 <= l THEN l - (n + 1) + 1 ELSE 0
      BY <2>1, SubSeqProperties
    <2> QED BY <1>1, <2>2 DEF Desde
  <1>5. SubSeq(s, 1, n) \o SubSeq(s, n + 1, l) = SubSeq(s, 1, l)
    <2>1. 1 \in 1..(Len(s) + 1) /\ n \in (1 - 1)..Len(s) /\ l \in n..Len(s)
      BY <1>1
    <2> QED BY <2>1, ConcatAdjacentSubSeq
  <1>6. SubSeq(s, 1, l) = s
    BY <1>1, SubSeqFull
  <1> QED BY <1>1, <1>3, <1>4, <1>5, <1>6 DEF Prefijo, Desde, Une

\* Two ways to cut one sequence have the same beginning.
LEMMA MismoComienzo ==
  ASSUME NEW S, NEW a \in Seq(S), NEW b \in Seq(S), NEW c \in Seq(S), NEW d \in Seq(S),
         Une(a, b) = Une(c, d), Len(c) <= Len(a)
  PROVE  Prefijo(a, Len(c)) = c /\ Une(Desde(a, Len(c)), b) = d
  <1>1. PICK n \in Nat : n = Len(c)
    OBVIOUS
  <1>2. n \in 0..Len(a) /\ Len(a) \in Nat
    BY <1>1
  <1>3. PICK p \in Seq(S), r \in Seq(S) : p = Prefijo(a, n) /\ r = Desde(a, n)
    BY <1>2, Corte
  <1>4. Len(p) = n /\ Une(p, r) = a /\ \A i \in 1..n : p[i] = a[i]
    BY <1>2, <1>3, Corte
  <1>5. \A i \in 1..n : (a \o b)[i] = a[i] /\ (c \o d)[i] = c[i]
    BY <1>1, <1>2, ConcatProperties
  <1>6. p = c
    <2>1. Len(p) = Len(c) /\ \A i \in 1..Len(p) : p[i] = c[i]
      BY <1>1, <1>4, <1>5 DEF Une
    <2> QED BY <2>1, SeqEqual
  <1>7. Une(Une(p, r), b) = Une(p, Une(r, b)) /\ Une(r, b) \in Seq(S)
    BY Unir
  <1>8. Une(p, Une(r, b)) = Une(p, d)
    BY <1>4, <1>6, <1>7
  <1>9. Une(r, b) = d
    BY <1>7, <1>8, Unir
  <1> QED BY <1>1, <1>3, <1>6, <1>9

-----------------------------------------------------------------------------
(* Sequences of bytes.  What the lemmas above say of them is all that the    *)
(* next ones use: that they are sequences is left out of sight.              *)

Bytes == Seq(Byte)

LEMMA Vacia ==
  /\ <<>> \in Bytes
  /\ \A s \in Bytes : Une(s, <<>>) = s /\ Une(<<>>, s) = s
  /\ \A s \in Bytes : Len(s) \in Nat /\ (Len(s) = 0 => s = <<>>) /\ (s = <<>> => Len(s) = 0)
  <1>1. ASSUME NEW s \in Seq(Byte) PROVE Une(s, <<>>) = s /\ Une(<<>>, s) = s
    BY Unir
  <1>2. <<>> \in Seq(Byte) /\ Len(<<>>) = 0
    OBVIOUS
  <1>3. ASSUME NEW s \in Seq(Byte) PROVE Len(s) \in Nat /\ (Len(s) = 0 => s = <<>>)
    OBVIOUS
  <1> QED BY <1>1, <1>2, <1>3 DEF Bytes

LEMMA Unida ==
  ASSUME NEW s \in Bytes, NEW t \in Bytes
  PROVE  Une(s, t) \in Bytes /\ Len(Une(s, t)) = Len(s) + Len(t)
  BY Unir DEF Bytes

LEMMA Asocia ==
  ASSUME NEW s \in Bytes, NEW t \in Bytes, NEW u \in Bytes
  PROVE  Une(Une(s, t), u) = Une(s, Une(t, u))
  BY Unir DEF Bytes

LEMMA Simplifica ==
  ASSUME NEW s \in Bytes, NEW t \in Bytes, NEW u \in Bytes, Une(s, t) = Une(s, u)
  PROVE  t = u
  BY Unir DEF Bytes

LEMMA CorteBytes ==
  ASSUME NEW s \in Bytes, NEW n \in 0..Len(s)
  PROVE  /\ Prefijo(s, n) \in Bytes /\ Len(Prefijo(s, n)) = n
         /\ Desde(s, n) \in Bytes /\ Len(Desde(s, n)) = Len(s) - n
         /\ Une(Prefijo(s, n), Desde(s, n)) = s
  <1>1. s \in Seq(Byte)
    BY DEF Bytes
  <1> QED BY <1>1, Corte DEF Bytes

LEMMA ComienzoBytes ==
  ASSUME NEW a \in Bytes, NEW b \in Bytes, NEW c \in Bytes, NEW d \in Bytes,
         Une(a, b) = Une(c, d), Len(c) <= Len(a)
  PROVE  Prefijo(a, Len(c)) = c /\ Une(Desde(a, Len(c)), b) = d
  <1>1. a \in Seq(Byte) /\ b \in Seq(Byte) /\ c \in Seq(Byte) /\ d \in Seq(Byte)
    BY DEF Bytes
  <1> QED BY <1>1, MismoComienzo

\* Equally long, they are equal one by one.
LEMMA MismaMitad ==
  ASSUME NEW a \in Bytes, NEW b \in Bytes, NEW c \in Bytes, NEW d \in Bytes,
         Une(a, b) = Une(c, d), Len(c) = Len(a)
  PROVE  a = c
  <1>1. Prefijo(a, Len(c)) = c
    <2>1. Len(a) \in Nat
      BY Vacia
    <2> QED BY <2>1, ComienzoBytes
  <1>2. a \in Seq(Byte) /\ SubSeq(a, 1, Len(a)) = a
    BY SubSeqFull DEF Bytes
  <1> QED BY <1>1, <1>2 DEF Prefijo

LEMMA TramaBytes ==
  ASSUME NEW ms \in Seq(Mensaje), NEW m \in 1..Len(ms)
  PROVE  /\ CabeceraDe(ms, m) \in Bytes /\ Len(CabeceraDe(ms, m)) = H
         /\ CuerpoDe(ms, m) \in Bytes /\ Len(CuerpoDe(ms, m)) = ms[m].largo
         /\ TramaDe(ms, m) \in Bytes
         /\ ms[m].largo \in 1..(Potencia[H] - 1) /\ ms[m].largo \in Nat
  BY TramaBien DEF Bytes

LEMMA TramasBytes ==
  ASSUME NEW ms \in Seq(Mensaje)
  PROVE  /\ Tramas(ms)[0] = <<>>
         /\ \A n \in 0..Len(ms) : Tramas(ms)[n] \in Bytes
         /\ \A n \in 1..Len(ms) : Tramas(ms)[n] = Une(Tramas(ms)[n - 1], TramaDe(ms, n))
         /\ \A e, a \in 0..Len(ms) : e < a =>
              \E x \in Bytes : Tramas(ms)[a] = Une(Tramas(ms)[e], Une(TramaDe(ms, e + 1), x))
  <1>1. ASSUME NEW e \in 0..Len(ms), NEW a \in 0..Len(ms), e < a
        PROVE  \E x \in Bytes : Tramas(ms)[a] = Une(Tramas(ms)[e], Une(TramaDe(ms, e + 1), x))
    <2>1. e \in Nat
      OBVIOUS
    <2> QED BY <1>1, <2>1, TramasSiguen DEF Bytes
  <1>2. /\ Tramas(ms)[0] = <<>>
        /\ \A n \in 0..Len(ms) : Tramas(ms)[n] \in Bytes
        /\ \A n \in 1..Len(ms) : Tramas(ms)[n] = Une(Tramas(ms)[n - 1], TramaDe(ms, n))
    BY TramasPasos DEF Bytes
  <1> QED BY <1>1, <1>2

-----------------------------------------------------------------------------
(* What was received, what is on its way and what is left to send.           *)

\* Of the message e + 1, what the receiver has.
EnCurso(ms, e, r, c) == IF r = "cuerpo" THEN Une(CabeceraDe(ms, e + 1), c) ELSE <<>>

\* A receiver that has e messages and c of another, with s after it, has the
\* first a messages before it.
EnOrden(ms, a, e, r, c, s) ==
  Une(Tramas(ms)[e], Une(EnCurso(ms, e, r, c), s)) = Tramas(ms)[a]

\* The sender goes on to the next message.
LEMMA OtraTrama ==
  ASSUME NEW ms \in Seq(Mensaje), NEW a \in 1..Len(ms), a + 1 <= Len(ms),
         NEW e \in 0..a, NEW r, NEW c \in Bytes, r = "cuerpo" => e < a,
         NEW s \in Bytes, EnOrden(ms, a, e, r, c, s)
  PROVE  EnOrden(ms, a + 1, e, r, c, Une(s, TramaDe(ms, a + 1)))
  <1>1. a + 1 \in 1..Len(ms) /\ (a + 1) - 1 = a /\ a \in 0..Len(ms) /\ e \in 0..Len(ms)
    OBVIOUS
  <1>2. PICK t \in Bytes : t = TramaDe(ms, a + 1)
    BY <1>1, TramaBytes
  <1>3. PICK y \in Bytes : y = Tramas(ms)[e]
    BY <1>1, TramasBytes
  <1>4. PICK x \in Bytes : x = EnCurso(ms, e, r, c)
    <2>1. CASE r = "cuerpo"
      <3>1. e + 1 \in 1..Len(ms)
        BY <2>1
      <3>2. CabeceraDe(ms, e + 1) \in Bytes
        BY <3>1, TramaBytes
      <3> QED BY <2>1, <3>2, Unida DEF EnCurso
    <2>2. CASE r # "cuerpo"
      BY <2>2, Vacia DEF EnCurso
    <2> QED BY <2>1, <2>2
  <1>5. Tramas(ms)[a + 1] = Une(Tramas(ms)[a], t)
    BY <1>1, <1>2, TramasBytes
  <1>6. Tramas(ms)[a] = Une(y, Une(x, s))
    BY <1>3, <1>4 DEF EnOrden
  <1>7. Une(Une(y, Une(x, s)), t) = Une(y, Une(x, Une(s, t)))
    BY Unida, Asocia
  <1> QED BY <1>2, <1>3, <1>4, <1>5, <1>6, <1>7 DEF EnOrden

\* The bytes of a header that arrives whole.
LEMMA CabeceraEntera ==
  ASSUME NEW ms \in Seq(Mensaje), NEW a \in 1..Len(ms), NEW e \in 0..a,
         NEW h \in Bytes, NEW p \in Bytes, H <= Len(h),
         EnOrden(ms, a, e, "cabecera", <<>>, Une(h, p))
  PROVE  /\ e < a /\ Prefijo(h, H) = CabeceraDe(ms, e + 1)
         /\ EnOrden(ms, a, e, "cuerpo", <<>>, Une(Desde(h, H), p))
  <1>0. H \in Nat \ {0} /\ Len(h) \in Nat
    BY RedAssumption
  <1>1. PICK y \in Bytes, z \in Bytes : y = Tramas(ms)[e] /\ z = Tramas(ms)[a]
    <2>1. e \in 0..Len(ms) /\ a \in 0..Len(ms)
      OBVIOUS
    <2> QED BY <2>1, TramasBytes
  <1>2. PICK hp \in Bytes : hp = Une(h, p) /\ Len(hp) = Len(h) + Len(p)
    BY Unida
  <1>3. Une(y, hp) = z
    <2>1. Une(<<>>, hp) = hp
      BY Vacia
    <2> QED BY <1>1, <1>2, <2>1 DEF EnOrden, EnCurso
  <1>4. e < a
    <2> SUFFICES ASSUME e = a PROVE FALSE
      OBVIOUS
    <2>1. Une(y, <<>>) = y /\ <<>> \in Bytes
      BY Vacia
    <2>2. hp = <<>>
      <3>1. z = y
        BY <1>1
      <3>2. Une(y, hp) = Une(y, <<>>)
        BY <1>3, <2>1, <3>1
      <3> QED BY <2>1, <3>2, Simplifica
    <2>3. Len(hp) = 0 /\ Len(p) \in Nat
      BY <2>2, Vacia
    <2> QED BY <1>0, <1>2, <2>3
  <1>5. e + 1 \in 1..Len(ms) /\ e \in Nat /\ a \in 0..Len(ms)
    BY <1>4
  <1>6. PICK b \in Bytes, u \in Bytes :
          /\ b = CabeceraDe(ms, e + 1) /\ u = CuerpoDe(ms, e + 1) /\ Len(b) = H
    BY <1>5, TramaBytes
  <1>7. PICK x \in Bytes : z = Une(y, Une(Une(b, u), x))
    BY <1>1, <1>4, <1>5, <1>6, TramasBytes DEF TramaDe
  <1>8. Une(Une(b, u), x) = Une(b, Une(u, x)) /\ Une(u, x) \in Bytes
    BY Unida, Asocia
  <1>9. PICK ux \in Bytes : ux = Une(u, x)
    BY <1>8
  <1>10. Une(h, p) = Une(b, ux)
    <2>1. Une(b, ux) \in Bytes /\ Une(y, hp) = Une(y, Une(b, ux))
      BY <1>3, <1>7, <1>8, <1>9, Unida
    <2> QED BY <1>2, <2>1, Simplifica
  <1>11. Prefijo(h, H) = b /\ Une(Desde(h, H), p) = ux
    BY <1>6, <1>10, ComienzoBytes
  <1>12. EnOrden(ms, a, e, "cuerpo", <<>>, Une(Desde(h, H), p))
    <2>1. Une(b, <<>>) = b
      BY Vacia
    <2> QED BY <1>1, <1>6, <1>7, <1>8, <1>9, <1>11, <2>1 DEF EnOrden, EnCurso
  <1> QED BY <1>4, <1>6, <1>11, <1>12

\* More of a body, and the last of it.
LEMMA MasCuerpo ==
  ASSUME NEW ms \in Seq(Mensaje), NEW a \in 1..Len(ms), NEW e \in 0..(a - 1),
         NEW c \in Bytes, NEW h \in Bytes, NEW p \in Bytes,
         NEW n \in 0..Len(h), NEW todo, todo = Une(c, Prefijo(h, n)),
         EnOrden(ms, a, e, "cuerpo", c, Une(h, p))
  PROVE  /\ EnOrden(ms, a, e, "cuerpo", todo, Une(Desde(h, n), p))
         /\ Len(todo) = ms[e + 1].largo =>
              /\ todo = CuerpoDe(ms, e + 1)
              /\ EnOrden(ms, a, e + 1, "cabecera", <<>>, Une(Desde(h, n), p))
  <1>1. e + 1 \in 1..Len(ms) /\ e \in Nat /\ a \in 0..Len(ms) /\ e < a
        /\ e \in 0..Len(ms) /\ (e + 1) - 1 = e
    OBVIOUS
  <1>2. PICK y \in Bytes, z \in Bytes : y = Tramas(ms)[e] /\ z = Tramas(ms)[a]
    BY <1>1, TramasBytes
  <1>3. PICK b \in Bytes, u \in Bytes :
          /\ b = CabeceraDe(ms, e + 1) /\ u = CuerpoDe(ms, e + 1)
          /\ Len(u) = ms[e + 1].largo
    BY <1>1, TramaBytes
  <1>4. PICK f \in Bytes, r \in Bytes :
          f = Prefijo(h, n) /\ r = Desde(h, n) /\ Une(f, r) = h
    BY CorteBytes
  <1>5. todo \in Bytes /\ todo = Une(c, f)
    BY <1>4, Unida
  <1>6. PICK rp \in Bytes : rp = Une(r, p)
    BY Unida
  <1>7. Une(Une(b, todo), rp) = Une(Une(b, c), Une(h, p))
    <2>1. Une(h, p) = Une(f, rp)
      <3>1. Une(Une(f, r), p) = Une(f, Une(r, p))
        BY Asocia
      <3> QED BY <1>4, <1>6, <3>1
    <2>2. Une(todo, rp) = Une(c, Une(f, rp))
      BY <1>5, Asocia
    <2>3. PICK k \in Bytes : k = Une(f, rp)
      BY Unida
    <2>4. Une(Une(b, c), k) = Une(b, Une(c, k)) /\ Une(Une(b, todo), rp) = Une(b, Une(todo, rp))
      BY <1>5, Asocia
    <2> QED BY <2>1, <2>2, <2>3, <2>4
  <1>8. Une(y, Une(Une(b, todo), rp)) = z
    BY <1>2, <1>3, <1>7 DEF EnOrden, EnCurso
  <1>9. EnOrden(ms, a, e, "cuerpo", todo, Une(Desde(h, n), p))
    BY <1>2, <1>3, <1>4, <1>6, <1>8 DEF EnOrden, EnCurso
  <1>10. ASSUME Len(todo) = ms[e + 1].largo
         PROVE  /\ todo = CuerpoDe(ms, e + 1)
                /\ EnOrden(ms, a, e + 1, "cabecera", <<>>, Une(Desde(h, n), p))
    <2>1. PICK x \in Bytes : z = Une(y, Une(Une(b, u), x))
      BY <1>1, <1>2, <1>3, TramasBytes DEF TramaDe
    <2>2. Une(Une(b, u), x) = Une(b, Une(u, x)) /\ Une(Une(b, todo), rp) = Une(b, Une(todo, rp))
      BY <1>5, Asocia
    <2>3. PICK v \in Bytes, w \in Bytes : v = Une(u, x) /\ w = Une(todo, rp)
      BY <1>5, Unida
    <2>4. PICK bv \in Bytes, bw \in Bytes : bv = Une(b, v) /\ bw = Une(b, w)
      BY Unida
    <2>5. Une(y, bv) = Une(y, bw)
      BY <1>8, <2>1, <2>2, <2>3, <2>4
    <2>6. bv = bw
      BY <2>5, Simplifica
    <2>7. w = v
      BY <2>4, <2>6, Simplifica
    <2>8. Une(todo, rp) = Une(u, x)
      BY <2>3, <2>7
    <2>9. todo = u
      BY <1>3, <1>5, <1>10, <2>8, MismaMitad
    <2>10. Tramas(ms)[e + 1] = Une(y, Une(b, todo))
      BY <1>1, <1>2, <1>3, <2>9, TramasBytes DEF TramaDe
    <2>11. Une(Une(y, Une(b, todo)), rp) = z
      <3>1. PICK k \in Bytes : k = Une(b, todo)
        BY <1>5, Unida
      <3>2. Une(Une(y, k), rp) = Une(y, Une(k, rp))
        BY Asocia
      <3> QED BY <1>8, <3>1, <3>2
    <2>12. Une(<<>>, rp) = rp
      BY Vacia
    <2> QED BY <1>2, <1>3, <1>4, <1>6, <2>9, <2>10, <2>11, <2>12 DEF EnOrden, EnCurso
  <1> QED BY <1>9, <1>10

-----------------------------------------------------------------------------
(* The invariant: as long as nothing spoils the connection.                  *)

\* What the receiver has, what is on its way and what is left of the message
\* being sent are, one after the other, the messages sent up to this one.
Conectados ==
  receptor # "cerrado" =>
    EnOrden(mensajes, actual, Len(entregados), receptor, cuerpo, Une(hilo, porEnviar))

Sana ==
  /\ actual \in 1..Len(mensajes)
  /\ hilo \in Bytes /\ porEnviar \in Bytes /\ cuerpo \in Bytes
  /\ receptor \in {"cabecera", "cuerpo", "cerrado"}
  /\ entregados \in Seq(Bytes) /\ Len(entregados) \in 0..actual
  /\ \A i \in 1..Len(entregados) : entregados[i] = CuerpoDe(mensajes, i)
  /\ Conectados
  /\ receptor = "cabecera" => cabecera = 0 /\ cuerpo = <<>>
  /\ receptor = "cuerpo" => /\ Len(entregados) < actual
                            /\ largo = mensajes[Len(entregados) + 1].largo
                            /\ Len(cuerpo) < largo

InvRed == mensajes \in Conversaciones /\ (~partida /\ ~corto => Sana)

LEMMA Mensajes ==
  ASSUME mensajes \in Conversaciones
  PROVE  /\ mensajes \in Seq(Mensaje) /\ 1 \in 1..Len(mensajes)
         /\ \A m : Trama(m) = TramaDe(mensajes, m) /\ Cuerpo(m) = CuerpoDe(mensajes, m)
  <1>1. mensajes \in Seq(Mensaje) /\ mensajes # <<>>
    BY RedAssumption DEF Mensaje
  <1>2. 1 \in 1..Len(mensajes)
    BY <1>1
  <1>3. \A m : Trama(m) = TramaDe(mensajes, m) /\ Cuerpo(m) = CuerpoDe(mensajes, m)
    BY DEF Trama, TramaDe, Cabecera, CabeceraDe, Cuerpo, CuerpoDe, LargoDicho, Une
  <1> QED BY <1>1, <1>2, <1>3

LEMMA EmpiezaSana == InitRed => InvRed
  <1> SUFFICES ASSUME InitRed PROVE Sana
    BY DEF InitRed, InvRed
  <1> USE DEF InitRed
  <1>1. mensajes \in Seq(Mensaje) /\ 1 \in 1..Len(mensajes) /\ porEnviar = TramaDe(mensajes, 1)
    BY Mensajes
  <1>2. porEnviar \in Bytes
    BY <1>1, TramaBytes
  <1>3. Conectados
    <2>1. Une(<<>>, porEnviar) = porEnviar
      BY <1>2, Vacia
    <2>2. 0 \in 0..Len(mensajes) /\ 1 - 1 = 0
      OBVIOUS
    <2>3. Tramas(mensajes)[0] = <<>> /\ Tramas(mensajes)[1] = Une(<<>>, porEnviar)
      BY <1>1, <2>2, TramasBytes
    <2>4. Len(entregados) = 0 /\ receptor # "cuerpo"
      OBVIOUS
    <2> QED BY <2>1, <2>3, <2>4 DEF Conectados, EnOrden, EnCurso
  <1>4. entregados \in Seq(Bytes) /\ Len(entregados) = 0
    OBVIOUS
  <1> QED BY <1>1, <1>2, <1>3, <1>4, Vacia DEF Sana

LEMMA SalenSana ==
  ASSUME InvRed, NEW n \in Nat, NEW b \in Nat, Salen(n, b)
  PROVE  InvRed'
  <1>1. /\ mensajes \in Conversaciones /\ UNCHANGED mensajes
        /\ UNCHANGED <<receptor, cabecera, largo, cuerpo, entregados>>
    BY DEF InvRed, Salen, delReceptor
  <1> SUFFICES ASSUME ~partida', ~corto' PROVE Sana'
    BY <1>1 DEF InvRed
  <1>2. Sana /\ b = 0
    <2>1. corto' = (corto \/ b > 0) /\ partida' = partida
      BY DEF Salen
    <2>2. ~corto /\ ~(b > 0) /\ ~partida
      BY <2>1, Zenon
    <2> QED BY <2>2 DEF InvRed
  <1>3. mensajes \in Seq(Mensaje) /\ n \in 0..Len(porEnviar) /\ Len(porEnviar) \in Nat
    BY <1>1, <1>2, Mensajes, Vacia DEF Salen, Sana
  <1>4. PICK f \in Bytes, r \in Bytes :
          f = Prefijo(porEnviar, n) /\ r = Desde(porEnviar, n) /\ Une(f, r) = porEnviar
    BY <1>2, <1>3, CorteBytes DEF Sana
  <1>5. hilo \in Bytes /\ porEnviar \in Bytes /\ hilo' = Une(hilo, f) /\ hilo' \in Bytes
    <2>1. hilo \in Bytes /\ porEnviar \in Bytes
      BY <1>2 DEF Sana
    <2>2. hilo' = Une(hilo, f)
      BY <1>4 DEF Salen, Une
    <2> QED BY <2>1, <2>2, Unida
  <1>6. n + b = n
    BY <1>2
  <1>7. Une(hilo', r) = Une(hilo, porEnviar)
    <2>1. Une(Une(hilo, f), r) = Une(hilo, Une(f, r))
      BY <1>5, Asocia
    <2> QED BY <1>4, <1>5, <2>1
  <1>8. CASE r # <<>> \/ actual >= Len(mensajes)
    <2>1. UNCHANGED actual /\ porEnviar' = r
      <3>1. actual \in 1..Len(mensajes) /\ Len(mensajes) \in Nat
        BY <1>2, <1>3 DEF Sana
      <3> QED BY <1>4, <1>6, <1>8, <3>1 DEF Salen
    <2>2. Conectados'
      BY <1>1, <1>2, <1>7, <2>1 DEF Conectados, Sana
    <2> QED BY <1>1, <1>2, <1>4, <1>5, <2>1, <2>2 DEF Sana
  <1>9. CASE r = <<>> /\ actual < Len(mensajes)
    <2>1. actual' = actual + 1 /\ porEnviar' = TramaDe(mensajes, actual + 1)
      BY <1>1, <1>4, <1>6, <1>9, Mensajes DEF Salen
    <2>2. actual \in 1..Len(mensajes) /\ actual + 1 \in 1..Len(mensajes)
      BY <1>2, <1>3, <1>9 DEF Sana
    <2>3. porEnviar' \in Bytes
      BY <1>3, <2>1, <2>2, TramaBytes
    <2>4. hilo' = Une(hilo, porEnviar) /\ Une(hilo, porEnviar) \in Bytes
      <3>1. f = porEnviar
        BY <1>4, <1>9, Vacia
      <3> QED BY <1>5, <3>1
    <2>5. Len(entregados) \in 0..actual /\ cuerpo \in Bytes
      BY <1>2 DEF Sana
    <2>6. receptor = "cuerpo" => Len(entregados) < actual
      BY <1>2 DEF Sana
    <2>7. ASSUME receptor # "cerrado"
          PROVE  EnOrden(mensajes, actual + 1, Len(entregados), receptor, cuerpo,
                         Une(Une(hilo, porEnviar), TramaDe(mensajes, actual + 1)))
      <3>1. EnOrden(mensajes, actual, Len(entregados), receptor, cuerpo, Une(hilo, porEnviar))
        BY <1>2, <2>7 DEF Sana, Conectados
      <3>2. actual + 1 <= Len(mensajes)
        BY <2>2
      <3> QED BY <1>3, <2>2, <2>4, <2>5, <2>6, <3>1, <3>2, OtraTrama
    <2>8. Conectados'
      BY <1>1, <2>1, <2>4, <2>7 DEF Conectados
    <2>9. Len(entregados) \in 0..(actual + 1)
          /\ (receptor = "cuerpo" => Len(entregados) < actual + 1)
      BY <2>2, <2>5, <2>6
    <2> QED BY <1>1, <1>2, <1>5, <2>1, <2>2, <2>3, <2>8, <2>9 DEF Sana
  <1>10. r # <<>> \/ actual >= Len(mensajes) \/ (r = <<>> /\ actual < Len(mensajes))
    BY <1>2, <1>3 DEF Sana
  <1> QED BY <1>8, <1>9, <1>10

LEMMA CabeceraSana ==
  ASSUME InvRed, RecibeCabecera
  PROVE  InvRed'
  <1>1. /\ mensajes \in Conversaciones /\ mensajes' = mensajes
        /\ UNCHANGED <<actual, porEnviar, cuerpo, entregados, corto>>
    BY DEF InvRed, RecibeCabecera, Recibe, delEmisor
  <1> SUFFICES ASSUME ~partida', ~corto' PROVE Sana'
    BY <1>1 DEF InvRed
  <1>2. H \in Nat \ {0} /\ H \in 0..H /\ Potencia[H] \in Nat
    BY RedAssumption, PotenciaPasos
  <1>3. receptor = "cabecera" /\ ~partida /\ Sana
    BY <1>1 DEF InvRed, RecibeCabecera
  <1>4. cabecera = 0 /\ cuerpo = <<>> /\ Pide = H
    BY <1>2, <1>3 DEF Sana, Pide
  <1>5. /\ H <= Len(hilo) /\ hilo' = Desde(hilo, H) /\ cabecera' = H
        /\ largo' \in 0..(Potencia[H] - 1)
        /\ \A k \in 1..H : hilo[k].k < 0 => Digito(largo', k - 1) = hilo[k].d
        /\ receptor' = IF cabecera' < H THEN "cabecera"
                       ELSE IF largo' = 0 THEN "cerrado" ELSE "cuerpo"
    <2>1. PICK n \in 1..H :
            /\ Recibe(n) /\ cabecera' = n
            /\ largo' \in {v \in 0..(Potencia[n] - 1) :
                  \A k \in 1..n : hilo[k].k < 0 => Digito(v, k - 1) = hilo[k].d}
            /\ partida' = (partida \/ n < H)
            /\ receptor' = IF cabecera' < H THEN "cabecera"
                           ELSE IF largo' = 0 THEN "cerrado" ELSE "cuerpo"
      BY <1>4 DEF RecibeCabecera, TrasCabecera
    <2>2. n = H
      <3>1. ~(n < H)
        BY <2>1, Zenon
      <3> QED BY <1>2, <3>1
    <2> QED BY <1>2, <1>4, <2>1, <2>2 DEF Recibe
  <1>6. PICK ms \in Seq(Mensaje) : ms = mensajes
    BY <1>1, Mensajes
  <1>7. PICK e \in Nat : e = Len(entregados) /\ e \in 0..actual
    BY <1>3 DEF Sana
  <1>8. actual \in 1..Len(ms) /\ hilo \in Bytes /\ porEnviar \in Bytes
    BY <1>3, <1>6 DEF Sana
  <1>9. EnOrden(ms, actual, e, "cabecera", <<>>, Une(hilo, porEnviar))
    BY <1>3, <1>4, <1>6, <1>7 DEF Sana, Conectados
  <1>10. /\ e < actual /\ Prefijo(hilo, H) = CabeceraDe(ms, e + 1)
         /\ EnOrden(ms, actual, e, "cuerpo", <<>>, Une(Desde(hilo, H), porEnviar))
    BY <1>5, <1>7, <1>8, <1>9, CabeceraEntera
  <1>11. e + 1 \in 1..Len(ms)
    BY <1>8, <1>10
  <1>12. PICK l \in Nat : l = ms[e + 1].largo /\ l \in 1..(Potencia[H] - 1)
    BY <1>11, TramaBytes
  <1>13. largo' = l
    <2>1. ASSUME NEW k \in 0..(H - 1) PROVE Digito(largo', k) = Digito(l, k)
      <3>1. k + 1 \in 1..H /\ (k + 1) - 1 = k /\ k + 1 \in Int
        BY <1>2
      <3>2. hilo \in Seq(Byte) /\ H \in 0..Len(hilo)
        BY <1>2, <1>5, <1>8 DEF Bytes
      <3>3. hilo[k + 1] = CabeceraDe(ms, e + 1)[k + 1]
        BY <1>10, <3>1, <3>2, Corte
      <3>4. hilo[k + 1] = [m |-> e + 1, k |-> (k + 1) - 1 - H, d |-> Digito(l, (k + 1) - 1)]
        BY <1>12, <3>1, <3>3 DEF CabeceraDe
      <3>5. hilo[k + 1].k < 0 /\ hilo[k + 1].d = Digito(l, k)
        BY <1>2, <3>1, <3>4
      <3> QED BY <1>5, <3>1, <3>5
    <2>2. l \in 0..(Potencia[H] - 1)
      BY <1>2, <1>12
    <2> QED BY <1>5, <2>1, <2>2, CifrasDelLargo DEF Cifras
  <1>14. receptor' = "cuerpo" /\ hilo' \in Bytes
    <2>1. receptor' = "cuerpo"
      BY <1>2, <1>5, <1>12, <1>13
    <2>2. H \in 0..Len(hilo)
      BY <1>2, <1>5, <1>8, Vacia
    <2> QED BY <1>5, <1>8, <2>1, <2>2, CorteBytes
  <1>15. Conectados'
    BY <1>1, <1>4, <1>5, <1>6, <1>7, <1>10, <1>14 DEF Conectados
  <1>16. Len(cuerpo) < l
    BY <1>4, <1>12, Vacia
  <1> QED
    BY <1>1, <1>3, <1>6, <1>7, <1>8, <1>10, <1>12, <1>13, <1>14, <1>15, <1>16 DEF Sana

LEMMA CuerpoSana ==
  ASSUME InvRed, RecibeCuerpo
  PROVE  InvRed'
  <1>1. /\ mensajes \in Conversaciones /\ mensajes' = mensajes
        /\ UNCHANGED <<actual, porEnviar, corto, partida>>
    BY DEF InvRed, RecibeCuerpo, Recibe, delEmisor
  <1> SUFFICES ASSUME ~partida', ~corto' PROVE Sana'
    BY <1>1 DEF InvRed
  <1>2. receptor = "cuerpo" /\ Sana
    BY <1>1 DEF InvRed, RecibeCuerpo
  <1>3. PICK ms \in Seq(Mensaje) : ms = mensajes
    BY <1>1, Mensajes
  <1>4. PICK e \in Nat : e = Len(entregados) /\ e < actual /\ e \in 0..(actual - 1)
    BY <1>2 DEF Sana
  <1>5. /\ actual \in 1..Len(ms) /\ hilo \in Bytes /\ porEnviar \in Bytes /\ cuerpo \in Bytes
        /\ entregados \in Seq(Bytes)
    BY <1>2, <1>3 DEF Sana
  <1>6. e + 1 \in 1..Len(ms)
    BY <1>4, <1>5
  <1>7. PICK l \in Nat : l = ms[e + 1].largo /\ l = largo /\ Len(cuerpo) < l
    BY <1>2, <1>3, <1>4, <1>6, TramaBytes DEF Sana
  <1>8. PICK n \in 1..(largo - Len(cuerpo)) :
          /\ Recibe(n)
          /\ LET todo == cuerpo \o Prefijo(hilo, n) IN
             IF Len(todo) < largo
               THEN cuerpo' = todo /\ UNCHANGED <<receptor, cabecera, largo, entregados>>
               ELSE /\ entregados' = Append(entregados, todo)
                    /\ receptor' = "cabecera" /\ cabecera' = 0 /\ largo' = 0
                    /\ cuerpo' = <<>>
    BY DEF RecibeCuerpo
  <1>9. Len(cuerpo) \in Nat /\ Len(hilo) \in Nat /\ n \in 0..Len(hilo) /\ n <= l - Len(cuerpo)
    BY <1>5, <1>7, <1>8, Vacia DEF Recibe
  <1>10. /\ Prefijo(hilo, n) \in Bytes /\ Len(Prefijo(hilo, n)) = n
         /\ hilo' = Desde(hilo, n) /\ hilo' \in Bytes
    BY <1>5, <1>8, <1>9, CorteBytes DEF Recibe
  <1>11. PICK todo \in Bytes :
           /\ todo = cuerpo \o Prefijo(hilo, n) /\ todo = Une(cuerpo, Prefijo(hilo, n))
           /\ Len(todo) = Len(cuerpo) + n
    <2>1. Une(cuerpo, Prefijo(hilo, n)) \in Bytes
          /\ Len(Une(cuerpo, Prefijo(hilo, n))) = Len(cuerpo) + n
      BY <1>5, <1>10, Unida
    <2>2. Une(cuerpo, Prefijo(hilo, n)) = cuerpo \o Prefijo(hilo, n)
      BY DEF Une
    <2> QED BY <2>1, <2>2
  <1>12. EnOrden(ms, actual, e, "cuerpo", cuerpo, Une(hilo, porEnviar))
    BY <1>2, <1>3, <1>4 DEF Sana, Conectados
  <1>13. /\ EnOrden(ms, actual, e, "cuerpo", todo, Une(hilo', porEnviar))
         /\ Len(todo) = ms[e + 1].largo =>
              /\ todo = CuerpoDe(ms, e + 1)
              /\ EnOrden(ms, actual, e + 1, "cabecera", <<>>, Une(hilo', porEnviar))
    <2>1. /\ EnOrden(ms, actual, e, "cuerpo", todo, Une(Desde(hilo, n), porEnviar))
          /\ Len(todo) = ms[e + 1].largo =>
               /\ todo = CuerpoDe(ms, e + 1)
               /\ EnOrden(ms, actual, e + 1, "cabecera", <<>>, Une(Desde(hilo, n), porEnviar))
      BY <1>4, <1>5, <1>9, <1>11, <1>12, MasCuerpo
    <2> QED BY <1>10, <2>1
  <1>14. CASE Len(todo) < l
    <2>1. cuerpo' = todo /\ UNCHANGED <<receptor, cabecera, largo, entregados>>
      BY <1>7, <1>8, <1>11, <1>14
    <2>2. Conectados'
      BY <1>1, <1>2, <1>3, <1>4, <1>13, <2>1 DEF Conectados
    <2> QED BY <1>1, <1>2, <1>7, <1>10, <1>14, <2>1, <2>2 DEF Sana
  <1>15. CASE ~(Len(todo) < l)
    <2>1. /\ entregados' = Append(entregados, todo)
          /\ receptor' = "cabecera" /\ cabecera' = 0 /\ cuerpo' = <<>>
      BY <1>7, <1>8, <1>11, <1>15
    <2>2. Len(todo) = l
      BY <1>9, <1>11, <1>15
    <2>3. /\ entregados' \in Seq(Bytes) /\ Len(entregados') = e + 1
          /\ \A i \in 1..e : entregados'[i] = entregados[i]
          /\ entregados'[e + 1] = todo
      <3> HIDE DEF Bytes
      <3> QED BY <1>4, <1>5, <2>1, AppendProperties
    <2>4. \A i \in 1..(e + 1) : entregados'[i] = CuerpoDe(ms, i)
      <3>1. \A i \in 1..e : entregados[i] = CuerpoDe(ms, i)
        BY <1>2, <1>3, <1>4 DEF Sana
      <3>2. \A i \in 1..(e + 1) : i \in 1..e \/ i = e + 1
        OBVIOUS
      <3> QED BY <1>7, <1>13, <2>2, <2>3, <3>1, <3>2
    <2>5. Conectados'
      BY <1>1, <1>3, <1>7, <1>13, <2>1, <2>2, <2>3 DEF Conectados
    <2>6. e + 1 \in 0..actual
      BY <1>4, <1>5
    <2> QED
      BY <1>1, <1>3, <1>5, <1>10, <2>1, <2>3, <2>4, <2>5, <2>6, Vacia DEF Sana
  <1> QED BY <1>14, <1>15

LEMMA PasoSana == InvRed /\ [NextRed]_varsRed => InvRed'
  <1> SUFFICES ASSUME InvRed, [NextRed]_varsRed PROVE InvRed'
    OBVIOUS
  <1>1. CASE socket_send
    <2>1. PICK n \in 1..Len(porEnviar) : Salen(n, 0)
      BY <1>1 DEF socket_send
    <2> QED BY <2>1, SalenSana
  <1>2. CASE EnviaCabecera
    <2>1. Salen(H, 0) /\ H \in Nat
      BY <1>2, RedAssumption DEF EnviaCabecera
    <2> QED BY <2>1, SalenSana
  <1>3. CASE EnviaArchivo
    <2>1. PICK n \in 0..(Len(porEnviar) - 1) : Salen(n, Len(porEnviar) - 1 - n)
      BY <1>3 DEF EnviaArchivo
    <2>2. n \in Nat
      OBVIOUS
    <2>3. Len(porEnviar) - 1 - n \in Nat
      OBVIOUS
    <2> QED BY <2>1, <2>2, <2>3, SalenSana
  <1>4. CASE EnviaCero
    BY <1>4, SalenSana DEF EnviaCero
  <1>5. CASE ArchivoVacio \/ Muere
    <2>1. UNCHANGED <<mensajes, actual, porEnviar, hilo, delReceptor, partida, corto>>
      BY <1>5 DEF ArchivoVacio, Muere, Cierra
    <2> QED BY <2>1 DEF InvRed, Sana, Conectados, delReceptor
  <1>6. CASE RecibeCabecera
    BY <1>6, CabeceraSana
  <1>7. CASE RecibeCuerpo
    BY <1>7, CuerpoSana
  <1>8. CASE RecibeFin
    <2>1. /\ UNCHANGED <<delEmisor, hilo, cabecera, largo, entregados, partida, corto>>
          /\ receptor' = "cerrado" /\ cuerpo' = <<>>
      BY <1>8 DEF RecibeFin
    <2> QED BY <2>1, Vacia DEF InvRed, Sana, Conectados, delEmisor
  <1>9. CASE UNCHANGED varsRed
    BY <1>9 DEF InvRed, Sana, Conectados, varsRed, delEmisor, delReceptor
  <1>10. CASE PisaLaPila
    <2>1. mensajes' = mensajes /\ partida' = partida /\ corto' = corto
      BY <1>10 DEF PisaLaPila, Recibe, delEmisor
    <2>2. partida \/ corto
      BY <1>10 DEF InvRed, Sana, PisaLaPila
    <2> QED BY <2>1, <2>2 DEF InvRed
  <1> QED
    BY <1>1, <1>2, <1>3, <1>4, <1>5, <1>6, <1>7, <1>8, <1>9, <1>10 DEF NextRed, Envia, Receptor

LEMMA SanaEnteros == InvRed => Integros
  <1> SUFFICES ASSUME InvRed, ~partida, ~corto, NEW i \in DOMAIN entregados
               PROVE  i \in DOMAIN mensajes /\ entregados[i] = Cuerpo(i)
    BY DEF Integros
  <1>1. Sana /\ mensajes \in Conversaciones
    BY DEF InvRed
  <1>2. i \in 1..Len(entregados) /\ mensajes \in Seq(Mensaje)
    BY <1>1, Mensajes DEF Sana
  <1>3. i \in 1..Len(mensajes)
    BY <1>1, <1>2 DEF Sana
  <1> QED BY <1>1, <1>2, <1>3, Mensajes DEF Sana

\* What socket_receive hands over is what socket_send and socket_sendfile sent,
\* message by message, however the bytes are cut on their way, unless a header
\* arrives in pieces or a file is not sent whole.
THEOREM MensajesEnteros == SpecRed => []Integros
  <1>1. SpecRed => []InvRed
    BY EmpiezaSana, PasoSana, PTL DEF SpecRed
  <1> QED BY <1>1, SanaEnteros, PTL
=============================================================================
