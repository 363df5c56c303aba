------------------------- MODULE PlanificadorProofs -------------------------
(***************************************************************************)
(* Planificador for any number of processes, any priorities, any edits of  *)
(* the configuration and any comparator of list.c: its types, the list of  *)
(* priorities, and the order of cola_listos and of dispatch.               *)
(*                                                                         *)
(* The argument: list_sort leaves its list in order, by induction over its *)
(* passes, and an ordered insertion keeps an order.  So cola_listos is in  *)
(* order after each of them, and what disturbs it later is recorded.       *)
(***************************************************************************)
EXTENDS Planificador, Secuencias, FiniteSetTheorems

-----------------------------------------------------------------------------
(* list.c: list_ordered_insert and list_sort.                                *)

\* A comparator of list_sort: strict, and to be neither before nor after
\* another is an equivalence.
Orden(menor, S) ==
  /\ \A a, b \in S : <<a, b>> \in menor => <<b, a>> \notin menor
  /\ \A a, b, c \in S : <<a, b>> \notin menor /\ <<b, c>> \notin menor
                          => <<a, c>> \notin menor

\* The states of a pass over a list as long as s.
Estados(s, S) ==
  [lista : {l \in Seq(S) : Len(l) = Len(s)}, ult : Int, hubo : BOOLEAN]

Pares(s, n) == IF n < Len(s) THEN n ELSE Len(s) - 1

PasoDePasada(a, k, menor) ==
  IF <<a.lista[k], a.lista[k + 1]>> \in menor THEN a
  ELSE [lista |-> Intercambia(a.lista, k), ult |-> k - 1, hubo |-> TRUE]

\* An exchange of neighbours.
LEMMA IntercambiaElementos ==
  ASSUME NEW S, NEW s \in Seq(S), NEW k \in 1..(Len(s) - 1),
         NEW t, t = Intercambia(s, k)
  PROVE  /\ t \in Seq(S) /\ Len(t) = Len(s)
         /\ t[k] = s[k + 1] /\ t[k + 1] = s[k]
         /\ \A i \in 1..Len(s) : i # k /\ i # k + 1 => t[i] = s[i]
         /\ Range(t) = Range(s)
         /\ IsInjective(s) => IsInjective(t)
  <1>1. Len(s) \in Nat /\ k \in DOMAIN s /\ k + 1 \in DOMAIN s /\ DOMAIN s = 1..Len(s)
    OBVIOUS
  <1>2. t \in Seq(S) /\ Len(t) = Len(s) /\ DOMAIN t = DOMAIN s
    BY <1>1 DEF Intercambia
  <1>3. /\ t[k] = s[k + 1] /\ t[k + 1] = s[k]
        /\ \A i \in 1..Len(s) : i # k /\ i # k + 1 => t[i] = s[i]
    BY <1>1 DEF Intercambia
  <1>4. Range(t) = Range(s)
    <2>1. ASSUME NEW i \in DOMAIN s PROVE t[i] \in Range(s) /\ s[i] \in Range(t)
      <3>1. i = k \/ i = k + 1 \/ t[i] = s[i]
        BY <1>1, <1>3
      <3> QED BY <3>1, <1>1, <1>2, <1>3 DEF Range
    <2> QED BY <2>1, <1>2 DEF Range
  <1>5. ASSUME IsInjective(s), NEW i \in DOMAIN t, NEW j \in DOMAIN t, t[i] = t[j]
        PROVE  i = j
    <2>1. \A m \in DOMAIN t : m = k \/ m = k + 1 \/ t[m] = s[m]
      BY <1>1, <1>2, <1>3
    <2> QED BY <2>1, <1>1, <1>2, <1>3, <1>5 DEF IsInjective
  <1> QED BY <1>2, <1>3, <1>4, <1>5 DEF IsInjective

\* The function that Pasada defines is the one its equation says.
LEMMA PasadaEcuacion ==
  ASSUME NEW S, NEW s \in Seq(S), NEW n \in Nat, NEW menor, Len(s) >= 2
  PROVE  \E h : /\ h[0] = [lista |-> s, ult |-> n, hubo |-> FALSE]
                /\ \A k \in 1..Pares(s, n) : h[k] = PasoDePasada(h[k - 1], k, menor)
                /\ Pasada(s, n, menor) = h[Pares(s, n)]
  <1> DEFINE p == Pares(s, n)
             A == Estados(s, S)
             a0 == [lista |-> s, ult |-> n, hubo |-> FALSE]
             F == [k \in 1..p |-> [a \in A |-> PasoDePasada(a, k, menor)]]
             cuerpo(f) == [k \in 0..p |-> IF k = 0 THEN a0
                                          ELSE PasoDePasada(f[k - 1], k, menor)]
             hasta == CHOOSE f : f = cuerpo(f)
  <1>1. p \in Nat /\ p <= Len(s) - 1
    BY DEF Pares
  <1>2. a0 \in A
    BY DEF Estados
  <1>3. ASSUME NEW k \in 1..p, NEW a \in A PROVE PasoDePasada(a, k, menor) \in A
    <2>1. a.lista \in Seq(S) /\ k \in 1..(Len(a.lista) - 1) /\ Len(a.lista) = Len(s)
      BY <1>1 DEF Estados
    <2>2. PICK t : t = Intercambia(a.lista, k)
      OBVIOUS
    <2>3. t \in Seq(S) /\ Len(t) = Len(s)
      BY <2>1, <2>2, IntercambiaElementos
    <2> QED BY <2>2, <2>3 DEF PasoDePasada, Estados
  <1>4. F \in [1..p -> [A -> A]]
    BY <1>3
  <1>5. PICK f \in [0..p -> A] : Recurre(f, a0, p, F)
    <2> HIDE DEF p, A, a0, F
    <2> QED BY <1>1, <1>2, <1>4, Recursion
  <1>6. f = cuerpo(f)
    <2>1. ASSUME NEW k \in 1..p PROVE f[k] = PasoDePasada(f[k - 1], k, menor)
      <3>1. f[k - 1] \in A
        BY <1>1
      <3> QED BY <1>5, <3>1 DEF Recurre
    <2> HIDE DEF p, A, a0, F
    <2> QED BY <2>1, <1>1, <1>5 DEF Recurre
  <1>7. hasta = cuerpo(hasta)
    <2> HIDE DEF cuerpo
    <2> QED BY <1>6
  <1>8. Pasada(s, n, menor) = hasta[p]
    BY DEF Pasada, PasoDePasada, Pares
  <1>9. hasta[0] = a0 /\ \A k \in 1..p : hasta[k] = PasoDePasada(hasta[k - 1], k, menor)
    <2> HIDE DEF hasta, p, a0
    <2> QED BY <1>1, <1>7
  <1> QED BY <1>8, <1>9

\* From the place d on, nothing of the first m of l should go before what is
\* on its left.
Asentada(l, d, m, menor) ==
  \A i, j \in 1..m : i < j /\ j >= d => <<l[j], l[i]>> \notin menor

\* l has the elements of s, each as often.
Reordenada(l, s, S) ==
  /\ l \in Seq(S) /\ Len(l) = Len(s) /\ Range(l) = Range(s)
  /\ IsInjective(s) => IsInjective(l)

\* A pass over the first n pairs, after k of them: the last of the pair goes
\* after all on its left, and so does what follows the last exchange.
EnPasada(a, s, S, n, k, menor) ==
  /\ a \in [lista : Seq(S), ult : Nat, hubo : BOOLEAN]
  /\ Reordenada(a.lista, s, S)
  /\ \A i \in 1..(k + 1) : <<a.lista[k + 1], a.lista[i]>> \notin menor
  /\ Asentada(a.lista, n + 2, Len(s), menor)
  /\ \/ a.hubo = FALSE /\ a.ult = n /\ Asentada(a.lista, 1, k + 1, menor)
     \/ /\ a.hubo = TRUE /\ a.ult \in 0..(k - 1)
        /\ Asentada(a.lista, a.ult + 2, k + 1, menor)

\* One pair.
LEMMA PasoEnPasada ==
  ASSUME NEW S, NEW s \in Seq(S), NEW menor, Orden(menor, S), NEW n \in Nat,
         NEW k \in Nat, k + 1 <= n, k + 2 <= Len(s),
         NEW a, EnPasada(a, s, S, n, k, menor),
         NEW b, b = PasoDePasada(a, k + 1, menor)
  PROVE  EnPasada(b, s, S, n, k + 1, menor)
  <1> DEFINE l == a.lista
             t == b.lista
  <1>0. /\ l \in Seq(S) /\ Len(l) = Len(s) /\ Len(s) \in Nat
        /\ \A i \in 1..Len(s) : l[i] \in S
        /\ Range(l) = Range(s)
        /\ IsInjective(s) => IsInjective(l)
    BY DEF EnPasada, Reordenada
  <1>1. /\ \A i \in 1..(k + 1) : <<l[k + 1], l[i]>> \notin menor
        /\ \A i, j \in 1..Len(s) : i < j /\ j >= n + 2 => <<l[j], l[i]>> \notin menor
    BY DEF EnPasada, Asentada
  <1>2. CASE <<l[k + 1], l[k + 2]>> \in menor
    <2>1. b = a
      BY <1>2 DEF PasoDePasada
    <2>2. <<l[k + 2], l[k + 1]>> \notin menor /\ <<l[k + 2], l[k + 2]>> \notin menor
      BY <1>0, <1>2 DEF Orden
    <2>3. ASSUME NEW i \in 1..(k + 2) PROVE <<l[k + 2], l[i]>> \notin menor
      <3>1. CASE i = k + 2
        BY <2>2, <3>1
      <3>2. CASE i \in 1..(k + 1)
        <4>1. i \in 1..Len(s) /\ k + 1 \in 1..Len(s) /\ k + 2 \in 1..Len(s)
          BY <1>0, <3>2
        <4>2. l[i] \in S /\ l[k + 1] \in S /\ l[k + 2] \in S
          BY <1>0, <4>1
        <4>3. <<l[k + 1], l[i]>> \notin menor
          BY <1>1, <3>2
        <4> QED BY <2>2, <4>2, <4>3 DEF Orden
      <3> QED BY <3>1, <3>2
    <2>4. ASSUME NEW d \in Nat, Asentada(l, d, k + 1, menor)
          PROVE  Asentada(l, d, k + 2, menor)
      <3> SUFFICES ASSUME NEW i \in 1..(k + 2), NEW j \in 1..(k + 2), i < j, j >= d
                   PROVE  <<l[j], l[i]>> \notin menor
        BY DEF Asentada
      <3>1. CASE j = k + 2
        BY <2>3, <3>1
      <3>2. CASE j # k + 2
        BY <2>4, <3>2 DEF Asentada
      <3> QED BY <3>1, <3>2
    <2>5. (k + 1) + 1 = k + 2
      OBVIOUS
    <2>6. \/ a.hubo = FALSE /\ a.ult = n /\ Asentada(l, 1, k + 2, menor)
          \/ /\ a.hubo = TRUE /\ a.ult \in 0..((k + 1) - 1)
             /\ Asentada(l, a.ult + 2, k + 2, menor)
      <3>1. CASE a.hubo = FALSE /\ a.ult = n /\ Asentada(l, 1, k + 1, menor)
        BY <2>4, <3>1
      <3>2. CASE /\ a.hubo = TRUE /\ a.ult \in 0..(k - 1)
                 /\ Asentada(l, a.ult + 2, k + 1, menor)
        <4>1. a.ult + 2 \in Nat /\ a.ult \in 0..((k + 1) - 1)
          BY <3>2
        <4>2. Asentada(l, a.ult + 2, k + 2, menor)
          BY <2>4, <3>2, <4>1
        <4> QED BY <3>2, <4>1, <4>2
      <3> QED BY <3>1, <3>2 DEF EnPasada
    <2> QED BY <2>1, <2>3, <2>5, <2>6 DEF EnPasada
  <1>3. CASE <<l[k + 1], l[k + 2]>> \notin menor
    <2>1. t = Intercambia(l, k + 1) /\ b.ult = k /\ b.hubo = TRUE
      BY <1>3 DEF PasoDePasada
    <2>2. k + 1 \in 1..(Len(l) - 1)
      BY <1>0
    <2>3. /\ t \in Seq(S) /\ Len(t) = Len(l)
          /\ t[k + 1] = l[k + 2] /\ t[k + 2] = l[k + 1]
          /\ \A i \in 1..Len(l) : i # k + 1 /\ i # k + 2 => t[i] = l[i]
          /\ Range(t) = Range(l)
          /\ IsInjective(l) => IsInjective(t)
      <3> HIDE DEF l, t
      <3>1. (k + 1) + 1 = k + 2
        OBVIOUS
      <3> QED BY <1>0, <2>1, <2>2, <3>1, IntercambiaElementos
    <2>4. Reordenada(t, s, S)
      <3> HIDE DEF l, t
      <3> QED BY <1>0, <2>3 DEF Reordenada
    <2>5. ASSUME NEW i \in 1..(k + 2) PROVE <<t[k + 2], t[i]>> \notin menor
      <3> HIDE DEF l, t
      <3>1. CASE i \in 1..k
        <4>1. i \in 1..Len(l) /\ i \in 1..(k + 1) /\ i # k + 1 /\ i # k + 2
          BY <1>0, <3>1
        <4>2. t[i] = l[i]
          BY <2>3, <4>1
        <4> QED BY <1>1, <2>3, <4>1, <4>2
      <3>2. CASE i = k + 1
        BY <1>3, <2>3, <3>2
      <3>3. CASE i = k + 2
        BY <1>1, <2>3, <3>3
      <3> QED BY <3>1, <3>2, <3>3
    <2>6. Asentada(t, n + 2, Len(s), menor)
      <3> SUFFICES ASSUME NEW i \in 1..Len(s), NEW j \in 1..Len(s), i < j, j >= n + 2
                   PROVE  <<t[j], t[i]>> \notin menor
        BY DEF Asentada
      <3>1. t[j] = l[j]
        BY <1>0, <2>3
      <3>2. \E m \in 1..Len(s) : m < j /\ t[i] = l[m]
        <4>1. i = k + 1 \/ i = k + 2 \/ t[i] = l[i]
          BY <1>0, <2>3
        <4>2. k + 1 \in 1..Len(s) /\ k + 2 \in 1..Len(s) /\ k + 2 < j
          BY <1>0
        <4> QED BY <4>1, <4>2, <2>3
      <3> QED BY <3>1, <3>2, <1>1
    <2>7. Asentada(t, b.ult + 2, k + 2, menor)
      <3> SUFFICES ASSUME NEW i \in 1..(k + 2), NEW j \in 1..(k + 2), i < j, j >= k + 2
                   PROVE  <<t[j], t[i]>> \notin menor
        BY <2>1 DEF Asentada
      <3>1. j = k + 2
        OBVIOUS
      <3> QED BY <2>5, <3>1
    <2>8. (k + 1) + 1 = k + 2 /\ b.ult \in 0..((k + 1) - 1)
      BY <2>1
    <2>9. b \in [lista : Seq(S), ult : Nat, hubo : BOOLEAN]
      <3>1. PICK u : u = Intercambia(l, k + 1)
        OBVIOUS
      <3>2. b = [lista |-> u, ult |-> (k + 1) - 1, hubo |-> TRUE]
        BY <1>3, <3>1 DEF PasoDePasada
      <3>3. u \in Seq(S) /\ (k + 1) - 1 \in Nat
        BY <2>1, <2>3, <3>1
      <3> QED BY ONLY <3>2, <3>3
    <2> QED BY <2>1, <2>4, <2>5, <2>6, <2>7, <2>8, <2>9 DEF EnPasada
  <1> QED BY <1>2, <1>3

\* A whole pass over a list whose elements from the place n + 2 on are in their
\* places: if it exchanges nothing the list is in order, and else all from the
\* place after the last exchange on are in theirs.
LEMMA PasadaAsienta ==
  ASSUME NEW S, NEW s \in Seq(S), NEW menor, Orden(menor, S), Len(s) >= 2,
         NEW n \in Nat, Asentada(s, n + 2, Len(s), menor),
         NEW a, a = Pasada(s, n, menor)
  PROVE  /\ a \in [lista : Seq(S), ult : Nat, hubo : BOOLEAN]
         /\ Reordenada(a.lista, s, S)
         /\ \/ a.hubo = FALSE /\ Asentada(a.lista, 1, Len(s), menor)
            \/ /\ a.hubo = TRUE /\ a.ult \in Nat /\ a.ult < n /\ a.ult <= Len(s) - 2
               /\ Asentada(a.lista, a.ult + 2, Len(s), menor)
  <1> DEFINE p == Pares(s, n)
  <1>0. Len(s) \in Nat /\ p \in Nat /\ p <= n /\ p <= Len(s) - 1
        /\ (p = n \/ p = Len(s) - 1)
    BY DEF Pares
  <1>1. PICK h : /\ h[0] = [lista |-> s, ult |-> n, hubo |-> FALSE]
                 /\ \A k \in 1..p : h[k] = PasoDePasada(h[k - 1], k, menor)
                 /\ Pasada(s, n, menor) = h[p]
    BY PasadaEcuacion
  <1> DEFINE T == {k \in Nat : k <= p => EnPasada(h[k], s, S, n, k, menor)}
  <1>2. 0 \in T
    <2>1. s[1] \in S
      OBVIOUS
    <2>2. <<s[1], s[1]>> \notin menor
      BY <2>1 DEF Orden
    <2>3. Reordenada(s, s, S)
      BY DEF Reordenada
    <2>4. Asentada(s, 1, 0 + 1, menor)
      BY DEF Asentada
    <2>5. h[0] \in [lista : Seq(S), ult : Nat, hubo : BOOLEAN]
      BY <1>1
    <2>6. EnPasada(h[0], s, S, n, 0, menor)
      BY <1>1, <2>2, <2>3, <2>4, <2>5 DEF EnPasada
    <2> QED BY <2>6
  <1>3. ASSUME NEW k \in Nat, k \in T PROVE k + 1 \in T
    <2> SUFFICES ASSUME k + 1 <= p PROVE EnPasada(h[k + 1], s, S, n, k + 1, menor)
      OBVIOUS
    <2>1. EnPasada(h[k], s, S, n, k, menor)
      BY <1>0, <1>3
    <2>2. h[k + 1] = PasoDePasada(h[k], k + 1, menor)
      BY <1>0, <1>1
    <2>3. k + 1 <= n /\ k + 2 <= Len(s)
      BY <1>0
    <2> HIDE DEF T, p
    <2> QED BY <2>1, <2>2, <2>3, PasoEnPasada
  <1>4. EnPasada(a, s, S, n, p, menor)
    <2>1. p \in T
      <3> HIDE DEF T
      <3> QED BY <1>0, <1>2, <1>3, Induccion
    <2> QED BY <1>0, <1>1, <2>1
  <1>5. /\ a \in [lista : Seq(S), ult : Nat, hubo : BOOLEAN]
        /\ Reordenada(a.lista, s, S) /\ Asentada(a.lista, n + 2, Len(s), menor)
    BY <1>4 DEF EnPasada
  <1>6. ASSUME NEW d \in Nat, Asentada(a.lista, d, p + 1, menor)
        PROVE  Asentada(a.lista, d, Len(s), menor)
    <2> SUFFICES ASSUME NEW i \in 1..Len(s), NEW j \in 1..Len(s), i < j, j >= d
                 PROVE  <<a.lista[j], a.lista[i]>> \notin menor
      BY DEF Asentada
    <2> HIDE DEF p
    <2>1. CASE j <= p + 1
      BY <1>0, <1>6, <2>1 DEF Asentada
    <2>2. CASE j > p + 1
      <3>1. j >= n + 2
        BY <1>0, <2>2
      <3> QED BY <1>5, <3>1 DEF Asentada
    <2> QED BY <1>0, <2>1, <2>2
  <1>7. CASE a.hubo = FALSE /\ a.ult = n /\ Asentada(a.lista, 1, p + 1, menor)
    BY <1>5, <1>6, <1>7
  <1>8. CASE /\ a.hubo = TRUE /\ a.ult \in 0..(p - 1)
             /\ Asentada(a.lista, a.ult + 2, p + 1, menor)
    <2>1. a.ult + 2 \in Nat
      BY <1>8
    <2>2. Asentada(a.lista, a.ult + 2, Len(s), menor)
      BY <1>6, <1>8, <2>1
    <2>3. a.ult \in Nat /\ a.ult < n /\ a.ult <= Len(s) - 2
      BY <1>0, <1>8
    <2> QED BY <1>5, <1>8, <2>2, <2>3
  <1> QED BY <1>4, <1>7, <1>8 DEF EnPasada

\* The passes of list_sort over s.
TrasPasadas(s, S, menor) ==
  {a \in [lista : Seq(S), ult : Nat, hubo : BOOLEAN] :
     /\ Reordenada(a.lista, s, S)
     /\ Asentada(a.lista, IF a.hubo THEN a.ult + 2 ELSE 1, Len(s), menor)}

Siguiente(a, menor) == IF a.hubo THEN Pasada(a.lista, a.ult, menor) ELSE a

\* A pass leaves a state of the same kind, whose last exchange is further left.
LEMMA SiguienteEnPasadas ==
  ASSUME NEW S, NEW s \in Seq(S), NEW menor, Orden(menor, S), Len(s) >= 2,
         NEW a \in TrasPasadas(s, S, menor), NEW b, b = Siguiente(a, menor)
  PROVE  /\ b \in TrasPasadas(s, S, menor)
         /\ b.hubo => a.hubo /\ b.ult < a.ult /\ b.ult <= Len(s) - 2
  <1> DEFINE l == a.lista
  <1>0. /\ l \in Seq(S) /\ a.ult \in Nat /\ a.hubo \in BOOLEAN /\ Reordenada(l, s, S)
        /\ Len(l) = Len(s) /\ Len(s) \in Nat
    BY DEF TrasPasadas, Reordenada
  <1>1. CASE ~a.hubo
    BY <1>0, <1>1 DEF Siguiente
  <1>2. CASE a.hubo
    <2>1. b = Pasada(l, a.ult, menor)
      BY <1>2 DEF Siguiente
    <2>2. Asentada(l, a.ult + 2, Len(l), menor)
      BY <1>0, <1>2 DEF TrasPasadas
    <2>3. /\ b \in [lista : Seq(S), ult : Nat, hubo : BOOLEAN]
          /\ Reordenada(b.lista, l, S)
          /\ \/ b.hubo = FALSE /\ Asentada(b.lista, 1, Len(l), menor)
             \/ /\ b.hubo = TRUE /\ b.ult \in Nat /\ b.ult < a.ult /\ b.ult <= Len(l) - 2
                /\ Asentada(b.lista, b.ult + 2, Len(l), menor)
      <3> HIDE DEF l
      <3> QED BY <1>0, <2>1, <2>2, PasadaAsienta
    <2>4. Reordenada(b.lista, s, S)
      <3> HIDE DEF l
      <3> QED BY <1>0, <2>3 DEF Reordenada
    <2>5. Asentada(b.lista, IF b.hubo THEN b.ult + 2 ELSE 1, Len(s), menor)
      <3> HIDE DEF l
      <3> QED BY <1>0, <2>3
    <2>6. b.hubo => b.ult < a.ult /\ b.ult <= Len(s) - 2
      <3> HIDE DEF l
      <3> QED BY <1>0, <2>3
    <2> QED BY <1>2, <2>3, <2>4, <2>5, <2>6 DEF TrasPasadas
  <1> QED BY <1>1, <1>2

\* list_sort puts the list in order and keeps its elements.
LEMMA OrdenaOrdena ==
  ASSUME NEW S, NEW s \in Seq(S), NEW menor, Orden(menor, S),
         NEW t, t = Ordena(s, menor)
  PROVE  Reordenada(t, s, S) /\ OrdenadaPor(t, menor)
  <1> DEFINE n == Len(s)
             A == TrasPasadas(s, S, menor)
             a0 == [lista |-> s, ult |-> n, hubo |-> TRUE]
             F == [k \in 1..n |-> [a \in A |-> Siguiente(a, menor)]]
             cuerpo(f) == [k \in 0..n |-> IF k = 0 THEN a0
                                          ELSE Siguiente(f[k - 1], menor)]
             hasta == CHOOSE f : f = cuerpo(f)
  <1>0. n \in Nat
    OBVIOUS
  <1>1. CASE n < 2
    <2>1. t = s
      BY <1>1 DEF Ordena
    <2>2. \A i, j \in DOMAIN s : ~(i < j)
      BY <1>0, <1>1
    <2> QED BY <2>1, <2>2 DEF Reordenada, OrdenadaPor
  <1>2. CASE n >= 2
    <2>1. a0 \in A
      <3>1. Asentada(s, n + 2, Len(s), menor)
        BY DEF Asentada
      <3> QED BY <1>0, <3>1 DEF TrasPasadas, Reordenada
    <2>2. ASSUME NEW a \in A PROVE Siguiente(a, menor) \in A
      BY <1>2, SiguienteEnPasadas
    <2>3. F \in [1..n -> [A -> A]]
      <3> HIDE DEF A, n
      <3> QED BY <2>2
    <2>4. PICK f \in [0..n -> A] : Recurre(f, a0, n, F)
      <3> HIDE DEF n, A, a0, F
      <3> QED BY <1>0, <2>1, <2>3, Recursion
    <2>5. f = cuerpo(f)
      <3>1. ASSUME NEW k \in 1..n PROVE f[k] = Siguiente(f[k - 1], menor)
        <4>1. f[k - 1] \in A
          <5> HIDE DEF A
          <5> QED BY <1>0
        <4> HIDE DEF A
        <4> QED BY <2>4, <4>1 DEF Recurre
      <3> HIDE DEF n, A, a0, F
      <3> QED BY <3>1, <1>0, <2>4 DEF Recurre
    <2>6. hasta = cuerpo(hasta)
      <3> HIDE DEF cuerpo
      <3> QED BY <2>5
    <2>7. t = hasta[n].lista
      BY <1>2 DEF Ordena, Siguiente
    <2>8. hasta[0] = a0 /\ \A k \in 1..n : hasta[k] = Siguiente(hasta[k - 1], menor)
      <3> HIDE DEF hasta, n, a0
      <3> QED BY <1>0, <2>6
    <2> DEFINE T == {k \in Nat : k <= n =>
                       /\ hasta[k] \in A
                       /\ k > 0 /\ hasta[k].hubo => hasta[k].ult <= n - 1 - k}
    <2> HIDE DEF hasta
    <2>9. 0 \in T
      BY <2>1, <2>8
    <2>10. ASSUME NEW k \in Nat, k \in T PROVE k + 1 \in T
      <3> SUFFICES ASSUME k + 1 <= n
                   PROVE  /\ hasta[k + 1] \in A
                          /\ hasta[k + 1].hubo => hasta[k + 1].ult <= n - 1 - (k + 1)
        BY <1>0
      <3>1. PICK a : a = hasta[k]
        OBVIOUS
      <3>2. PICK b : b = hasta[k + 1]
        OBVIOUS
      <3>3. a \in A /\ (k > 0 /\ a.hubo => a.ult <= n - 1 - k)
        BY <1>0, <2>10, <3>1
      <3>4. b = Siguiente(a, menor)
        BY <1>0, <2>8, <3>1, <3>2
      <3>5. b \in A /\ (b.hubo => a.hubo /\ b.ult < a.ult /\ b.ult <= n - 2)
        BY <1>2, <3>3, <3>4, SiguienteEnPasadas
      <3>6. a.ult \in Nat /\ b.ult \in Nat
        BY <3>3, <3>5 DEF TrasPasadas
      <3> HIDE DEF A, n, T
      <3>7. b.hubo => b.ult <= n - 1 - (k + 1)
        <4>1. CASE k = 0
          BY <4>1, <1>0, <3>5, <3>6
        <4>2. CASE k > 0
          BY <4>2, <1>0, <3>3, <3>5, <3>6
        <4> QED BY <4>1, <4>2
      <3> QED BY <3>2, <3>5, <3>7
    <2>11. hasta[n] \in A /\ (hasta[n].hubo => hasta[n].ult <= n - 1 - n)
      <3>1. n \in T
        <4> HIDE DEF T
        <4> QED BY <1>0, <2>9, <2>10, Induccion
      <3> QED BY <1>0, <1>2, <3>1
    <2>12. PICK c : c = hasta[n]
      OBVIOUS
    <2>13. c \in A /\ ~c.hubo
      <3>1. c \in A /\ c.ult \in Nat
        BY <2>11, <2>12 DEF TrasPasadas
      <3> HIDE DEF A, n
      <3> QED BY <1>0, <2>11, <2>12, <3>1
    <2>14. Reordenada(t, s, S) /\ Asentada(t, 1, Len(s), menor)
      BY <2>7, <2>12, <2>13 DEF TrasPasadas
    <2>15. OrdenadaPor(t, menor)
      <3>1. DOMAIN t = 1..Len(s)
        BY <2>14 DEF Reordenada
      <3> QED BY <2>14, <3>1 DEF OrdenadaPor, Asentada
    <2> QED BY <2>14, <2>15
  <1> QED BY <1>0, <1>1, <1>2

\* list_ordered_insert finds a place: e goes before what is there, and before
\* nothing that stands further left.
LEMMA HayLugar ==
  ASSUME NEW S, NEW s \in Seq(S), NEW e, NEW menor,
         NEW k, k = LugarDeInsercion(s, e, menor)
  PROVE  /\ k \in 1..(Len(s) + 1)
         /\ k <= Len(s) => <<e, s[k]>> \in menor
         /\ \A i \in 1..(k - 1) : <<e, s[i]>> \notin menor
  <1> DEFINE P == {i \in 1..Len(s) : <<e, s[i]>> \in menor}
             Es(m) == /\ m <= Len(s) => <<e, s[m]>> \in menor
                      /\ \A i \in 1..(m - 1) : <<e, s[i]>> \notin menor
  <1>0. Len(s) \in Nat
    OBVIOUS
  <1>1. \E m \in 1..(Len(s) + 1) : Es(m)
    <2>1. CASE P = {}
      <3>1. Len(s) + 1 \in 1..(Len(s) + 1) /\ Es(Len(s) + 1)
        BY <1>0, <2>1
      <3> HIDE DEF Es
      <3> QED BY <3>1
    <2>2. CASE P # {}
      <3>1. P \subseteq Nat
        BY <1>0
      <3>2. PICK m \in P : \A i \in P : m <= i
        <4> HIDE DEF P
        <4> QED BY <2>2, <3>1, Minimo
      <3>3. m \in 1..(Len(s) + 1) /\ Es(m)
        BY <1>0, <3>2
      <3> HIDE DEF Es
      <3> QED BY <3>3
    <2> QED BY <2>1, <2>2
  <1>2. k = CHOOSE m \in 1..(Len(s) + 1) : Es(m)
    BY DEF LugarDeInsercion
  <1> HIDE DEF Es
  <1>3. k \in 1..(Len(s) + 1) /\ Es(k)
    BY <1>1, <1>2
  <1> QED BY <1>3 DEF Es

\* An ordered insertion keeps the order, and leaves what was there and e.
LEMMA InsercionOrdena ==
  ASSUME NEW S, NEW s \in Seq(S), NEW e \in S, NEW menor,
         Orden(menor, Range(s) \cup {e}), OrdenadaPor(s, menor),
         NEW t, t = InsertaOrdenado(s, e, menor)
  PROVE  OrdenadaPor(t, menor)
  <1>1. PICK k : k = LugarDeInsercion(s, e, menor)
    OBVIOUS
  <1>2. /\ k \in 1..(Len(s) + 1)
        /\ k <= Len(s) => <<e, s[k]>> \in menor
        /\ \A i \in 1..(k - 1) : <<e, s[i]>> \notin menor
    BY <1>1, HayLugar
  <1>3. t \in Seq(S) /\ Insertado(t, s, k, e)
    <2>1. t = InsertAt(s, k, e)
      BY <1>1 DEF InsertaOrdenado
    <2> QED BY <1>2, <2>1, InsertaElementos
  <1>4. /\ Len(s) \in Nat /\ DOMAIN s = 1..Len(s) /\ DOMAIN t = 1..(Len(s) + 1)
        /\ \A i \in 1..Len(s) : s[i] \in Range(s)
        /\ \A i, j \in 1..Len(s) : i < j => <<s[j], s[i]>> \notin menor
    BY <1>3 DEF Insertado, OrdenadaPor, Range
  <1>5. \A m \in 1..(Len(s) + 1) : \/ m < k /\ m \in 1..Len(s) /\ t[m] = s[m]
                                   \/ m = k /\ t[m] = e
                                   \/ m > k /\ m - 1 \in 1..Len(s) /\ t[m] = s[m - 1]
    BY <1>2, <1>3, <1>4 DEF Insertado
  <1>6. ASSUME NEW i \in 1..(Len(s) + 1), NEW j \in 1..(Len(s) + 1), i < j
        PROVE  <<t[j], t[i]>> \notin menor
    <2>1. CASE i # k /\ j # k
      BY <1>2, <1>4, <1>5, <1>6, <2>1
    <2>2. CASE j = k
      <3>1. i \in 1..(k - 1) /\ t[i] = s[i] /\ t[j] = e
        BY <1>2, <1>5, <1>6, <2>2
      <3> QED BY <1>2, <3>1
    <2>3. CASE i = k
      <3>1. j - 1 \in 1..Len(s) /\ t[j] = s[j - 1] /\ t[i] = e /\ j - 1 >= k
            /\ k \in 1..Len(s)
        BY <1>2, <1>5, <1>6, <2>3, <1>4
      <3>2. <<e, s[k]>> \in menor
        BY <1>2, <3>1
      <3>3. <<s[k], e>> \notin menor
        BY <1>4, <3>1, <3>2 DEF Orden
      <3>4. <<s[j - 1], s[k]>> \notin menor
        <4>1. CASE j - 1 = k
          BY <1>4, <3>1, <4>1 DEF Orden
        <4>2. CASE j - 1 > k
          BY <1>4, <3>1, <4>2
        <4> QED BY <4>1, <4>2, <3>1
      <3> QED BY <1>4, <3>1, <3>3, <3>4 DEF Orden
    <2> QED BY <2>1, <2>2, <2>3
  <1> QED BY <1>4, <1>6 DEF OrdenadaPor

\* The elements of an ordered insertion.
LEMMA InsercionRango ==
  ASSUME NEW S, NEW s \in Seq(S), NEW e \in S, NEW menor, IsInjective(s),
         e \notin Range(s), NEW t, t = InsertaOrdenado(s, e, menor)
  PROVE  t \in Seq(S) /\ Range(t) = Range(s) \cup {e} /\ IsInjective(t)
  <1>1. PICK k : k = LugarDeInsercion(s, e, menor)
    OBVIOUS
  <1>2. k \in 1..(Len(s) + 1) /\ t = InsertAt(s, k, e)
    BY <1>1, HayLugar DEF InsertaOrdenado
  <1>3. t \in Seq(S) /\ Range(t) = Range(s) \cup {e}
    BY <1>2, InsertaRango
  <1>4. \A i, j \in DOMAIN s : s[i] = s[j] => i = j
    BY DEF IsInjective
  <1>5. \A i, j \in DOMAIN t : t[i] = t[j] => i = j
    BY <1>2, <1>4, InsertaUnicos
  <1> QED BY <1>3, <1>5 DEF IsInjective

-----------------------------------------------------------------------------
(* Queues.                                                                   *)

\* t is s without its first.
Sacado(t, s, S) ==
  /\ Head(s) \in S /\ Head(s) = s[1] /\ Head(s) \in Range(s)
  /\ t \in Seq(S) /\ Len(t) = Len(s) - 1 /\ Len(s) > 0
  /\ \A i \in 1..Len(t) : t[i] = s[i + 1]
  /\ Range(s) = Range(t) \cup {Head(s)}
  /\ IsInjective(s) => IsInjective(t) /\ Head(s) \notin Range(t)

\* queue_pop.
LEMMA SacaRango ==
  ASSUME NEW S, NEW s \in Seq(S), s # <<>>, NEW t, t = Tail(s)
  PROVE  Sacado(t, s, S)
  <1>0. Len(s) \in Nat /\ DOMAIN s = 1..Len(s) /\ Len(s) > 0
    OBVIOUS
  <1>1. /\ t \in Seq(S) /\ Len(t) = Len(s) - 1
        /\ \A i \in 1..Len(t) : t[i] = s[i + 1]
    OBVIOUS
  <1>2. Head(s) = s[1] /\ s[1] \in S /\ 1 \in DOMAIN s
    BY <1>0
  <1>3. DOMAIN t = 1..(Len(s) - 1)
    BY <1>1
  <1>4. Range(s) = Range(t) \cup {Head(s)}
    <2>1. \A i \in DOMAIN t : i + 1 \in DOMAIN s /\ t[i] = s[i + 1]
      BY <1>0, <1>1, <1>3
    <2>2. \A i \in DOMAIN s : i = 1 \/ (i - 1 \in DOMAIN t /\ t[i - 1] = s[i])
      BY <1>0, <1>1, <1>3
    <2> QED BY ONLY <2>1, <2>2, <1>2 DEF Range
  <1>5. ASSUME IsInjective(s) PROVE IsInjective(t) /\ Head(s) \notin Range(t)
    <2>1. \A i \in DOMAIN t : i \in Nat /\ i + 1 \in DOMAIN s /\ t[i] = s[i + 1] /\ i + 1 # 1
      BY <1>0, <1>1, <1>3
    <2> QED BY ONLY <2>1, <1>2, <1>5 DEF Range, IsInjective
  <1> QED BY <1>0, <1>1, <1>2, <1>4, <1>5 DEF Range, Sacado

\* a is to the left of b in s.
Antes(s, a, b) == \E i, j \in DOMAIN s : i < j /\ s[i] = a /\ s[j] = b

\* t is s without e, and the others keep their order.
Sin(t, s, e, S) ==
  /\ t \in Seq(S) /\ Range(t) = Range(s) \ {e} /\ IsInjective(t)
  /\ \A a, b \in Range(t) : Antes(t, a, b) <=> Antes(s, a, b)
  /\ s[Len(s)] # e => Len(t) > 0 /\ t[Len(t)] = s[Len(s)]

\* A PCB leaves the list of arrivals.
LEMMA QuitaRango ==
  ASSUME NEW S, NEW s \in Seq(S), NEW e \in Range(s), IsInjective(s),
         NEW t, t = RemoveFirst(s, e)
  PROVE  Sin(t, s, e, S)
  <1>0. Len(s) \in Nat /\ DOMAIN s = 1..Len(s)
    OBVIOUS
  <1>1. PICK k \in 1..Len(s) : s[k] = e /\ t = RemoveAt(s, k)
    <2> DEFINE P == {i \in 1..Len(s) : s[i] = e}
    <2>1. P # {} /\ P \subseteq Nat
      BY <1>0 DEF Range
    <2>2. PICK m \in P : \A i \in P : m <= i
      <3> HIDE DEF P
      <3> QED BY <2>1, Minimo
    <2>3. Min(P) = m
      <3>1. \A i \in P : i \in Nat
        BY <1>0
      <3> HIDE DEF P
      <3> QED BY <2>2, <3>1 DEF Min
    <2>4. SelectInSeq(s, LAMBDA v : v = e) = m
      BY <2>1, <2>3 DEF SelectInSeq
    <2>5. \E i \in 1..Len(s) : s[i] = e
      BY <2>1
    <2>6. t = RemoveAt(s, m)
      BY <2>4, <2>5 DEF RemoveFirst
    <2> QED BY <2>2, <2>6
  <1>2. t \in Seq(S) /\ Quitado(t, s, k)
    BY <1>1, QuitaElementos
  <1>3. Len(t) = Len(s) - 1 /\ DOMAIN t = 1..(Len(s) - 1)
    BY <1>2 DEF Quitado
  <1>4. \A i \in DOMAIN t : i \in Nat /\ \/ i < k /\ t[i] = s[i] /\ i \in DOMAIN s
                                         \/ i >= k /\ t[i] = s[i + 1] /\ i + 1 \in DOMAIN s
    BY <1>0, <1>2, <1>3 DEF Quitado
  <1>5. \A i \in DOMAIN s : \/ i < k /\ i \in DOMAIN t /\ t[i] = s[i]
                            \/ i = k
                            \/ i > k /\ i - 1 \in DOMAIN t /\ t[i - 1] = s[i]
    <2> SUFFICES ASSUME NEW i \in DOMAIN s
                 PROVE  \/ i < k /\ i \in DOMAIN t /\ t[i] = s[i]
                        \/ i = k
                        \/ i > k /\ i - 1 \in DOMAIN t /\ t[i - 1] = s[i]
      OBVIOUS
    <2>1. CASE i < k
      BY <1>0, <1>2, <1>3, <2>1 DEF Quitado
    <2>2. CASE i > k
      <3>1. i - 1 \in k..(Len(s) - 1) /\ (i - 1) + 1 = i
        BY <1>0, <2>2
      <3> QED BY <1>0, <1>2, <1>3, <2>2, <3>1 DEF Quitado
    <2> QED BY <1>0, <2>1, <2>2
  <1>6. \A i, j \in DOMAIN s : s[i] = s[j] => i = j
    BY DEF IsInjective
  <1>7. k \in DOMAIN s /\ k \in Nat
    BY <1>0
  <1>8. Range(t) = Range(s) \ {e}
    <2>1. ASSUME NEW i \in DOMAIN t PROVE t[i] \in Range(s) \ {e}
      BY <1>1, <1>4, <1>6, <1>7 DEF Range
    <2>2. ASSUME NEW i \in DOMAIN s, s[i] # e PROVE s[i] \in Range(t)
      BY <1>1, <1>5, <2>2 DEF Range
    <2> QED BY <2>1, <2>2 DEF Range
  <1>9. IsInjective(t)
    <2> SUFFICES ASSUME NEW i \in DOMAIN t, NEW j \in DOMAIN t, t[i] = t[j] PROVE i = j
      BY DEF IsInjective
    <2> QED BY <1>4, <1>6, <1>7
  <1>10. ASSUME NEW a \in Range(t), NEW b \in Range(t) PROVE Antes(t, a, b) <=> Antes(s, a, b)
    <2>1. ASSUME Antes(t, a, b) PROVE Antes(s, a, b)
      <3>1. PICK i \in DOMAIN t, j \in DOMAIN t : i < j /\ t[i] = a /\ t[j] = b
        BY <2>1 DEF Antes
      <3>2. PICK x \in DOMAIN s, y \in DOMAIN s : x < y /\ s[x] = a /\ s[y] = b
        BY <3>1, <1>4, <1>7
      <3> QED BY <3>2 DEF Antes
    <2>2. ASSUME Antes(s, a, b) PROVE Antes(t, a, b)
      <3>1. PICK i \in DOMAIN s, j \in DOMAIN s : i < j /\ s[i] = a /\ s[j] = b
        BY <2>2 DEF Antes
      <3>2. i # k /\ j # k
        BY <3>1, <1>1, <1>8
      <3>3. PICK x \in DOMAIN t, y \in DOMAIN t : x < y /\ t[x] = a /\ t[y] = b
        BY <3>1, <3>2, <1>0, <1>5, <1>7
      <3> QED BY <3>3 DEF Antes
    <2> QED BY <2>1, <2>2
  <1>11. ASSUME s[Len(s)] # e PROVE Len(t) > 0 /\ t[Len(t)] = s[Len(s)]
    <2>1. k < Len(s) /\ Len(s) - 1 \in k..(Len(s) - 1) /\ (Len(s) - 1) + 1 = Len(s)
      BY <1>0, <1>1, <1>11
    <2>2. t[Len(s) - 1] = s[(Len(s) - 1) + 1]
      BY <1>2, <2>1 DEF Quitado
    <2> QED BY <1>0, <1>3, <2>1, <2>2
  <1> QED BY <1>2, <1>8, <1>9, <1>10, <1>11 DEF Sin

-----------------------------------------------------------------------------
(* The constants.                                                            *)

\* The scale of the estimates is a number.
LEMMA EscalaNatural == Escala \in Nat
  <1> DEFINE n == Instrucciones
             F == [k \in 1..n |-> [a \in Nat |-> 2 * a]]
             cuerpo(f) == [k \in 0..n |-> IF k = 0 THEN 1 ELSE 2 * f[k - 1]]
             potencia == CHOOSE f : f = cuerpo(f)
  <1>0. n \in Nat
    BY PlanificadorAssumption
  <1>1. PICK f \in [0..n -> Nat] : Recurre(f, 1, n, F)
    <2>1. F \in [1..n -> [Nat -> Nat]]
      OBVIOUS
    <2> HIDE DEF F, n
    <2> QED BY <1>0, <2>1, Recursion
  <1>2. f = cuerpo(f)
    <2>1. ASSUME NEW k \in 1..n PROVE f[k] = 2 * f[k - 1]
      <3>1. f[k - 1] \in Nat
        BY <1>0
      <3> QED BY <1>1, <3>1 DEF Recurre
    <2> HIDE DEF n, F
    <2> QED BY <2>1, <1>0, <1>1 DEF Recurre
  <1>3. potencia = cuerpo(potencia)
    <2> HIDE DEF cuerpo
    <2> QED BY <1>2
  <1>4. Escala = potencia[n]
    BY DEF Escala
  <1>5. potencia[0] = 1 /\ \A k \in 1..n : potencia[k] = 2 * potencia[k - 1]
    <2> HIDE DEF potencia, n
    <2> QED BY <1>0, <1>3
  <1> DEFINE T == {k \in Nat : k <= n => potencia[k] \in Nat}
  <1> HIDE DEF potencia
  <1>6. 0 \in T
    BY <1>5
  <1>7. ASSUME NEW k \in Nat, k \in T PROVE k + 1 \in T
    <2> HIDE DEF n
    <2>1. CASE k + 1 <= n
      <3>1. potencia[k] \in Nat /\ potencia[k + 1] = 2 * potencia[k]
        BY <1>0, <1>5, <1>7, <2>1
      <3> QED BY <3>1
    <2>2. CASE ~(k + 1 <= n)
      BY <2>2
    <2> QED BY <2>1, <2>2
  <1>8. n \in T
    <2> HIDE DEF T
    <2> QED BY <1>0, <1>6, <1>7, Induccion
  <1> QED BY <1>0, <1>4, <1>8

\* The size of a set with one more element.
LEMMA UnoMas ==
  ASSUME NEW S, IsFiniteSet(S), NEW x, x \notin S, NEW n, Cardinality(S) = n
  PROVE  IsFiniteSet(S \cup {x}) /\ Cardinality(S \cup {x}) = n + 1
  BY FS_AddElement

\* The four PRI_* of a pp.conf are the four places, each of one queue.
LEMMA LapBuena ==
  ASSUME NEW c \in Configuraciones
  PROVE  c.lap \in [1..4 -> ColasSts] /\ Range(c.lap) = ColasSts
  <1>1. Cardinality(ColasSts) = 4
    <2> DEFINE A == {"nuevos"}
               B == A \cup {"reanudar"}
               C == B \cup {"fin_quantum"}
               D == C \cup {"fin_bloqueados"}
    <2>1. "reanudar" \notin A /\ "fin_quantum" \notin B /\ "fin_bloqueados" \notin C
      OBVIOUS
    <2>2. ColasSts = D
      BY DEF ColasSts
    <2>3. IsFiniteSet(A) /\ Cardinality(A) = 1
      BY FS_Singleton
    <2> HIDE DEF A
    <2>4. IsFiniteSet(B) /\ Cardinality(B) = 2
      BY <2>1, <2>3, UnoMas
    <2> HIDE DEF B
    <2>5. IsFiniteSet(C) /\ Cardinality(C) = 3
      BY <2>1, <2>4, UnoMas
    <2> HIDE DEF C
    <2>6. IsFiniteSet(D) /\ Cardinality(D) = 4
      BY <2>1, <2>5, UnoMas
    <2> QED BY <2>2, <2>6
  <1>2. c.lap \in [1..4 -> ColasSts] /\ \A i, j \in 1..4 : i # j => c.lap[i] # c.lap[j]
    BY <1>1, ConfiguracionesAssumption DEF SetToSeqs
  <1>3. DOMAIN c.lap = 1..4 /\ 1 \in 1..4 /\ 2 \in 1..4 /\ 3 \in 1..4 /\ 4 \in 1..4
    BY <1>2
  <1>4. ASSUME NEW q \in ColasSts PROVE \E i \in 1..4 : c.lap[i] = q
    <2>1. /\ c.lap[1] \in ColasSts /\ c.lap[2] \in ColasSts
          /\ c.lap[3] \in ColasSts /\ c.lap[4] \in ColasSts
      BY <1>2, <1>3
    <2>2. /\ c.lap[1] # c.lap[2] /\ c.lap[1] # c.lap[3] /\ c.lap[1] # c.lap[4]
          /\ c.lap[2] # c.lap[3] /\ c.lap[2] # c.lap[4] /\ c.lap[3] # c.lap[4]
      BY <1>2, <1>3
    <2> QED BY <1>3, <2>1, <2>2 DEF ColasSts
  <1> QED BY <1>2, <1>3, <1>4 DEF Range

-----------------------------------------------------------------------------
(* Where a PCB is.                                                           *)

\* p has the CPU: it was dispatched, and is not away nor in a queue again.
EnCpu(p) == procer.pcb = p /\ procer.sigue

\* The locals of the STS and of procer.
Locales ==
  /\ sts.fase = "busca" <=> sts.pcb = Nadie
  /\ procer.fase = "espera" <=> procer.pcb = Nadie
  /\ procer.fase = "ejecuta" => procer.sigue
  /\ procer.sigue => procer.fase # "espera"

\* A process that has not ended has an instruction left.
Vivos == \A p \in Procesos : destino[p] # "fin" => restan[p] > 0

\* A PCB is in one of the four queues, with the STS, in cola_listos, on the CPU
\* or away, and in one of them only.
Lugares ==
  /\ \A q \in ColasSts : IsInjective(cola[q])
  /\ \A q, r \in ColasSts : \A p \in Procesos :
       p \in Range(cola[q]) /\ p \in Range(cola[r]) => q = r
  /\ \A q \in ColasSts : \A p \in Procesos : p \in Range(cola[q]) =>
       destino[p] = "adentro" /\ p \notin Range(listos) /\ sts.pcb # p /\ ~EnCpu(p)
  /\ \A p \in Procesos : p \in Range(listos) =>
       destino[p] = "adentro" /\ sts.pcb # p /\ ~EnCpu(p)
  /\ \A p \in Procesos : sts.pcb = p => destino[p] = "adentro" /\ ~EnCpu(p)
  /\ \A p \in Procesos : EnCpu(p) => destino[p] = "adentro"

\* The PCB about to be inserted is the last one that arrived.
UltimaLlegada ==
  sts.fase = "inserta" => llegadas # <<>> /\ llegadas[Len(llegadas)] = sts.pcb

Inv == TypeOK /\ Locales /\ Vivos /\ Lugares /\ UltimaLlegada

\* The queues d are the queues c, with p at the end of q.
ConUnoMas(d, c, q, p) ==
  /\ d \in [ColasSts -> Seq(Procesos)]
  /\ \A r \in ColasSts : IsInjective(d[r])
  /\ \A r \in ColasSts : r # q => Range(d[r]) = Range(c[r])
  /\ Range(d[q]) = Range(c[q]) \cup {p}

\* The queues d are the queues c without p, the first of q.
ConUnoMenos(d, c, q, p) ==
  /\ d \in [ColasSts -> Seq(Procesos)]
  /\ \A r \in ColasSts : IsInjective(d[r])
  /\ \A r \in ColasSts : r # q => Range(d[r]) = Range(c[r])
  /\ p \in Procesos /\ p \notin Range(d[q]) /\ Range(c[q]) = Range(d[q]) \cup {p}

\* A PCB goes to the end of one of the queues.
LEMMA AgregaACola ==
  ASSUME NEW c \in [ColasSts -> Seq(Procesos)], NEW q \in ColasSts,
         NEW p \in Procesos, p \notin Range(c[q]),
         \A r \in ColasSts : IsInjective(c[r]),
         NEW d, d = [c EXCEPT ![q] = Append(c[q], p)]
  PROVE  ConUnoMas(d, c, q, p)
  <1>1. PICK s : s = c[q]
    OBVIOUS
  <1>2. PICK t : t = Append(s, p)
    OBVIOUS
  <1>3. s \in Seq(Procesos) /\ IsInjective(s) /\ p \notin Range(s)
    BY <1>1
  <1>4. t \in Seq(Procesos) /\ Range(t) = Range(s) \cup {p} /\ IsInjective(t)
    <2>1. Agregado(t, s, p, Procesos)
      BY <1>2, <1>3, AgregaRango
    <2> QED BY <1>3, <2>1 DEF Agregado
  <1>5. d = [c EXCEPT ![q] = t]
    BY <1>1, <1>2
  <1>6. d[q] = t /\ \A r \in ColasSts : r # q => d[r] = c[r]
    BY ONLY <1>5, c \in [ColasSts -> Seq(Procesos)], q \in ColasSts
  <1>7. d \in [ColasSts -> Seq(Procesos)]
    BY ONLY <1>4, <1>5, c \in [ColasSts -> Seq(Procesos)], q \in ColasSts
  <1> QED BY <1>1, <1>4, <1>6, <1>7 DEF ConUnoMas

\* The first of one of the queues leaves it.
LEMMA SacaDeCola ==
  ASSUME NEW c \in [ColasSts -> Seq(Procesos)], NEW q \in ColasSts, c[q] # <<>>,
         \A r \in ColasSts : IsInjective(c[r]),
         NEW p, p = Head(c[q]),
         NEW d, d = [c EXCEPT ![q] = Tail(c[q])]
  PROVE  ConUnoMenos(d, c, q, p)
  <1>1. PICK s : s = c[q]
    OBVIOUS
  <1>2. PICK t : t = Tail(s)
    OBVIOUS
  <1>3. s \in Seq(Procesos) /\ IsInjective(s) /\ s # <<>> /\ p = Head(s)
    BY <1>1
  <1>4. /\ t \in Seq(Procesos) /\ p \in Procesos /\ Range(s) = Range(t) \cup {p}
        /\ IsInjective(t) /\ p \notin Range(t)
    <2>1. Sacado(t, s, Procesos)
      BY <1>2, <1>3, SacaRango
    <2> QED BY <1>3, <2>1 DEF Sacado
  <1>5. d = [c EXCEPT ![q] = t]
    BY <1>1, <1>2
  <1>6. d[q] = t /\ \A r \in ColasSts : r # q => d[r] = c[r]
    BY ONLY <1>5, c \in [ColasSts -> Seq(Procesos)], q \in ColasSts
  <1>7. d \in [ColasSts -> Seq(Procesos)]
    BY ONLY <1>4, <1>5, c \in [ColasSts -> Seq(Procesos)], q \in ColasSts
  <1> QED BY <1>1, <1>4, <1>6, <1>7 DEF ConUnoMenos

\* inicializar_configuracion and the first value of everything.
LEMMA Inicial == Init => Inv
  <1> SUFFICES ASSUME Init PROVE Inv
    OBVIOUS
  <1>1. PICK conf \in Configuraciones :
          /\ cola = [q \in ColasSts |-> <<>>]
          /\ listos = <<>> /\ llegadas = <<>>
          /\ lista_auxiliar_prioridades = conf.lap
          /\ algoritmo_ordenamiento = ComparadorDe(conf.algoritmo)
          /\ quantum = QuantumDe(conf)
          /\ ultima_rafaga = [p \in Procesos |-> 0]
          /\ valor_estimacion_anterior = [p \in Procesos |-> Lineas[p] * Escala]
          /\ restan = [p \in Procesos |-> Instrucciones]
          /\ destino = [p \in Procesos |-> "nuevos"]
          /\ sts = [fase |-> "busca", indice |-> 1, pcb |-> Nadie,
                    comparador |-> algoritmo_ordenamiento]
          /\ procer = [fase |-> "espera", pcb |-> Nadie, sigue |-> FALSE]
          /\ monitor = [fase |-> "espera", falta |-> 1, conf |-> conf]
          /\ recargas = 0 /\ desorden = {}
    BY DEF Init
  <1>2. Range(<<>>) = {} /\ IsInjective(<<>>)
    BY DEF Range, IsInjective
  <1>3. ComparadorDe(conf.algoritmo) \in Comparadores /\ QuantumDe(conf) \in Nat
    BY ConfiguracionesAssumption DEF ComparadorDe, QuantumDe, Comparadores
  <1>4. TypeOK
    <2>1. valor_estimacion_anterior \in [Procesos -> Nat]
      BY <1>1, EscalaNatural, PlanificadorAssumption
    <2>2. restan \in [Procesos -> 0..Instrucciones]
      BY <1>1, PlanificadorAssumption
    <2>3. /\ cola \in [ColasSts -> Seq(Procesos)]
          /\ listos \in Seq(Procesos) /\ llegadas \in Seq(Procesos)
      BY <1>1
    <2>4. destino \in [Procesos -> ColasSts \cup {"adentro", "fin"}]
      BY <1>1 DEF ColasSts
    <2>5. /\ sts \in [fase : {"busca", "tiene", "inserta"}, indice : 1..4,
                      pcb : Procesos \cup {Nadie}, comparador : Comparadores]
          /\ procer \in [fase : {"espera", "ejecuta", "cuenta"},
                         pcb : Procesos \cup {Nadie}, sigue : BOOLEAN]
          /\ monitor \in [fase : {"espera", "algoritmo", "lap", "orden"},
                          falta : 1..4, conf : Configuraciones]
      BY <1>1, <1>3
    <2>6. Range(llegadas) = Range(listos) \cup
                              (IF sts.fase = "inserta" THEN {sts.pcb} ELSE {})
      BY <1>1, <1>2
    <2> QED BY <1>1, <1>2, <1>3, <2>1, <2>2, <2>3, <2>4, <2>5, <2>6, LapBuena,
               PlanificadorAssumption DEF TypeOK
  <1>5. Locales /\ Vivos /\ UltimaLlegada
    BY <1>1, PlanificadorAssumption DEF Locales, Vivos, UltimaLlegada
  <1>6. Lugares
    <2>1. \A q \in ColasSts : Range(cola[q]) = {} /\ IsInjective(cola[q])
      BY <1>1, <1>2
    <2>2. Range(listos) = {} /\ \A p \in Procesos : sts.pcb # p /\ ~EnCpu(p)
      BY <1>1, <1>2, PlanificadorAssumption DEF EnCpu
    <2> QED BY <2>1, <2>2 DEF Lugares
  <1> QED BY <1>4, <1>5, <1>6 DEF Inv

\* A push to cola_nuevos or cola_reanudar keeps Inv.
LEMMA PasoLlega ==
  ASSUME Inv, NEW p \in Procesos, Llega(p)
  PROVE  Inv'
  <1>1. PICK q \in ColasSts : q = destino[p]
    BY DEF Llega
  <1>2. /\ cola' = [cola EXCEPT ![q] = Append(cola[q], p)]
        /\ destino' = [destino EXCEPT ![p] = "adentro"]
        /\ UNCHANGED <<listos, llegadas, ultima_rafaga, valor_estimacion_anterior,
                       restan, lista_auxiliar_prioridades, algoritmo_ordenamiento,
                       quantum, monitor, recargas, sts, procer>>
    BY <1>1 DEF Llega, configuracion
  <1>3. destino[p] # "adentro" /\ destino[p] # "fin"
    BY <1>1 DEF ColasSts
  <1>4. /\ \A r \in ColasSts : p \notin Range(cola[r])
        /\ p \notin Range(listos) /\ sts.pcb # p /\ ~EnCpu(p)
    BY <1>3 DEF Inv, Lugares
  <1>5. ConUnoMas(cola', cola, q, p)
    <2>1. cola \in [ColasSts -> Seq(Procesos)] /\ \A r \in ColasSts : IsInjective(cola[r])
      BY DEF Inv, TypeOK, Lugares
    <2> QED BY <1>2, <1>4, <2>1, AgregaACola
  <1>6. TypeOK'
    <2>1. destino' \in [Procesos -> ColasSts \cup {"adentro", "fin"}]
      BY <1>2 DEF Inv, TypeOK
    <2> QED BY <1>2, <1>5, <2>1 DEF Inv, TypeOK, ConUnoMas
  <1>7. Locales' /\ UltimaLlegada'
    BY <1>2 DEF Inv, Locales, UltimaLlegada
  <1>8. destino'[p] = "adentro" /\ \A x \in Procesos : x # p => destino'[x] = destino[x]
    BY <1>2 DEF Inv, TypeOK
  <1>9. Vivos'
    BY <1>2, <1>3, <1>8 DEF Inv, Vivos
  <1>10. \A x : EnCpu(x)' <=> EnCpu(x)
    BY <1>2 DEF EnCpu
  <1>11. Lugares'
    BY <1>2, <1>4, <1>5, <1>8, <1>10 DEF Inv, Lugares, ConUnoMas
  <1> QED BY <1>6, <1>7, <1>9, <1>11 DEF Inv

\* The queue looked at is empty, or its first goes with the STS.
LEMMA PasoBusca ==
  ASSUME Inv, StsBusca
  PROVE  Inv'
  <1>1. PICK q \in ColasSts : q = lista_auxiliar_prioridades[sts.indice]
    BY DEF Inv, TypeOK
  <1>2. /\ sts.fase = "busca" /\ sts.pcb = Nadie
        /\ UNCHANGED <<listos, llegadas, ultima_rafaga, valor_estimacion_anterior,
                       restan, destino, lista_auxiliar_prioridades,
                       algoritmo_ordenamiento, quantum, monitor, recargas, procer>>
    BY DEF StsBusca, pcbs, configuracion, Inv, Locales
  <1>3. \A x : EnCpu(x)' <=> EnCpu(x)
    BY <1>2 DEF EnCpu
  <1>4. CASE cola[q] = <<>>
    <2>1. /\ sts' = [sts EXCEPT !.indice = IF @ = 4 THEN 1 ELSE @ + 1]
          /\ UNCHANGED cola
      BY <1>1, <1>4 DEF StsBusca
    <2>2. /\ sts' \in [fase : {"busca", "tiene", "inserta"}, indice : 1..4,
                       pcb : Procesos \cup {Nadie}, comparador : Comparadores]
          /\ sts'.fase = sts.fase /\ sts'.pcb = sts.pcb
      <3>1. PICK i \in 1..4 : i = IF sts.indice = 4 THEN 1 ELSE sts.indice + 1
        <4>1. sts.indice \in 1..4
          BY DEF Inv, TypeOK
        <4> QED BY ONLY <4>1
      <3>2. sts' = [sts EXCEPT !.indice = i]
        BY <2>1, <3>1
      <3> QED BY <3>2 DEF Inv, TypeOK
    <2>3. TypeOK'
      BY <1>2, <2>1, <2>2 DEF Inv, TypeOK
    <2>4. Locales' /\ Vivos' /\ UltimaLlegada'
      BY <1>2, <2>2 DEF Inv, Locales, Vivos, UltimaLlegada
    <2>5. Lugares'
      BY <1>2, <1>3, <2>1, <2>2 DEF Inv, Lugares
    <2> QED BY <2>3, <2>4, <2>5 DEF Inv
  <1>5. CASE cola[q] # <<>>
    <2>1. PICK p : p = Head(cola[q])
      OBVIOUS
    <2>2. /\ sts' = [sts EXCEPT !.fase = "tiene", !.indice = 1, !.pcb = p]
          /\ cola' = [cola EXCEPT ![q] = Tail(cola[q])]
      BY <1>1, <1>5, <2>1 DEF StsBusca
    <2>3. ConUnoMenos(cola', cola, q, p)
      <3>1. cola \in [ColasSts -> Seq(Procesos)] /\ \A r \in ColasSts : IsInjective(cola[r])
        BY DEF Inv, TypeOK, Lugares
      <3> QED BY <1>5, <2>1, <2>2, <3>1, SacaDeCola
    <2>4. p \in Procesos /\ p \in Range(cola[q])
      BY <2>3 DEF ConUnoMenos
    <2>5. p # Nadie
      BY <2>4, PlanificadorAssumption
    <2>6. /\ sts' \in [fase : {"busca", "tiene", "inserta"}, indice : 1..4,
                       pcb : Procesos \cup {Nadie}, comparador : Comparadores]
          /\ sts'.fase = "tiene" /\ sts'.pcb = p
      <3>1. sts' = [fase |-> "tiene", indice |-> 1, pcb |-> p,
                    comparador |-> sts.comparador]
        BY <2>2 DEF Inv, TypeOK
      <3> QED BY <2>4, <3>1 DEF Inv, TypeOK
    <2>7. TypeOK'
      BY <1>2, <2>3, <2>6 DEF Inv, TypeOK, ConUnoMenos
    <2>8. Locales' /\ Vivos' /\ UltimaLlegada'
      <3>1. Locales'
        BY <1>2, <2>5, <2>6 DEF Inv, Locales
      <3>2. Vivos' /\ UltimaLlegada'
        BY <1>2, <2>6 DEF Inv, Vivos, UltimaLlegada
      <3> QED BY <3>1, <3>2
    <2>9. /\ destino[p] = "adentro" /\ p \notin Range(listos) /\ ~EnCpu(p)
          /\ \A r \in ColasSts : p \notin Range(cola'[r])
      BY <2>3, <2>4 DEF Inv, Lugares, ConUnoMenos
    <2>10. Lugares'
      BY <1>2, <1>3, <2>3, <2>6, <2>9 DEF Inv, Lugares, ConUnoMenos
    <2> QED BY <2>7, <2>8, <2>10 DEF Inv
  <1> QED BY <1>4, <1>5

\* The PCB gets its arrival, the last one.
LEMMA PasoLee ==
  ASSUME Inv, StsLee
  PROVE  Inv'
  <1>1. PICK p \in Procesos : p = sts.pcb
    BY DEF StsLee, Inv, TypeOK, Locales
  <1>2. /\ sts.fase = "tiene" /\ llegadas' = Append(llegadas, p)
        /\ sts' = [sts EXCEPT !.fase = "inserta", !.comparador = algoritmo_ordenamiento]
        /\ UNCHANGED <<cola, listos, ultima_rafaga, valor_estimacion_anterior,
                       restan, destino, lista_auxiliar_prioridades,
                       algoritmo_ordenamiento, quantum, monitor, recargas, procer>>
    BY <1>1 DEF StsLee, pcbs, configuracion
  <1>3. /\ sts' \in [fase : {"busca", "tiene", "inserta"}, indice : 1..4,
                     pcb : Procesos \cup {Nadie}, comparador : Comparadores]
        /\ sts'.fase = "inserta" /\ sts'.pcb = p
    BY <1>1, <1>2 DEF Inv, TypeOK
  <1>4. p \notin Range(listos) /\ Range(llegadas) = Range(listos)
    BY <1>1, <1>2 DEF Inv, TypeOK, Lugares
  <1>5. Agregado(llegadas', llegadas, p, Procesos)
    BY <1>2, AgregaRango DEF Inv, TypeOK
  <1>6. /\ llegadas' \in Seq(Procesos) /\ IsInjective(llegadas')
        /\ Range(llegadas') = Range(listos) \cup {p}
        /\ llegadas' # <<>> /\ llegadas'[Len(llegadas')] = p
    <2>1. /\ llegadas' \in Seq(Procesos) /\ IsInjective(llegadas')
          /\ Range(llegadas') = Range(listos) \cup {p}
      BY <1>4, <1>5 DEF Inv, TypeOK, Agregado
    <2>2. Len(llegadas) \in Nat /\ Len(llegadas') = Len(llegadas) + 1
          /\ llegadas'[Len(llegadas) + 1] = p
      BY <1>5 DEF Inv, TypeOK, Agregado
    <2> QED BY <2>1, <2>2
  <1>7. TypeOK'
    BY <1>2, <1>3, <1>6 DEF Inv, TypeOK
  <1>8. Locales' /\ Vivos' /\ UltimaLlegada'
    BY <1>1, <1>2, <1>3, <1>6 DEF Inv, Locales, Vivos, UltimaLlegada
  <1>9. \A x : EnCpu(x)' <=> EnCpu(x)
    BY <1>2 DEF EnCpu
  <1>10. Lugares'
    BY <1>1, <1>2, <1>3, <1>9 DEF Inv, Lugares
  <1> QED BY <1>7, <1>8, <1>10 DEF Inv

\* The PCB of the STS goes to its place in cola_listos.
LEMMA PasoInserta ==
  ASSUME Inv, StsInserta
  PROVE  Inv'
  <1>1. PICK p \in Procesos : p = sts.pcb
    BY DEF StsInserta, Inv, TypeOK, Locales
  <1>2. /\ sts.fase = "inserta"
        /\ listos' = InsertaOrdenado(listos, p, Relacion(sts.comparador))
        /\ sts' = [sts EXCEPT !.fase = "busca", !.pcb = Nadie]
        /\ UNCHANGED <<cola, llegadas, ultima_rafaga, valor_estimacion_anterior,
                       restan, destino, lista_auxiliar_prioridades,
                       algoritmo_ordenamiento, quantum, monitor, recargas, procer>>
    BY <1>1 DEF StsInserta, pcbs, configuracion
  <1>3. /\ sts' \in [fase : {"busca", "tiene", "inserta"}, indice : 1..4,
                     pcb : Procesos \cup {Nadie}, comparador : Comparadores]
        /\ sts'.fase = "busca" /\ sts'.pcb = Nadie
    <2>1. sts' = [fase |-> "busca", indice |-> sts.indice, pcb |-> Nadie,
                  comparador |-> sts.comparador]
      BY <1>2 DEF Inv, TypeOK
    <2> QED BY <2>1 DEF Inv, TypeOK
  <1>4. p \notin Range(listos) /\ destino[p] = "adentro" /\ ~EnCpu(p)
        /\ \A q \in ColasSts : p \notin Range(cola[q])
    BY <1>1 DEF Inv, Lugares
  <1>5. /\ listos' \in Seq(Procesos) /\ Range(listos') = Range(listos) \cup {p}
        /\ IsInjective(listos')
    <2>1. listos \in Seq(Procesos) /\ IsInjective(listos)
      BY DEF Inv, TypeOK
    <2> QED BY <1>2, <1>4, <2>1, InsercionRango
  <1>6. TypeOK'
    BY <1>1, <1>2, <1>3, <1>5 DEF Inv, TypeOK
  <1>7. Locales' /\ Vivos' /\ UltimaLlegada'
    BY <1>2, <1>3 DEF Inv, Locales, Vivos, UltimaLlegada
  <1>8. \A x : EnCpu(x)' <=> EnCpu(x)
    BY <1>2 DEF EnCpu
  <1>9. Lugares'
    BY <1>2, <1>3, <1>4, <1>5, <1>8, PlanificadorAssumption DEF Inv, Lugares
  <1> QED BY <1>6, <1>7, <1>9 DEF Inv

\* What the estimate becomes is a number.
LEMMA EstimacionNatural ==
  ASSUME NEW p \in Procesos, TypeOK
  PROVE  Estimacion(p) \in Nat
  <1>1. valor_estimacion_anterior[p] \in Nat /\ ultima_rafaga[p] \in Nat
    BY DEF TypeOK
  <1>2. ultima_rafaga[p] * Escala \in Nat
    BY <1>1, EscalaNatural
  <1>3. \A n \in Nat : n \div 2 \in Nat
    OBVIOUS
  <1> QED BY <1>1, <1>2, <1>3 DEF Estimacion, calcular_rafaga

\* The first of cola_listos gets the CPU.
LEMMA PasoToma ==
  ASSUME Inv, ProcerToma
  PROVE  Inv'
  <1>0. listos \in Seq(Procesos) /\ listos # <<>> /\ IsInjective(listos)
        /\ llegadas \in Seq(Procesos) /\ IsInjective(llegadas)
    BY DEF ProcerToma, Inv, TypeOK
  <1>1. PICK p : p = Head(listos)
    OBVIOUS
  <1>2. /\ procer.fase = "espera" /\ listos' = Tail(listos)
        /\ llegadas' = RemoveFirst(llegadas, p)
        /\ valor_estimacion_anterior' =
             [valor_estimacion_anterior EXCEPT ![p] = Estimacion(p)]
        /\ ultima_rafaga' = [ultima_rafaga EXCEPT ![p] = 0]
        /\ procer' = [fase |-> "ejecuta", pcb |-> p, sigue |-> TRUE]
        /\ UNCHANGED <<cola, restan, destino, lista_auxiliar_prioridades,
                       algoritmo_ordenamiento, quantum, monitor, recargas, sts>>
    BY <1>1 DEF ProcerToma, configuracion
  <1>3. Sacado(listos', listos, Procesos)
    BY <1>0, <1>2, SacaRango
  <1>4. /\ p \in Procesos /\ listos' \in Seq(Procesos) /\ IsInjective(listos')
        /\ p \notin Range(listos') /\ Range(listos) = Range(listos') \cup {p}
    BY <1>0, <1>1, <1>3 DEF Sacado
  <1>5. /\ sts.pcb # p /\ destino[p] = "adentro"
        /\ \A q \in ColasSts : p \notin Range(cola[q])
    BY <1>4 DEF Inv, Lugares
  <1>6. p \in Range(llegadas)
    BY <1>4 DEF Inv, TypeOK
  <1>7. Sin(llegadas', llegadas, p, Procesos)
    BY <1>0, <1>2, <1>6, QuitaRango
  <1>8. /\ llegadas' \in Seq(Procesos) /\ IsInjective(llegadas')
        /\ Range(llegadas') = Range(llegadas) \ {p}
    BY <1>7 DEF Sin
  <1>9. TypeOK'
    <2>1. valor_estimacion_anterior' \in [Procesos -> Nat]
          /\ ultima_rafaga' \in [Procesos -> Nat]
      <3>1. Estimacion(p) \in Nat
        BY <1>4, EstimacionNatural DEF Inv
      <3> QED BY <1>2, <3>1 DEF Inv, TypeOK
    <2>2. Range(llegadas') = Range(listos') \cup
                               (IF sts'.fase = "inserta" THEN {sts'.pcb} ELSE {})
      BY <1>2, <1>4, <1>5, <1>8 DEF Inv, TypeOK
    <2>3. procer' \in [fase : {"espera", "ejecuta", "cuenta"},
                       pcb : Procesos \cup {Nadie}, sigue : BOOLEAN]
      BY <1>2, <1>4
    <2> QED BY <1>2, <1>4, <1>8, <2>1, <2>2, <2>3 DEF Inv, TypeOK
  <1>10. Locales' /\ Vivos'
    BY <1>2, <1>4, PlanificadorAssumption DEF Inv, Locales, Vivos
  <1>11. UltimaLlegada'
    <2> SUFFICES ASSUME sts'.fase = "inserta"
                 PROVE  llegadas' # <<>> /\ llegadas'[Len(llegadas')] = sts'.pcb
      BY DEF UltimaLlegada
    <2>1. llegadas[Len(llegadas)] = sts.pcb /\ sts.pcb # p
      BY <1>2, <1>5 DEF Inv, UltimaLlegada
    <2>2. Len(llegadas') > 0 /\ llegadas'[Len(llegadas')] = sts.pcb
      BY <1>7, <2>1 DEF Sin
    <2> QED BY <1>2, <1>8, <2>2
  <1>12. Lugares'
    <2>1. \A x \in Procesos : EnCpu(x)' <=> x = p
      BY <1>2 DEF EnCpu
    <2> QED BY <1>2, <1>4, <1>5, <2>1 DEF Inv, Lugares
  <1> QED BY <1>9, <1>10, <1>11, <1>12 DEF Inv

\* An instruction of the process on the CPU: it goes on, is pushed back, or
\* goes away.
LEMMA PasoEjecuta ==
  ASSUME Inv, ProcerEjecuta
  PROVE  Inv'
  <1>1. PICK p \in Procesos : p = procer.pcb
    BY DEF ProcerEjecuta, Inv, TypeOK, Locales
  <1>2. /\ procer.fase = "ejecuta" /\ restan' = [restan EXCEPT ![p] = restan[p] - 1]
        /\ UNCHANGED <<listos, llegadas, ultima_rafaga, valor_estimacion_anterior,
                       lista_auxiliar_prioridades, algoritmo_ordenamiento, quantum,
                       monitor, recargas, sts>>
    BY <1>1 DEF ProcerEjecuta, configuracion
  <1>3. /\ EnCpu(p) /\ destino[p] = "adentro"
        /\ restan[p] \in 0..Instrucciones /\ restan[p] > 0
    <2>1. EnCpu(p) /\ destino[p] = "adentro"
      BY <1>1, <1>2 DEF EnCpu, Inv, Locales, Lugares
    <2>2. restan[p] \in 0..Instrucciones /\ restan[p] > 0
      BY <2>1 DEF Inv, TypeOK, Vivos
    <2> QED BY <2>1, <2>2
  <1>4. /\ p \notin Range(listos) /\ sts.pcb # p
        /\ \A q \in ColasSts : p \notin Range(cola[q])
    BY <1>3 DEF Inv, Lugares
  <1>5. /\ restan' \in [Procesos -> 0..Instrucciones] /\ restan'[p] = restan[p] - 1
        /\ \A x \in Procesos : x # p => restan'[x] = restan[x]
    <2>1. restan[p] - 1 \in 0..Instrucciones
      <3>1. Instrucciones \in Nat
        BY PlanificadorAssumption
      <3> QED BY ONLY <3>1, <1>3
    <2>2. PICK n \in 0..Instrucciones : n = restan[p] - 1
      BY <2>1
    <2>3. restan' = [restan EXCEPT ![p] = n]
      BY <1>2, <2>2
    <2> QED BY <2>2, <2>3 DEF Inv, TypeOK
  <1>6. ASSUME NEW adonde \in ColasSts \cup {"fin"}, Sale(p, adonde),
               adonde # "fin" => restan[p] > 1
        PROVE  Inv'
    <2>1. /\ procer' = [procer EXCEPT !.fase = "cuenta", !.sigue = FALSE]
          /\ destino' = [destino EXCEPT ![p] = adonde]
          /\ UNCHANGED cola
      BY <1>6 DEF Sale
    <2>2. /\ procer' \in [fase : {"espera", "ejecuta", "cuenta"},
                          pcb : Procesos \cup {Nadie}, sigue : BOOLEAN]
          /\ procer'.fase = "cuenta" /\ procer'.pcb = p /\ ~procer'.sigue
      BY <1>1, <2>1 DEF Inv, TypeOK
    <2>3. /\ destino' \in [Procesos -> ColasSts \cup {"adentro", "fin"}]
          /\ destino'[p] = adonde
          /\ \A x \in Procesos : x # p => destino'[x] = destino[x]
      BY <2>1 DEF Inv, TypeOK
    <2>4. TypeOK'
      BY <1>2, <1>5, <2>1, <2>2, <2>3 DEF Inv, TypeOK
    <2>5. Locales' /\ UltimaLlegada'
      <3>1. p # Nadie
        BY PlanificadorAssumption
      <3> QED BY <1>2, <2>2, <3>1 DEF Inv, Locales, UltimaLlegada
    <2>6. Vivos'
      BY <1>3, <1>5, <1>6, <2>3 DEF Inv, Vivos
    <2>7. \A x \in Procesos : ~EnCpu(x)'
      BY <2>2 DEF EnCpu
    <2>8. Lugares'
      BY <1>2, <1>4, <2>1, <2>3, <2>7 DEF Inv, Lugares
    <2> QED BY <2>4, <2>5, <2>6, <2>8 DEF Inv
  <1>7. CASE restan[p] = 1 /\ Sale(p, "fin")
    BY <1>6, <1>7
  <1>8. CASE restan[p] > 1 /\ \E q \in {"fin_bloqueados", "reanudar"} : Sale(p, q)
    <2>1. PICK q \in {"fin_bloqueados", "reanudar"} : Sale(p, q)
      BY <1>8
    <2>2. q \in ColasSts \cup {"fin"}
      BY DEF ColasSts
    <2> QED BY <1>6, <1>8, <2>1, <2>2
  <1>9. CASE /\ restan[p] > 1
             /\ procer' = [procer EXCEPT !.fase = "cuenta", !.sigue = FALSE]
             /\ cola' = [cola EXCEPT !["fin_quantum"] = Append(@, p)]
             /\ UNCHANGED destino
    <2>1. PICK q \in ColasSts : q = "fin_quantum"
      BY DEF ColasSts
    <2>2. cola' = [cola EXCEPT ![q] = Append(cola[q], p)]
      BY <1>9, <2>1
    <2>3. ConUnoMas(cola', cola, q, p)
      <3>1. cola \in [ColasSts -> Seq(Procesos)] /\ \A r \in ColasSts : IsInjective(cola[r])
        BY DEF Inv, TypeOK, Lugares
      <3> QED BY <1>4, <2>2, <3>1, AgregaACola
    <2>4. /\ procer' \in [fase : {"espera", "ejecuta", "cuenta"},
                          pcb : Procesos \cup {Nadie}, sigue : BOOLEAN]
          /\ procer'.fase = "cuenta" /\ procer'.pcb = p /\ ~procer'.sigue
      BY <1>1, <1>9 DEF Inv, TypeOK
    <2>5. TypeOK'
      BY <1>2, <1>5, <1>9, <2>3, <2>4 DEF Inv, TypeOK, ConUnoMas
    <2>6. Locales' /\ UltimaLlegada'
      <3>1. p # Nadie
        BY PlanificadorAssumption
      <3> QED BY <1>2, <2>4, <3>1 DEF Inv, Locales, UltimaLlegada
    <2>7. Vivos'
      BY <1>3, <1>5, <1>9 DEF Inv, Vivos
    <2>8. \A x \in Procesos : ~EnCpu(x)'
      BY <2>4 DEF EnCpu
    <2>9. Lugares'
      BY <1>2, <1>3, <1>4, <1>9, <2>3, <2>8 DEF Inv, Lugares, ConUnoMas
    <2> QED BY <2>5, <2>6, <2>7, <2>9 DEF Inv
  <1>10. CASE /\ restan[p] > 1 /\ procer' = [procer EXCEPT !.fase = "cuenta"]
              /\ UNCHANGED <<cola, destino>>
    <2>1. /\ procer' \in [fase : {"espera", "ejecuta", "cuenta"},
                          pcb : Procesos \cup {Nadie}, sigue : BOOLEAN]
          /\ procer'.fase = "cuenta" /\ procer'.pcb = p /\ procer'.sigue = procer.sigue
      BY <1>1, <1>10 DEF Inv, TypeOK
    <2>2. TypeOK'
      BY <1>2, <1>5, <1>10, <2>1 DEF Inv, TypeOK
    <2>3. Locales' /\ UltimaLlegada'
      <3>1. p # Nadie
        BY PlanificadorAssumption
      <3> QED BY <1>2, <2>1, <3>1 DEF Inv, Locales, UltimaLlegada
    <2>4. Vivos'
      BY <1>3, <1>5, <1>10 DEF Inv, Vivos
    <2>5. \A x : EnCpu(x)' <=> EnCpu(x)
      BY <1>1, <2>1 DEF EnCpu
    <2>6. Lugares'
      BY <1>2, <1>10, <2>5 DEF Inv, Lugares
    <2> QED BY <2>2, <2>3, <2>4, <2>6 DEF Inv
  <1> QED BY <1>1, <1>7, <1>8, <1>9, <1>10 DEF ProcerEjecuta

\* The burst of the PCB grows, wherever it is by now.
LEMMA PasoCuenta ==
  ASSUME Inv, ProcerCuenta
  PROVE  Inv'
  <1>1. PICK p \in Procesos : p = procer.pcb
    BY DEF ProcerCuenta, Inv, TypeOK, Locales
  <1>2. /\ procer.fase = "cuenta"
        /\ ultima_rafaga' = [ultima_rafaga EXCEPT ![p] = ultima_rafaga[p] + 1]
        /\ procer' = IF procer.sigue THEN [procer EXCEPT !.fase = "ejecuta"]
                     ELSE [fase |-> "espera", pcb |-> Nadie, sigue |-> FALSE]
        /\ UNCHANGED <<cola, listos, llegadas, valor_estimacion_anterior, restan,
                       destino, lista_auxiliar_prioridades, algoritmo_ordenamiento,
                       quantum, monitor, recargas, sts>>
    BY <1>1 DEF ProcerCuenta, configuracion
  <1>3. ultima_rafaga' \in [Procesos -> Nat]
    <2>1. ultima_rafaga \in [Procesos -> Nat]
      BY DEF Inv, TypeOK
    <2> QED BY ONLY <2>1, <1>2
  <1>4. CASE procer.sigue
    <2>1. /\ procer' \in [fase : {"espera", "ejecuta", "cuenta"},
                          pcb : Procesos \cup {Nadie}, sigue : BOOLEAN]
          /\ procer'.fase = "ejecuta" /\ procer'.pcb = p /\ procer'.sigue
      BY <1>1, <1>2, <1>4 DEF Inv, TypeOK
    <2>2. TypeOK'
      BY <1>2, <1>3, <2>1 DEF Inv, TypeOK
    <2>3. Locales' /\ Vivos' /\ UltimaLlegada'
      <3>1. p # Nadie
        BY PlanificadorAssumption
      <3> QED BY <1>2, <2>1, <3>1 DEF Inv, Locales, Vivos, UltimaLlegada
    <2>4. \A x : EnCpu(x)' <=> EnCpu(x)
      BY <1>1, <1>4, <2>1 DEF EnCpu
    <2>5. Lugares'
      BY <1>2, <2>4 DEF Inv, Lugares
    <2> QED BY <2>2, <2>3, <2>5 DEF Inv
  <1>5. CASE ~procer.sigue
    <2>1. procer' = [fase |-> "espera", pcb |-> Nadie, sigue |-> FALSE]
      BY <1>2, <1>5
    <2>a. procer' \in [fase : {"espera", "ejecuta", "cuenta"},
                       pcb : Procesos \cup {Nadie}, sigue : BOOLEAN]
      BY <2>1
    <2>2. TypeOK'
      BY <1>2, <1>3, <2>a DEF Inv, TypeOK
    <2>3. Locales' /\ Vivos' /\ UltimaLlegada'
      BY <1>2, <2>1 DEF Inv, Locales, Vivos, UltimaLlegada
    <2>4. \A x \in Procesos : ~EnCpu(x)'
      BY <2>1 DEF EnCpu
    <2>5. Lugares'
      BY <1>2, <2>4 DEF Inv, Lugares
    <2> QED BY <2>2, <2>3, <2>5 DEF Inv
  <1> QED BY <1>4, <1>5

\* A step of monitorear_configuracion leaves every PCB where it is.
LEMMA PasoRecarga ==
  ASSUME Inv, UNCHANGED <<cola, llegadas, ultima_rafaga, valor_estimacion_anterior,
                          restan, destino, sts, procer>>,
         listos' \in Seq(Procesos), Range(listos') = Range(listos), IsInjective(listos'),
         lista_auxiliar_prioridades' \in [1..4 -> ColasSts],
         algoritmo_ordenamiento' \in Comparadores, quantum' \in Nat,
         monitor' \in [fase : {"espera", "algoritmo", "lap", "orden"},
                       falta : 1..4, conf : Configuraciones],
         recargas' \in 0..Recargas
  PROVE  Inv'
  <1>1. TypeOK'
    BY DEF Inv, TypeOK
  <1>2. Locales' /\ Vivos' /\ UltimaLlegada'
    BY DEF Inv, Locales, Vivos, UltimaLlegada
  <1>3. \A x : EnCpu(x)' <=> EnCpu(x)
    BY DEF EnCpu
  <1>4. Lugares'
    BY <1>3 DEF Inv, Lugares
  <1> QED BY <1>1, <1>2, <1>4 DEF Inv

-----------------------------------------------------------------------------
(* The comparators are orders for list_sort on the PCBs that they compare.   *)

\* es_primer_pcb_mas_antiguo looks at the PCBs that have an arrival.
LEMMA OrdenDeComparador ==
  ASSUME TypeOK, NEW c \in Comparadores, NEW S, S \subseteq Range(llegadas)
  PROVE  Orden(Relacion(c), S)
  <1>0. /\ S \subseteq Procesos
        /\ \A i, j \in DOMAIN llegadas : llegadas[i] = llegadas[j] => i = j
        /\ \A a \in S : \E i \in DOMAIN llegadas : llegadas[i] = a
        /\ DOMAIN llegadas \subseteq Int
    <2>1. llegadas \in Seq(Procesos) /\ IsInjective(llegadas)
      BY DEF TypeOK
    <2>2. DOMAIN llegadas \subseteq Int /\ \A i \in DOMAIN llegadas : llegadas[i] \in Procesos
      BY <2>1
    <2>3. \A a \in S : \E i \in DOMAIN llegadas : llegadas[i] = a
      BY ONLY S \subseteq Range(llegadas) DEF Range
    <2> QED BY <2>1, <2>2, <2>3 DEF IsInjective
  <1>1. \A a, b \in S : <<a, b>> \in Relacion(c) <=> Menor(c, a, b)
    BY <1>0 DEF Relacion
  <1>2. CASE c = "antiguo"
    <2>1. \A a, b \in S : <<a, b>> \in Relacion(c) <=> Antes(llegadas, a, b)
      BY <1>1, <1>2 DEF Menor, Antes
    <2>2. PICK lugar : lugar = [a \in S |-> CHOOSE i \in DOMAIN llegadas : llegadas[i] = a]
      OBVIOUS
    <2>3. \A a \in S : lugar[a] \in DOMAIN llegadas /\ llegadas[lugar[a]] = a
      BY <1>0, <2>2
    <2>4. \A a, b \in S : Antes(llegadas, a, b) <=> lugar[a] < lugar[b]
      BY <1>0, <2>3 DEF Antes
    <2>5. \A a \in S : lugar[a] \in Int
      BY <1>0, <2>3
    <2> QED BY <2>1, <2>4, <2>5 DEF Orden
  <1>3. CASE c = "prioridad"
    <2>1. \A a, b \in S : <<a, b>> \in Relacion(c) <=> Prioridad[a] < Prioridad[b]
      BY <1>1, <1>3 DEF Menor
    <2>2. \A a \in S : Prioridad[a] \in Int
      BY <1>0, PlanificadorAssumption
    <2> QED BY <2>1, <2>2 DEF Orden
  <1>4. CASE c = "rafaga"
    <2>1. \A a, b \in S : <<a, b>> \in Relacion(c) <=> Estimacion(a) < Estimacion(b)
      BY <1>1, <1>4 DEF Menor
    <2>2. \A a \in S : Estimacion(a) \in Int
      BY <1>0, EstimacionNatural
    <2> QED BY <2>1, <2>2 DEF Orden
  <1> QED BY <1>2, <1>3, <1>4 DEF Comparadores

\* cola_listos, with the PCB about to be inserted.
LEMMA OrdenDeListos ==
  ASSUME TypeOK, NEW c \in Comparadores
  PROVE  /\ Orden(Relacion(c), Range(listos))
         /\ sts.fase = "inserta" => Orden(Relacion(c), Range(listos) \cup {sts.pcb})
  <1>1. /\ Range(listos) \subseteq Range(llegadas)
        /\ sts.fase = "inserta" => Range(listos) \cup {sts.pcb} \subseteq Range(llegadas)
    BY DEF TypeOK
  <1> QED BY <1>1, OrdenDeComparador

\* The first that follow: RecargaInicia to RecargaOrdena.
LEMMA PasoMonitor ==
  ASSUME Inv, Monitor \/ \E c \in Configuraciones : RecargaInicia(c)
  PROVE  Inv'
  <1>0. /\ listos \in Seq(Procesos) /\ IsInjective(listos)
        /\ lista_auxiliar_prioridades \in [1..4 -> ColasSts]
        /\ algoritmo_ordenamiento \in Comparadores /\ quantum \in Nat
        /\ monitor \in [fase : {"espera", "algoritmo", "lap", "orden"},
                        falta : 1..4, conf : Configuraciones]
        /\ recargas \in 0..Recargas
    BY DEF Inv, TypeOK
  <1>1. ASSUME NEW c \in Configuraciones, RecargaInicia(c) PROVE Inv'
    <2>1. /\ UNCHANGED <<cola, listos, llegadas, ultima_rafaga,
                         valor_estimacion_anterior, restan, destino, sts, procer,
                         lista_auxiliar_prioridades, algoritmo_ordenamiento>>
          /\ quantum' = 0 /\ recargas' = recargas + 1 /\ recargas < Recargas
          /\ monitor' = [fase |-> "algoritmo", falta |-> 1, conf |-> c]
      BY <1>1 DEF RecargaInicia, pcbs
    <2>2. recargas' \in 0..Recargas
      BY <1>0, <2>1, PlanificadorAssumption
    <2>3. monitor' \in [fase : {"espera", "algoritmo", "lap", "orden"},
                        falta : 1..4, conf : Configuraciones]
      BY <2>1
    <2> QED BY <1>0, <2>1, <2>2, <2>3, PasoRecarga
  <1>2. CASE RecargaAlgoritmo
    <2>1. /\ UNCHANGED <<cola, listos, llegadas, ultima_rafaga,
                         valor_estimacion_anterior, restan, destino, sts, procer,
                         lista_auxiliar_prioridades, recargas>>
          /\ algoritmo_ordenamiento' = ComparadorDe(monitor.conf.algoritmo)
          /\ quantum' = QuantumDe(monitor.conf)
          /\ monitor' = [monitor EXCEPT !.fase = "lap"]
      BY <1>2 DEF RecargaAlgoritmo, pcbs
    <2>2. algoritmo_ordenamiento' \in Comparadores /\ quantum' \in Nat
      BY <1>0, <2>1, ConfiguracionesAssumption DEF ComparadorDe, QuantumDe, Comparadores
    <2>3. monitor' \in [fase : {"espera", "algoritmo", "lap", "orden"},
                        falta : 1..4, conf : Configuraciones]
      BY <1>0, <2>1
    <2> QED BY <1>0, <2>1, <2>2, <2>3, PasoRecarga
  <1>3. CASE RecargaLap
    <2>1. PICK q : q = OrdenDeAsignacion[monitor.falta]
      OBVIOUS
    <2>2. /\ UNCHANGED <<cola, listos, llegadas, ultima_rafaga,
                         valor_estimacion_anterior, restan, destino, sts, procer,
                         algoritmo_ordenamiento, quantum, recargas>>
          /\ lista_auxiliar_prioridades' =
               [i \in 1..4 |-> IF monitor.conf.lap[i] = q THEN q
                               ELSE lista_auxiliar_prioridades[i]]
          /\ monitor' = IF monitor.falta = 4 THEN [monitor EXCEPT !.fase = "orden"]
                        ELSE [monitor EXCEPT !.falta = monitor.falta + 1]
      BY <1>3, <2>1 DEF RecargaLap, pcbs
    <2>3. q \in ColasSts
      BY <1>0, <2>1 DEF OrdenDeAsignacion, ColasSts
    <2>4. lista_auxiliar_prioridades' \in [1..4 -> ColasSts]
      BY <1>0, <2>2, <2>3
    <2>5. monitor' \in [fase : {"espera", "algoritmo", "lap", "orden"},
                        falta : 1..4, conf : Configuraciones]
      <3>1. CASE monitor.falta = 4
        BY <1>0, <2>2, <3>1
      <3>2. CASE monitor.falta # 4
        <4>1. PICK k \in 1..4 : k = monitor.falta + 1
          BY <1>0, <3>2
        <4>2. monitor' = [monitor EXCEPT !.falta = k]
          BY <2>2, <3>2, <4>1
        <4> QED BY <1>0, <4>2
      <3> QED BY <3>1, <3>2
    <2> QED BY <1>0, <2>2, <2>4, <2>5, PasoRecarga
  <1>4. CASE RecargaOrdena
    <2>1. /\ UNCHANGED <<cola, llegadas, ultima_rafaga,
                         valor_estimacion_anterior, restan, destino, sts, procer,
                         lista_auxiliar_prioridades, algoritmo_ordenamiento,
                         quantum, recargas>>
          /\ listos' = Ordena(listos, Relacion(algoritmo_ordenamiento))
          /\ monitor' = [monitor EXCEPT !.fase = "espera"]
      BY <1>4 DEF RecargaOrdena, pcbs
    <2>2. Reordenada(listos', listos, Range(listos))
      <3>1. listos \in Seq(Range(listos))
        BY <1>0 DEF Range
      <3>2. Orden(Relacion(algoritmo_ordenamiento), Range(listos))
        BY <1>0, OrdenDeListos DEF Inv
      <3> QED BY <2>1, <3>1, <3>2, OrdenaOrdena
    <2>3. /\ listos' \in Seq(Procesos) /\ Range(listos') = Range(listos)
          /\ IsInjective(listos')
      <3>1. Range(listos) \subseteq Procesos
        BY <1>0 DEF Range
      <3> QED BY <1>0, <2>2, <3>1 DEF Reordenada
    <2>4. monitor' \in [fase : {"espera", "algoritmo", "lap", "orden"},
                        falta : 1..4, conf : Configuraciones]
      BY <1>0, <2>1
    <2> QED BY <1>0, <2>1, <2>3, <2>4, PasoRecarga
  <1> QED BY <1>1, <1>2, <1>3, <1>4 DEF Monitor

\* Every step keeps every PCB in one place.
LEMMA Paso == Inv /\ [Next]_vars => Inv'
  <1> SUFFICES ASSUME Inv, [Next]_vars PROVE Inv'
    OBVIOUS
  <1>1. CASE Sts
    BY <1>1, PasoBusca, PasoLee, PasoInserta DEF Sts
  <1>2. CASE Procer
    BY <1>2, PasoToma, PasoEjecuta, PasoCuenta DEF Procer
  <1>3. CASE Monitor \/ \E c \in Configuraciones : RecargaInicia(c)
    BY <1>3, PasoMonitor
  <1>4. CASE \E p \in Procesos : Llega(p)
    BY <1>4, PasoLlega
  <1>5. CASE UNCHANGED vars
    <2>1. UNCHANGED <<cola, listos, llegadas, ultima_rafaga, valor_estimacion_anterior,
                      restan, destino, lista_auxiliar_prioridades,
                      algoritmo_ordenamiento, quantum, monitor, recargas, sts, procer>>
      BY <1>5 DEF vars, pcbs, configuracion
    <2> QED BY <2>1, PasoRecarga DEF Inv, TypeOK
  <1> QED BY <1>1, <1>2, <1>3, <1>4, <1>5 DEF Next

\* The invariant that the following rest on.
THEOREM Invariante == Spec => []Inv
  BY Inicial, Paso, PTL DEF Spec

\* Every variable has its type, a PCB is at most once in cola_listos, and those
\* with an arrival are the ones that are there or about to be.
THEOREM TipoCorrecto == Spec => []TypeOK
  <1>1. Inv => TypeOK
    BY DEF Inv
  <1> QED BY <1>1, Invariante, PTL

-----------------------------------------------------------------------------
(* asignar_lista_lap: LapCompleta.                                           *)

\* How far the reload has come: the entries of the queues assigned so far are
\* those of the new pp.conf.
LapInv ==
  /\ monitor.fase = "algoritmo" => monitor.falta = 1
  /\ monitor.fase = "lap" =>
       \A i \in 1..4 : \A k \in 1..(monitor.falta - 1) :
         monitor.conf.lap[i] = OrdenDeAsignacion[k] =>
           lista_auxiliar_prioridades[i] = monitor.conf.lap[i]
  /\ monitor.fase \in {"espera", "orden"} =>
       lista_auxiliar_prioridades = monitor.conf.lap

\* The pp.conf of the reload.
LEMMA ConfDelMonitor ==
  ASSUME TypeOK
  PROVE  /\ monitor.fase \in {"espera", "algoritmo", "lap", "orden"}
         /\ monitor.falta \in 1..4 /\ monitor.conf \in Configuraciones
         /\ monitor.conf.lap \in [1..4 -> ColasSts]
         /\ Range(monitor.conf.lap) = ColasSts
  <1>1. /\ monitor.fase \in {"espera", "algoritmo", "lap", "orden"}
        /\ monitor.falta \in 1..4 /\ monitor.conf \in Configuraciones
    BY DEF TypeOK
  <1> QED BY <1>1, LapBuena

\* No other thread touches the list nor the locals of the monitor.
LEMMA LapQuieta ==
  ASSUME UNCHANGED <<lista_auxiliar_prioridades, monitor>>, LapInv
  PROVE  LapInv'
  BY DEF LapInv

\* Every step keeps LapInv: asignar_lista_lap changes the list one by one.
LEMMA LapPaso == Inv /\ LapInv /\ [Next]_vars => LapInv'
  <1> SUFFICES ASSUME Inv, LapInv, [Next]_vars PROVE LapInv'
    OBVIOUS
  <1>0. /\ TypeOK /\ monitor.falta \in 1..4
        /\ monitor.conf.lap \in [1..4 -> ColasSts]
        /\ monitor.fase \in {"espera", "algoritmo", "lap", "orden"}
        /\ monitor \in [fase : {"espera", "algoritmo", "lap", "orden"},
                        falta : 1..4, conf : Configuraciones]
    BY ConfDelMonitor DEF Inv, TypeOK
  <1>1. CASE Sts \/ Procer \/ \E p \in Procesos : Llega(p)
    BY <1>1, LapQuieta DEF Sts, Procer, StsBusca, StsLee, StsInserta, ProcerToma,
                           ProcerEjecuta, ProcerCuenta, Llega, configuracion
  <1>2. CASE UNCHANGED vars
    BY <1>2, LapQuieta DEF vars, configuracion
  <1>3. ASSUME NEW c \in Configuraciones, RecargaInicia(c) PROVE LapInv'
    BY <1>3 DEF RecargaInicia, LapInv
  <1>4. CASE RecargaAlgoritmo
    <2>1. monitor.falta = 1
      BY <1>4 DEF RecargaAlgoritmo, LapInv
    <2>2. monitor'.fase = "lap" /\ monitor'.falta = 1
      BY <1>0, <1>4, <2>1 DEF RecargaAlgoritmo
    <2> QED BY <2>2 DEF LapInv
  <1>5. CASE RecargaLap
    <2> DEFINE f == monitor.falta
               lap == monitor.conf.lap
    <2>1. PICK q : q = OrdenDeAsignacion[f]
      OBVIOUS
    <2>2. /\ monitor.fase = "lap"
          /\ lista_auxiliar_prioridades' =
               [i \in 1..4 |-> IF lap[i] = q THEN q ELSE lista_auxiliar_prioridades[i]]
          /\ monitor' = IF f = 4 THEN [monitor EXCEPT !.fase = "orden"]
                        ELSE [monitor EXCEPT !.falta = f + 1]
      BY <1>5, <2>1 DEF RecargaLap
    <2>3. ASSUME NEW i \in 1..4, NEW k \in 1..f, lap[i] = OrdenDeAsignacion[k]
          PROVE  lista_auxiliar_prioridades'[i] = lap[i]
      <3>1. CASE lap[i] = q
        BY <2>2, <3>1
      <3>2. CASE lap[i] # q
        <4>1. k # f
          BY <2>1, <2>3, <3>2
        <4>2. k \in 1..(f - 1)
          BY <1>0, <4>1
        <4>3. lista_auxiliar_prioridades[i] = lap[i]
          BY <2>2, <2>3, <4>2 DEF LapInv
        <4> QED BY <2>2, <3>2, <4>3
      <3> QED BY <3>1, <3>2
    <2>4. CASE f = 4
      <3>1. monitor'.fase = "orden" /\ monitor'.conf = monitor.conf
        BY <1>0, <2>2, <2>4
      <3>2. ASSUME NEW i \in 1..4 PROVE lista_auxiliar_prioridades'[i] = lap[i]
        <4>1. lap[i] \in ColasSts
          BY <1>0
        <4>2. \E k \in 1..4 : lap[i] = OrdenDeAsignacion[k]
          BY <4>1 DEF ColasSts, OrdenDeAsignacion
        <4> QED BY <2>3, <2>4, <4>2
      <3>3. lista_auxiliar_prioridades' \in [1..4 -> ColasSts]
        BY Paso DEF Inv, TypeOK
      <3>4. lista_auxiliar_prioridades' = lap
        <4> HIDE DEF lap
        <4>1. lap \in [1..4 -> ColasSts]
          BY <1>0 DEF lap
        <4> QED BY <3>2, <3>3, <4>1
      <3> QED BY <3>1, <3>4 DEF LapInv
    <2>5. CASE f # 4
      <3>1. monitor'.fase = "lap" /\ monitor'.conf = monitor.conf /\ monitor'.falta = f + 1
        BY <1>0, <2>2, <2>5
      <3>2. (f + 1) - 1 = f
        BY <1>0
      <3> QED BY <2>3, <3>1, <3>2 DEF LapInv
    <2> QED BY <2>4, <2>5
  <1>6. CASE RecargaOrdena
    <2>1. /\ monitor.fase = "orden" /\ UNCHANGED lista_auxiliar_prioridades
          /\ monitor'.fase = "espera" /\ monitor'.conf = monitor.conf
      BY <1>0, <1>6 DEF RecargaOrdena
    <2> QED BY <2>1 DEF LapInv
  <1> QED BY <1>1, <1>2, <1>3, <1>4, <1>5, <1>6 DEF Next, Monitor

\* When no reload is on its way, or only its sort is left, the list that the
\* STS goes over has the four queues at their places, whatever it was before.
THEOREM LapCorrecta == Spec => []LapCompleta
  <1>1. Init => LapInv
    BY DEF Init, LapInv
  <1>2. Inv /\ LapInv => LapCompleta
    BY ConfDelMonitor DEF Inv, LapInv, LapCompleta
  <1> QED BY <1>1, <1>2, LapPaso, Invariante, PTL DEF Spec

-----------------------------------------------------------------------------
(* The order of cola_listos: OrdenExplicado and DespachoCorrecto.            *)

\* list_ordered_insert keeps the order of arrival among equals: what arrived
\* after another and stands before it precedes it.
LEMMA InsercionEstable ==
  ASSUME NEW S, NEW s \in Seq(S), NEW e \in S, NEW menor, NEW antes,
         Orden(menor, Range(s) \cup {e}), OrdenadaPor(s, menor),
         \A x \in Range(s) : <<e, x>> \notin antes,
         \A i, j \in DOMAIN s : i < j /\ <<s[j], s[i]>> \in antes => <<s[i], s[j]>> \in menor,
         NEW t, t = InsertaOrdenado(s, e, menor)
  PROVE  \A i, j \in DOMAIN t : i < j /\ <<t[j], t[i]>> \in antes => <<t[i], t[j]>> \in menor
  <1>1. PICK k : k = LugarDeInsercion(s, e, menor)
    OBVIOUS
  <1>2. /\ k \in 1..(Len(s) + 1)
        /\ k <= Len(s) => <<e, s[k]>> \in menor
        /\ \A i \in 1..(k - 1) : <<e, s[i]>> \notin menor
    BY <1>1, HayLugar
  <1>3. t \in Seq(S) /\ Insertado(t, s, k, e)
    <2>1. t = InsertAt(s, k, e)
      BY <1>1 DEF InsertaOrdenado
    <2> QED BY <1>2, <2>1, InsertaElementos
  <1>4. /\ Len(s) \in Nat /\ DOMAIN s = 1..Len(s) /\ DOMAIN t = 1..(Len(s) + 1)
        /\ \A i \in 1..Len(s) : s[i] \in Range(s)
        /\ \A i, j \in 1..Len(s) : i < j => <<s[j], s[i]>> \notin menor
    BY <1>3 DEF Insertado, OrdenadaPor, Range
  <1>5. \A m \in 1..(Len(s) + 1) : \/ m < k /\ m \in 1..Len(s) /\ t[m] = s[m]
                                   \/ m = k /\ t[m] = e
                                   \/ m > k /\ m - 1 \in 1..Len(s) /\ t[m] = s[m - 1]
    BY <1>2, <1>3, <1>4 DEF Insertado
  <1>6. ASSUME NEW i \in 1..(Len(s) + 1), NEW j \in 1..(Len(s) + 1), i < j,
               <<t[j], t[i]>> \in antes
        PROVE  <<t[i], t[j]>> \in menor
    <2>1. CASE i # k /\ j # k
      <3>1. PICK a \in 1..Len(s), b \in 1..Len(s) : a < b /\ t[i] = s[a] /\ t[j] = s[b]
        BY <1>2, <1>4, <1>5, <1>6, <2>1
      <3> QED BY <1>4, <1>6, <3>1
    <2>2. CASE j = k
      <3>1. t[j] = e /\ t[i] \in Range(s)
        BY <1>2, <1>4, <1>5, <1>6, <2>2
      <3> QED BY <1>6, <3>1
    <2>3. CASE i = k
      <3>1. /\ j - 1 \in 1..Len(s) /\ t[j] = s[j - 1] /\ t[i] = e /\ j - 1 >= k
            /\ k \in 1..Len(s)
        BY <1>2, <1>4, <1>5, <1>6, <2>3
      <3>2. <<e, s[k]>> \in menor
        BY <1>2, <3>1
      <3>3. <<s[j - 1], s[k]>> \notin menor
        <4>1. CASE j - 1 = k
          BY <1>4, <3>1, <4>1 DEF Orden
        <4>2. CASE j - 1 > k
          BY <1>4, <3>1, <4>2
        <4> QED BY <4>1, <4>2, <3>1
      <3>4. <<e, s[j - 1]>> \in menor
        BY <1>4, <3>1, <3>2, <3>3 DEF Orden
      <3> QED BY <3>1, <3>4
    <2> QED BY <2>1, <2>2, <2>3
  <1> QED BY <1>4, <1>6

\* What arrived later and stands before, precedes in the order in force.
LlegadaEntreIguales ==
  \A i, j \in DOMAIN listos :
    i < j /\ <<listos[j], listos[i]>> \in Relacion("antiguo") =>
      <<listos[i], listos[j]>> \in Relacion(algoritmo_ordenamiento)

\* As long as pp.conf was not edited every insertion is by the same comparator,
\* and goes after the equals that arrived before.
SinRecargas ==
  recargas = 0 =>
    /\ monitor.fase = "espera"
    /\ sts.fase = "inserta" => sts.comparador = algoritmo_ordenamiento
    /\ desorden = {} => LlegadaEntreIguales

OrdenInv == OrdenExplicado /\ SinRecargas

\* What a comparator says of two PCBs depends on their arrivals, bursts and
\* estimates, and on nothing else.
LEMMA RelacionIgual ==
  ASSUME NEW c \in Comparadores, NEW a \in Procesos, NEW b \in Procesos,
         Antes(llegadas', a, b) <=> Antes(llegadas, a, b),
         ultima_rafaga'[a] = ultima_rafaga[a], ultima_rafaga'[b] = ultima_rafaga[b],
         valor_estimacion_anterior'[a] = valor_estimacion_anterior[a],
         valor_estimacion_anterior'[b] = valor_estimacion_anterior[b]
  PROVE  <<a, b>> \in Relacion(c)' <=> <<a, b>> \in Relacion(c)
  <1>1. <<a, b>> \in Relacion(c) <=> Menor(c, a, b)
    BY DEF Relacion
  <1>2. <<a, b>> \in Relacion(c)' <=> Menor(c, a, b)'
    BY DEF Relacion
  <1>3. CASE c = "antiguo"
    BY <1>1, <1>2, <1>3 DEF Menor, Antes
  <1>4. CASE c = "prioridad"
    BY <1>1, <1>2, <1>4 DEF Menor
  <1>5. CASE c = "rafaga"
    <2>1. Estimacion(a)' = Estimacion(a) /\ Estimacion(b)' = Estimacion(b)
      BY DEF Estimacion
    <2> QED BY <1>1, <1>2, <1>5, <2>1 DEF Menor
  <1> QED BY <1>3, <1>4, <1>5 DEF Comparadores

\* A step that leaves cola_listos, or takes its first, and what the comparators
\* say of the PCBs that stay, leaves them in order.
LEMMA Conserva ==
  ASSUME Inv, Inv', OrdenInv,
         listos' = listos \/ (listos # <<>> /\ listos' = Tail(listos)),
         \A a, b \in Range(listos') : Antes(llegadas', a, b) <=> Antes(llegadas, a, b),
         desorden' = {} => desorden = {} /\ \A a \in Range(listos') :
             /\ ultima_rafaga'[a] = ultima_rafaga[a]
             /\ valor_estimacion_anterior'[a] = valor_estimacion_anterior[a],
         monitor'.fase = "espera" =>
             monitor.fase = "espera" /\ algoritmo_ordenamiento' = algoritmo_ordenamiento,
         recargas' = 0 =>
             /\ recargas = 0 /\ monitor'.fase = monitor.fase
             /\ sts'.fase = "inserta" => sts'.comparador = algoritmo_ordenamiento'
  PROVE  OrdenInv'
  <1>0. /\ listos \in Seq(Procesos) /\ listos' \in Seq(Procesos)
        /\ "antiguo" \in Comparadores
    BY DEF Inv, TypeOK, Comparadores
  <1>a. PICK c \in Comparadores : c = algoritmo_ordenamiento
    BY DEF Inv, TypeOK
  <1>1. PICK d \in {0, 1} : \A i \in DOMAIN listos' :
                              i + d \in DOMAIN listos /\ listos'[i] = listos[i + d]
    <2>1. CASE listos' = listos
      BY <1>0, <2>1
    <2>2. CASE listos # <<>> /\ listos' = Tail(listos)
      <3>1. Sacado(listos', listos, Procesos)
        BY <1>0, <2>2, SacaRango
      <3>2. /\ DOMAIN listos' = 1..Len(listos') /\ Len(listos') = Len(listos) - 1
            /\ Len(listos) \in Nat
            /\ \A i \in 1..Len(listos') : listos'[i] = listos[i + 1]
        BY <1>0, <3>1 DEF Sacado
      <3>3. DOMAIN listos = 1..Len(listos)
        BY <1>0
      <3>4. \A i \in DOMAIN listos' : i + 1 \in DOMAIN listos /\ listos'[i] = listos[i + 1]
        BY ONLY <3>2, <3>3
      <3> QED BY <3>4
    <2> QED BY <2>1, <2>2
  <1>2. \A i \in DOMAIN listos' : listos'[i] \in Range(listos') /\ listos'[i] \in Procesos
                                  /\ i \in Int
    BY <1>0 DEF Range
  <1>3. ASSUME desorden' = {}, NEW k \in Comparadores,
               NEW a \in Range(listos'), NEW b \in Range(listos')
        PROVE  <<a, b>> \in Relacion(k)' <=> <<a, b>> \in Relacion(k)
    <2>1. a \in Procesos /\ b \in Procesos
      BY <1>0 DEF Range
    <2> QED BY <1>3, <2>1, RelacionIgual
  <1>4. OrdenExplicado'
    <2> SUFFICES ASSUME monitor'.fase = "espera", desorden' = {},
                        NEW i \in DOMAIN listos', NEW j \in DOMAIN listos', i < j
                 PROVE  <<listos'[j], listos'[i]>> \notin Relacion(algoritmo_ordenamiento)'
      BY DEF OrdenExplicado, OrdenadaPor
    <2>1. monitor.fase = "espera" /\ desorden = {} /\ algoritmo_ordenamiento' = c
      BY <1>a
    <2>2. Relacion(algoritmo_ordenamiento)' = Relacion(c)'
      BY <2>1 DEF Relacion
    <2>3. /\ i + d \in DOMAIN listos /\ j + d \in DOMAIN listos /\ i + d < j + d
          /\ listos'[i] = listos[i + d] /\ listos'[j] = listos[j + d]
      BY <1>1, <1>2
    <2>4. <<listos'[j], listos'[i]>> \notin Relacion(c)
      BY <1>a, <2>1, <2>3 DEF OrdenInv, OrdenExplicado, OrdenadaPor
    <2>5. <<listos'[j], listos'[i]>> \notin Relacion(c)'
      BY <1>0, <1>2, <1>3, <2>4
    <2> QED BY <2>1, <2>2, <2>5
  <1>5. SinRecargas'
    <2> SUFFICES ASSUME recargas' = 0, desorden' = {},
                        NEW i \in DOMAIN listos', NEW j \in DOMAIN listos', i < j,
                        <<listos'[j], listos'[i]>> \in Relacion("antiguo")'
                 PROVE  <<listos'[i], listos'[j]>> \in Relacion(algoritmo_ordenamiento)'
      BY DEF OrdenInv, SinRecargas, LlegadaEntreIguales
    <2>1. /\ monitor'.fase = "espera" /\ desorden = {} /\ algoritmo_ordenamiento' = c
          /\ LlegadaEntreIguales
      BY <1>a DEF OrdenInv, SinRecargas
    <2>2. /\ i + d \in DOMAIN listos /\ j + d \in DOMAIN listos /\ i + d < j + d
          /\ listos'[i] = listos[i + d] /\ listos'[j] = listos[j + d]
      BY <1>1, <1>2
    <2>3. <<listos'[j], listos'[i]>> \in Relacion("antiguo")
      BY <1>0, <1>2, <1>3
    <2>4. <<listos'[i], listos'[j]>> \in Relacion(c)
      BY <1>a, <2>1, <2>2, <2>3 DEF LlegadaEntreIguales
    <2>5. <<listos'[i], listos'[j]>> \in Relacion(c)'
      BY <1>0, <1>2, <1>3, <2>4
    <2>6. Relacion(algoritmo_ordenamiento)' = Relacion(c)'
      BY <2>1 DEF Relacion
    <2> QED BY <2>5, <2>6
  <1> QED BY <1>4, <1>5 DEF OrdenInv

\* StsLee: an arrival after all the others.
LEMMA OrdenLee ==
  ASSUME Inv, OrdenInv, StsLee
  PROVE  OrdenInv'
  <1>0. /\ Inv' /\ llegadas \in Seq(Procesos) /\ listos \in Seq(Procesos)
        /\ Range(listos) = Range(llegadas) /\ sts.pcb \in Procesos
        /\ sts.pcb \notin Range(listos)
    <2>1. Inv' /\ sts.fase = "tiene"
      BY Paso DEF Next, Sts, StsLee
    <2>2. sts.pcb \in Procesos
      BY <2>1 DEF Inv, TypeOK, Locales
    <2>3. /\ llegadas \in Seq(Procesos) /\ listos \in Seq(Procesos)
          /\ Range(listos) = Range(llegadas)
      BY <2>1 DEF Inv, TypeOK
    <2>4. sts.pcb \notin Range(listos)
      BY <2>2 DEF Inv, Lugares
    <2> QED BY <2>1, <2>2, <2>3, <2>4
  <1>1. /\ llegadas' = Append(llegadas, sts.pcb)
        /\ sts'.comparador = algoritmo_ordenamiento
        /\ UNCHANGED <<listos, ultima_rafaga, valor_estimacion_anterior, desorden,
                       algoritmo_ordenamiento, monitor, recargas>>
    BY DEF StsLee, pcbs, configuracion, Inv, TypeOK
  <1>2. Agregado(llegadas', llegadas, sts.pcb, Procesos)
    BY <1>0, <1>1, AgregaRango
  <1>3. /\ Len(llegadas) \in Nat /\ DOMAIN llegadas = 1..Len(llegadas)
        /\ DOMAIN llegadas' = 1..(Len(llegadas) + 1)
        /\ llegadas'[Len(llegadas) + 1] = sts.pcb
        /\ \A i \in 1..Len(llegadas) : llegadas'[i] = llegadas[i]
    BY <1>0, <1>2 DEF Agregado
  <1>4. ASSUME NEW a \in Range(listos), NEW b \in Range(listos)
        PROVE  Antes(llegadas', a, b) <=> Antes(llegadas, a, b)
    <2>1. a # sts.pcb /\ b # sts.pcb
      BY <1>0
    <2>2. ASSUME NEW i \in DOMAIN llegadas', llegadas'[i] # sts.pcb
          PROVE  i \in DOMAIN llegadas /\ llegadas'[i] = llegadas[i]
      BY <1>3, <2>2
    <2>3. \A i \in DOMAIN llegadas : i \in DOMAIN llegadas' /\ llegadas'[i] = llegadas[i]
      BY <1>3
    <2> QED BY <2>1, <2>2, <2>3 DEF Antes
  <1> QED BY <1>0, <1>1, <1>4, Conserva

\* StsInserta: the last that arrived, to the place that its comparator gives it.
LEMMA OrdenInserta ==
  ASSUME Inv, OrdenInv, StsInserta
  PROVE  OrdenInv'
  <1>1. PICK p \in Procesos : p = sts.pcb
    BY DEF StsInserta, Inv, TypeOK, Locales
  <1>a. PICK c \in Comparadores : c = algoritmo_ordenamiento
    BY DEF Inv, TypeOK
  <1>2. /\ sts.fase = "inserta"
        /\ listos' = InsertaOrdenado(listos, p, Relacion(sts.comparador))
        /\ sts'.fase = "busca"
        /\ desorden' = IF sts.comparador = c THEN desorden
                       ELSE desorden \cup {"comparador viejo"}
        /\ UNCHANGED <<llegadas, ultima_rafaga, valor_estimacion_anterior,
                       algoritmo_ordenamiento, monitor, recargas>>
    <2>1. sts' = [sts EXCEPT !.fase = "busca", !.pcb = Nadie]
      BY DEF StsInserta
    <2>2. sts' = [fase |-> "busca", indice |-> sts.indice, pcb |-> Nadie,
                  comparador |-> sts.comparador]
      BY <2>1 DEF Inv, TypeOK
    <2> QED BY <1>1, <1>a, <2>2 DEF StsInserta, pcbs, configuracion
  <1>3. /\ listos \in Seq(Procesos) /\ llegadas \in Seq(Procesos) /\ c \in Comparadores
        /\ p \notin Range(listos) /\ IsInjective(llegadas)
        /\ Range(llegadas) = Range(listos) \cup {p}
        /\ llegadas # <<>> /\ llegadas[Len(llegadas)] = p
    BY <1>1, <1>2 DEF Inv, TypeOK, Lugares, UltimaLlegada
  <1>4. Orden(Relacion(c), Range(listos) \cup {p})
    BY <1>1, <1>2, <1>3, OrdenDeListos DEF Inv
  <1>5. \A k : Relacion(k)' = Relacion(k)
    <2>1. \A x : Estimacion(x)' = Estimacion(x)
      BY <1>2 DEF Estimacion
    <2>2. \A k, a, b : Menor(k, a, b)' <=> Menor(k, a, b)
      BY <1>2, <2>1 DEF Menor
    <2> QED BY <2>2 DEF Relacion
  <1>6. ASSUME desorden' = {}, monitor'.fase = "espera"
        PROVE  /\ desorden = {} /\ OrdenadaPor(listos, Relacion(c))
               /\ listos' = InsertaOrdenado(listos, p, Relacion(c))
    BY <1>2, <1>6, <1>a DEF OrdenInv, OrdenExplicado
  <1>7. OrdenExplicado'
    <2> SUFFICES ASSUME desorden' = {}, monitor'.fase = "espera"
                 PROVE  OrdenadaPor(listos', Relacion(c)')
      <3>1. Relacion(algoritmo_ordenamiento)' = Relacion(c)'
        BY <1>2, <1>a DEF Relacion
      <3> QED BY <3>1 DEF OrdenExplicado, OrdenadaPor
    <2> QED BY <1>3, <1>4, <1>5, <1>6, InsercionOrdena
  <1>8. SinRecargas'
    <2> SUFFICES ASSUME recargas' = 0, desorden' = {} PROVE LlegadaEntreIguales'
      BY <1>2 DEF OrdenInv, SinRecargas
    <2>1. monitor.fase = "espera" /\ LlegadaEntreIguales
      BY <1>2, <1>6 DEF OrdenInv, SinRecargas
    <2>2. \A x \in Range(listos) : <<p, x>> \notin Relacion("antiguo")
      <3> SUFFICES ASSUME NEW x \in Range(listos), NEW i \in DOMAIN llegadas,
                          NEW j \in DOMAIN llegadas, i < j, llegadas[i] = p
                   PROVE  FALSE
        BY DEF Relacion, Menor
      <3>1. Len(llegadas) \in DOMAIN llegadas /\ DOMAIN llegadas = 1..Len(llegadas)
        BY <1>3
      <3>2. i = Len(llegadas)
        BY <1>3, <3>1 DEF IsInjective
      <3> QED BY <1>3, <3>1, <3>2
    <2>3. \A i, j \in DOMAIN listos :
            i < j /\ <<listos[j], listos[i]>> \in Relacion("antiguo") =>
              <<listos[i], listos[j]>> \in Relacion(c)
      BY <1>a, <2>1 DEF LlegadaEntreIguales
    <2>4. \A i, j \in DOMAIN listos' :
            i < j /\ <<listos'[j], listos'[i]>> \in Relacion("antiguo") =>
              <<listos'[i], listos'[j]>> \in Relacion(c)
      <3>1. OrdenadaPor(listos, Relacion(c))
            /\ listos' = InsertaOrdenado(listos, p, Relacion(c))
        BY <1>2, <1>6, <2>1
      <3> QED BY <1>3, <1>4, <2>2, <2>3, <3>1, InsercionEstable
    <2>5. Relacion(algoritmo_ordenamiento)' = Relacion(c)'
      BY <1>2, <1>a DEF Relacion
    <2> QED BY <1>5, <2>4, <2>5 DEF LlegadaEntreIguales
  <1> QED BY <1>7, <1>8 DEF OrdenInv

\* ProcerToma: the arrival of the one that leaves goes with it.
LEMMA OrdenToma ==
  ASSUME Inv, OrdenInv, ProcerToma
  PROVE  OrdenInv'
  <1>0. /\ Inv' /\ listos \in Seq(Procesos) /\ listos # <<>> /\ IsInjective(listos)
        /\ llegadas \in Seq(Procesos) /\ IsInjective(llegadas)
        /\ Range(listos) \subseteq Range(llegadas)
    BY Paso DEF Next, Procer, ProcerToma, Inv, TypeOK
  <1>1. PICK p : p = Head(listos)
    OBVIOUS
  <1>2. /\ listos' = Tail(listos) /\ llegadas' = RemoveFirst(llegadas, p)
        /\ valor_estimacion_anterior' =
             [valor_estimacion_anterior EXCEPT ![p] = Estimacion(p)]
        /\ ultima_rafaga' = [ultima_rafaga EXCEPT ![p] = 0]
        /\ UNCHANGED <<desorden, algoritmo_ordenamiento, monitor, recargas, sts>>
    BY <1>1 DEF ProcerToma, configuracion
  <1>3. Sacado(listos', listos, Procesos)
    BY <1>0, <1>2, SacaRango
  <1>4. p \in Range(listos) /\ p \notin Range(listos') /\ Range(listos') \subseteq Range(listos)
    BY <1>0, <1>1, <1>3 DEF Sacado
  <1>5. Sin(llegadas', llegadas, p, Procesos)
    BY <1>0, <1>2, <1>4, QuitaRango
  <1>6. \A a, b \in Range(listos') : Antes(llegadas', a, b) <=> Antes(llegadas, a, b)
    <2>1. Range(listos') \subseteq Range(llegadas')
      BY <1>0, <1>4, <1>5 DEF Sin
    <2> QED BY <1>5, <2>1 DEF Sin
  <1>7. \A a \in Range(listos') :
             /\ ultima_rafaga'[a] = ultima_rafaga[a]
             /\ valor_estimacion_anterior'[a] = valor_estimacion_anterior[a]
    <2>1. Range(listos') \subseteq Procesos
      <3>1. Range(listos) \subseteq Procesos
        BY <1>0 DEF Range
      <3> QED BY <1>4, <3>1
    <2> QED BY <1>2, <1>4, <2>1 DEF Inv, TypeOK
  <1>8. recargas = 0 => monitor.fase = "espera" /\
                        (sts.fase = "inserta" => sts.comparador = algoritmo_ordenamiento)
    BY DEF OrdenInv, SinRecargas
  <1> QED BY <1>0, <1>2, <1>6, <1>7, <1>8, Conserva

\* ProcerCuenta: the burst of a PCB in cola_listos is recorded in desorden.
LEMMA OrdenCuenta ==
  ASSUME Inv, OrdenInv, ProcerCuenta
  PROVE  OrdenInv'
  <1>1. Inv' /\ listos \in Seq(Procesos)
    BY Paso DEF Next, Procer, Inv, TypeOK
  <1>2. PICK p \in Procesos : p = procer.pcb
    BY DEF ProcerCuenta, Inv, TypeOK, Locales
  <1>3. /\ ultima_rafaga' = [ultima_rafaga EXCEPT ![p] = ultima_rafaga[p] + 1]
        /\ desorden' = IF p \in Range(listos) THEN desorden \cup {"rafaga tarde"}
                       ELSE desorden
        /\ UNCHANGED <<listos, llegadas, valor_estimacion_anterior,
                       algoritmo_ordenamiento, monitor, recargas, sts>>
    BY <1>2 DEF ProcerCuenta, configuracion
  <1>4. desorden' = {} => desorden = {} /\ p \notin Range(listos)
    BY <1>3
  <1>5. ASSUME desorden' = {}, NEW a \in Range(listos)
        PROVE  ultima_rafaga'[a] = ultima_rafaga[a]
    <2>1. a \in Procesos /\ a # p
      BY <1>1, <1>4, <1>5 DEF Range
    <2> QED BY <1>3, <2>1 DEF Inv, TypeOK
  <1>6. recargas = 0 => monitor.fase = "espera" /\
                        (sts.fase = "inserta" => sts.comparador = algoritmo_ordenamiento)
    BY DEF OrdenInv, SinRecargas
  <1> QED BY <1>1, <1>3, <1>4, <1>5, <1>6, Conserva

\* The other steps leave the list, the arrivals, the bursts and the estimates.
LEMMA OrdenQuieto ==
  ASSUME Inv, Inv', OrdenInv,
         UNCHANGED <<listos, llegadas, ultima_rafaga, valor_estimacion_anterior, desorden>>,
         monitor'.fase = "espera" =>
             monitor.fase = "espera" /\ algoritmo_ordenamiento' = algoritmo_ordenamiento,
         recargas' = 0 =>
             /\ recargas = 0 /\ monitor'.fase = monitor.fase
             /\ sts'.fase = "inserta" => sts'.comparador = algoritmo_ordenamiento'
  PROVE  OrdenInv'
  BY Conserva

\* RecargaOrdena: the sort.
LEMMA OrdenOrdena ==
  ASSUME Inv, OrdenInv, RecargaOrdena
  PROVE  OrdenInv'
  <1>0. listos \in Seq(Procesos) /\ algoritmo_ordenamiento \in Comparadores
    BY DEF Inv, TypeOK
  <1>1. /\ monitor.fase = "orden"
        /\ listos' = Ordena(listos, Relacion(algoritmo_ordenamiento))
        /\ UNCHANGED <<llegadas, ultima_rafaga, valor_estimacion_anterior,
                       algoritmo_ordenamiento, recargas>>
    BY DEF RecargaOrdena, pcbs
  <1>2. recargas' # 0
    BY <1>1 DEF OrdenInv, SinRecargas
  <1>3. OrdenadaPor(listos', Relacion(algoritmo_ordenamiento))
    <2>1. listos \in Seq(Range(listos))
      BY <1>0 DEF Range
    <2>2. Orden(Relacion(algoritmo_ordenamiento), Range(listos))
      BY <1>0, OrdenDeListos DEF Inv
    <2> QED BY <1>1, <2>1, <2>2, OrdenaOrdena
  <1>4. Relacion(algoritmo_ordenamiento)' = Relacion(algoritmo_ordenamiento)
    BY <1>1 DEF Relacion, Menor, Estimacion
  <1> QED BY <1>1, <1>2, <1>3, <1>4 DEF OrdenInv, OrdenExplicado, SinRecargas

\* Every step keeps the order.
LEMMA OrdenPaso == Inv /\ OrdenInv /\ [Next]_vars => OrdenInv'
  <1> SUFFICES ASSUME Inv, OrdenInv, [Next]_vars PROVE OrdenInv'
    OBVIOUS
  <1>0. /\ Inv' /\ recargas \in Nat
        /\ monitor \in [fase : {"espera", "algoritmo", "lap", "orden"},
                        falta : 1..4, conf : Configuraciones]
        /\ sts \in [fase : {"busca", "tiene", "inserta"}, indice : 1..4,
                    pcb : Procesos \cup {Nadie}, comparador : Comparadores]
    <2>1. Inv'
      BY Paso
    <2>2. /\ recargas \in Nat
          /\ monitor \in [fase : {"espera", "algoritmo", "lap", "orden"},
                          falta : 1..4, conf : Configuraciones]
          /\ sts \in [fase : {"busca", "tiene", "inserta"}, indice : 1..4,
                      pcb : Procesos \cup {Nadie}, comparador : Comparadores]
      BY DEF Inv, TypeOK
    <2> QED BY <2>1, <2>2
  <1>1. recargas = 0 => monitor.fase = "espera" /\
                        (sts.fase = "inserta" => sts.comparador = algoritmo_ordenamiento)
    BY DEF OrdenInv, SinRecargas
  <1>2. CASE StsBusca
    <2>1. sts'.fase # "inserta"
      BY <1>0, <1>2 DEF StsBusca
    <2> QED BY <1>0, <1>1, <1>2, <2>1, OrdenQuieto DEF StsBusca, pcbs, configuracion
  <1>3. CASE StsLee \/ StsInserta \/ ProcerToma \/ ProcerCuenta \/ RecargaOrdena
    BY <1>3, OrdenLee, OrdenInserta, OrdenToma, OrdenCuenta, OrdenOrdena
  <1>4. CASE ProcerEjecuta
    BY <1>0, <1>1, <1>4, OrdenQuieto DEF ProcerEjecuta, configuracion
  <1>5. ASSUME NEW p \in Procesos, Llega(p) PROVE OrdenInv'
    BY <1>0, <1>1, <1>5, OrdenQuieto DEF Llega, configuracion
  <1>6. ASSUME NEW c \in Configuraciones, RecargaInicia(c) PROVE OrdenInv'
    <2>1. recargas' # 0 /\ monitor'.fase # "espera"
      BY <1>0, <1>6 DEF RecargaInicia
    <2> QED BY <1>0, <1>6, <2>1, OrdenQuieto DEF RecargaInicia, pcbs
  <1>7. CASE RecargaAlgoritmo
    <2>1. recargas' # 0 /\ monitor'.fase # "espera"
      BY <1>0, <1>1, <1>7 DEF RecargaAlgoritmo
    <2> QED BY <1>0, <1>7, <2>1, OrdenQuieto DEF RecargaAlgoritmo, pcbs
  <1>8. CASE RecargaLap
    <2>1. monitor.fase = "lap" /\ recargas' = recargas
      BY <1>8 DEF RecargaLap
    <2>2. monitor'.fase # "espera"
      <3>1. CASE monitor.falta = 4
        BY <1>0, <1>8, <3>1 DEF RecargaLap
      <3>2. CASE monitor.falta # 4
        BY <1>0, <1>8, <3>2, <2>1 DEF RecargaLap
      <3> QED BY <3>1, <3>2
    <2>3. recargas' # 0
      BY <1>1, <2>1
    <2> QED BY <1>0, <1>8, <2>2, <2>3, OrdenQuieto DEF RecargaLap, pcbs
  <1>9. CASE UNCHANGED vars
    BY <1>0, <1>1, <1>9, OrdenQuieto DEF vars, pcbs, configuracion
  <1> QED BY <1>2, <1>3, <1>4, <1>5, <1>6, <1>7, <1>8, <1>9
             DEF Next, Sts, Procer, Monitor

\* At the start cola_listos is empty.
LEMMA OrdenInicial == Init => OrdenInv
  BY DEF Init, OrdenInv, OrdenExplicado, OrdenadaPor, SinRecargas, LlegadaEntreIguales

\* OrdenInv holds in every reachable state.
LEMMA OrdenSiempre == Spec => [](Inv /\ OrdenInv)
  BY Inicial, Paso, OrdenInicial, OrdenPaso, PTL DEF Spec

\* cola_listos is in the order of the algorithm in force, unless an insertion
\* read its comparator before a reload or a burst was counted late.
THEOREM OrdenCorrecto == Spec => []OrdenExplicado
  <1>1. OrdenInv => OrdenExplicado
    BY DEF OrdenInv
  <1> QED BY <1>1, OrdenSiempre, PTL

\* The process dispatched is a first one of the algorithm in force, and without
\* edits of pp.conf the first that arrived among its equals.
THEOREM DespachoEnOrden == Spec => DespachoCorrecto
  <1> DEFINE Despacho ==
        ProcerToma /\ monitor.fase = "espera" /\ desorden = {} =>
          \A p \in Range(listos) \ {Head(listos)} :
            /\ ~Menor(algoritmo_ordenamiento, p, Head(listos))
            /\ recargas = 0 /\ Menor("antiguo", p, Head(listos)) =>
                 Menor(algoritmo_ordenamiento, Head(listos), p)
  <1>1. Inv /\ OrdenInv => Despacho
    <2> SUFFICES ASSUME Inv, OrdenInv, listos # <<>>, monitor.fase = "espera",
                        desorden = {}, NEW p \in Range(listos), p # Head(listos)
                 PROVE  /\ ~Menor(algoritmo_ordenamiento, p, Head(listos))
                        /\ recargas = 0 /\ Menor("antiguo", p, Head(listos)) =>
                             Menor(algoritmo_ordenamiento, Head(listos), p)
      BY DEF ProcerToma
    <2>1. listos \in Seq(Procesos)
      BY DEF Inv, TypeOK
    <2>2. PICK j \in DOMAIN listos : p = listos[j]
      BY DEF Range
    <2>3. 1 \in DOMAIN listos /\ Head(listos) = listos[1] /\ 1 < j
          /\ p \in Procesos /\ Head(listos) \in Procesos
      BY <2>1, <2>2
    <2>4. \A c : <<p, Head(listos)>> \in Relacion(c) <=> Menor(c, p, Head(listos))
      BY <2>3 DEF Relacion
    <2>5. \A c : <<Head(listos), p>> \in Relacion(c) <=> Menor(c, Head(listos), p)
      BY <2>3 DEF Relacion
    <2>6. ~Menor(algoritmo_ordenamiento, p, Head(listos))
      <3>1. <<listos[j], listos[1]>> \notin Relacion(algoritmo_ordenamiento)
        BY <2>2, <2>3 DEF OrdenInv, OrdenExplicado, OrdenadaPor
      <3> QED BY <2>2, <2>3, <2>4, <3>1
    <2>7. ASSUME recargas = 0, Menor("antiguo", p, Head(listos))
          PROVE  Menor(algoritmo_ordenamiento, Head(listos), p)
      <3>1. LlegadaEntreIguales
        BY <2>7 DEF OrdenInv, SinRecargas
      <3>2. <<listos[j], listos[1]>> \in Relacion("antiguo")
        BY <2>2, <2>3, <2>4, <2>7
      <3>3. <<listos[1], listos[j]>> \in Relacion(algoritmo_ordenamiento)
        BY <2>2, <2>3, <3>1, <3>2 DEF LlegadaEntreIguales
      <3> QED BY <2>2, <2>3, <2>5, <3>3
    <2> QED BY <2>6, <2>7
  <1>2. Inv /\ OrdenInv => [Despacho]_vars
    BY <1>1
  <1> QED BY <1>2, OrdenSiempre, PTL DEF DespachoCorrecto
=============================================================================
