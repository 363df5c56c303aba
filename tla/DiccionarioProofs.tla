------------------------- MODULE DiccionarioProofs -------------------------
(***************************************************************************)
(* Diccionario for any keys, any number of elements, any size of the table *)
(* and any number of meetings of the two threads: every element is linked  *)
(* once and in its bucket; each counter is off by no more than one for     *)
(* each time the threads met, and exact if they did not; and until they    *)
(* meet in a chain or a growth every operation does to the table what its  *)
(* name says, as a map with repetitions.                                   *)
(*                                                                         *)
(* The argument: a growth divides a bucket that holds one element, so one  *)
(* of the new buckets stays empty, and it leaves the elements of one key   *)
(* in their order.  A put knows the last of its chain, a remove the first  *)
(* of its key.  A counter written from an old value is as far from the     *)
(* truth as that value was, plus what the other operation did meanwhile.   *)
(***************************************************************************)
EXTENDS Diccionario, Secuencias, FiniteSetTheorems

-----------------------------------------------------------------------------
(* Remainders.                                                               *)

\* Quotient and remainder.
LEMMA Division ==
  ASSUME NEW m \in Nat \ {0}, NEW h \in Int
  PROVE  h % m \in 0..(m - 1) /\ h \div m \in Int /\ h = m * (h \div m) + (h % m)
  OBVIOUS

\* The remainder is the only one.
LEMMA Resto0 ==
  ASSUME NEW m \in Nat \ {0}, NEW q \in Int, NEW r \in 0..(m - 1), NEW h \in Int,
         h = m * q + r
  PROVE  h % m = r
  <1>1. h % m \in 0..(m - 1) /\ h \div m \in Int /\ h = m * (h \div m) + (h % m)
    BY Division
  <1> DEFINE p == h \div m
             e == p - q
  <1>2. m * e = r - (h % m) /\ e \in Int
    BY <1>1
  <1>3. r - (h % m) < m /\ r - (h % m) > -m
    BY <1>1
  <1> HIDE DEF e
  <1>4. e < 1 /\ e > -1
    BY <1>2, <1>3
  <1>5. e = 0
    BY <1>2, <1>4
  <1> QED BY <1>1, <1>2, <1>5

\* A table twice as large has the elements of a bucket in the same place or m
\* places further.
LEMMA RestoDoble ==
  ASSUME NEW m \in Nat \ {0}, NEW h \in Nat
  PROVE  /\ h % (2 * m) \in 0..(2 * m - 1)
         /\ h % (2 * m) = h % m \/ h % (2 * m) = (h % m) + m
  <1> DEFINE q == h \div (2 * m)
             r == h % (2 * m)
  <1>1. 2 * m \in Nat \ {0}
    OBVIOUS
  <1>2. r \in 0..(2 * m - 1) /\ q \in Int /\ h = (2 * m) * q + r
    <2>1. PICK d \in Nat \ {0} : d = 2 * m
      BY <1>1
    <2>2. h \in Int
      OBVIOUS
    <2>3. h % d \in 0..(d - 1) /\ h \div d \in Int /\ h = d * (h \div d) + (h % d)
      BY ONLY <2>1, <2>2, Division
    <2> QED BY <2>1, <2>3
  <1> HIDE DEF q, r
  <1>3. CASE r < m
    <2>1. r \in 0..(m - 1) /\ 2 * q \in Int /\ h = m * (2 * q) + r
      BY <1>2, <1>3
    <2>2. h % m = r
      <3>1. PICK p \in Int, x \in 0..(m - 1) : p = 2 * q /\ x = r
        BY <2>1
      <3>2. h \in Int /\ m \in Nat \ {0} /\ p \in Int /\ x \in 0..(m - 1) /\ h = m * p + x
        BY <2>1, <3>1
      <3>3. h % m = x
        BY ONLY <3>2, Resto0
      <3> QED BY <3>1, <3>3
    <2> QED BY <1>2, <2>2 DEF r
  <1>4. CASE ~(r < m)
    <2>1. r - m \in 0..(m - 1) /\ 2 * q + 1 \in Int /\ h = m * (2 * q + 1) + (r - m)
      BY <1>2, <1>4
    <2>2. h % m = r - m
      <3>1. PICK p \in Int, x \in 0..(m - 1) : p = 2 * q + 1 /\ x = r - m
        BY <2>1
      <3>2. h \in Int /\ m \in Nat \ {0} /\ p \in Int /\ x \in 0..(m - 1) /\ h = m * p + x
        BY <2>1, <3>1
      <3>3. h % m = x
        BY ONLY <3>2, Resto0
      <3> QED BY <3>1, <3>3
    <2>3. r = (h % m) + m
      BY <1>2, <2>2
    <2> QED BY <1>2, <2>3 DEF r
  <1> QED BY <1>3, <1>4

-----------------------------------------------------------------------------
(* Chains.                                                                   *)

\* t has the elements of s that are in ns.
Filtrada(t, s, ns, S) ==
  /\ t \in Seq(S) /\ Range(t) = Range(s) \cap ns
  /\ IsInjective(s) => IsInjective(t)

\* f[k] has the elements of the first k of s that are in ns.
Porciones(f, s, ns) ==
  /\ f[0] = <<>>
  /\ \A k \in 1..Len(s) : f[k] = IF s[k] \in ns THEN Append(f[k - 1], s[k]) ELSE f[k - 1]

\* The recursion of Filtra.
LEMMA FiltraPorciones ==
  ASSUME NEW S, NEW s \in Seq(S), NEW ns
  PROVE  \E f : Porciones(f, s, ns) /\ Filtra(s, ns) = f[Len(s)]
  <1> DEFINE n == Len(s)
             Sigue(k, t) == IF s[k] \in ns THEN Append(t, s[k]) ELSE t
             F == [k \in 1..n |-> [t \in Seq(S) |-> Sigue(k, t)]]
             cuerpo(f) == [k \in 0..n |-> IF k = 0 THEN <<>> ELSE Sigue(k, f[k - 1])]
             hasta == CHOOSE f : f = cuerpo(f)
  <1>0. n \in Nat /\ DOMAIN s = 1..n /\ \A k \in 1..n : s[k] \in S
    OBVIOUS
  <1>1. PICK f \in [0..n -> Seq(S)] : Recurre(f, <<>>, n, F)
    <2>1. F \in [1..n -> [Seq(S) -> Seq(S)]]
      <3> SUFFICES ASSUME NEW k \in 1..n, NEW t \in Seq(S) PROVE Sigue(k, t) \in Seq(S)
        OBVIOUS
      <3> QED BY <1>0
    <2>2. <<>> \in Seq(S)
      OBVIOUS
    <2> HIDE DEF F, n
    <2> QED BY <1>0, <2>1, <2>2, Recursion
  <1>2. f = cuerpo(f)
    <2> HIDE DEF Sigue
    <2>1. ASSUME NEW k \in 1..n PROVE f[k] = Sigue(k, f[k - 1])
      <3>1. f[k - 1] \in Seq(S)
        BY <1>0
      <3>2. f[k] = F[k][f[k - 1]]
        BY <1>1 DEF Recurre
      <3> QED BY <3>1, <3>2
    <2> HIDE DEF n, F
    <2> QED BY <2>1, <1>0, <1>1 DEF Recurre
  <1>3. hasta = cuerpo(hasta)
    <2> HIDE DEF cuerpo
    <2> QED BY <1>2
  <1>4. Filtra(s, ns) = hasta[n]
    BY DEF Filtra
  <1>5. /\ hasta[0] = <<>>
        /\ \A k \in 1..n : hasta[k] = Sigue(k, hasta[k - 1])
    <2> HIDE DEF hasta, n, Sigue
    <2> QED BY <1>0, <1>3
  <1>6. Porciones(hasta, s, ns)
    <2> HIDE DEF hasta
    <2> QED BY <1>5 DEF Porciones
  <1> HIDE DEF hasta
  <1> QED BY <1>4, <1>6

\* Filtra keeps what it should, and repeats nothing.
LEMMA FiltraRango ==
  ASSUME NEW S, NEW s \in Seq(S), NEW ns
  PROVE  Filtrada(Filtra(s, ns), s, ns, S)
  <1> DEFINE n == Len(s)
             Sigue(k, t) == IF s[k] \in ns THEN Append(t, s[k]) ELSE t
  <1>0. n \in Nat /\ DOMAIN s = 1..n /\ \A k \in 1..n : s[k] \in S
    OBVIOUS
  <1>1. PICK hasta : Porciones(hasta, s, ns) /\ Filtra(s, ns) = hasta[n]
    BY FiltraPorciones
  <1>4. Filtra(s, ns) = hasta[n]
    BY <1>1
  <1>5. /\ hasta[0] = <<>>
        /\ \A k \in 1..n : hasta[k] = Sigue(k, hasta[k - 1])
    BY <1>1 DEF Porciones
  <1> DEFINE Vistos(k) == {s[j] : j \in 1..k}
             Buena(k) == /\ hasta[k] \in Seq(S) /\ Range(hasta[k]) = Vistos(k) \cap ns
                         /\ IsInjective(s) => IsInjective(hasta[k])
             T == {k \in Nat : k <= n => Buena(k)}
  <1>6. 0 \in T
    <2>1. <<>> \in Seq(S) /\ Range(<<>>) = {} /\ IsInjective(<<>>) /\ Vistos(0) = {}
      BY DEF Range, IsInjective
    <2> QED BY <1>5, <2>1
  <1>7. ASSUME NEW k \in Nat, k \in T PROVE k + 1 \in T
    <2> SUFFICES ASSUME k + 1 <= n PROVE Buena(k + 1)
      OBVIOUS
    <2> HIDE DEF n
    <2>1. k + 1 \in 1..n /\ (k + 1) - 1 = k /\ k <= n /\ k + 1 \in DOMAIN s
      BY <1>0
    <2>2. PICK e : e = s[k + 1]
      OBVIOUS
    <2>3. PICK t : t = hasta[k]
      OBVIOUS
    <2>4. /\ t \in Seq(S) /\ Range(t) = Vistos(k) \cap ns /\ e \in S
          /\ IsInjective(s) => IsInjective(t)
      BY <1>0, <1>7, <2>1, <2>2, <2>3
    <2>5. Vistos(k + 1) = Vistos(k) \cup {e}
      <3>1. \A j \in 1..(k + 1) : j \in 1..k \/ j = k + 1
        OBVIOUS
      <3> QED BY <2>2, <3>1
    <2>6. IsInjective(s) => e \notin Vistos(k)
      <3> SUFFICES ASSUME IsInjective(s), NEW j \in 1..k, s[j] = s[k + 1] PROVE FALSE
        BY <2>2
      <3>1. j \in DOMAIN s /\ j # k + 1
        BY <1>0, <2>1
      <3> QED BY <2>1, <3>1 DEF IsInjective
    <2> HIDE DEF Vistos
    <2>7. CASE e \in ns
      <3>1. hasta[k + 1] = Append(t, e)
        BY <1>5, <2>1, <2>2, <2>3, <2>7
      <3>2. Agregado(hasta[k + 1], t, e, S)
        BY <2>4, <3>1, AgregaRango
      <3> QED BY <2>4, <2>5, <2>6, <2>7, <3>2 DEF Agregado
    <2>8. CASE e \notin ns
      <3>1. hasta[k + 1] = t
        BY <1>5, <2>1, <2>2, <2>3, <2>8
      <3> QED BY <2>4, <2>5, <2>8, <3>1
    <2> QED BY <2>7, <2>8
  <1>8. n \in T
    <2> HIDE DEF T
    <2> QED BY <1>0, <1>6, <1>7, Induccion
  <1>9. Buena(n) /\ Vistos(n) = Range(s)
    BY <1>0, <1>8 DEF Range
  <1> HIDE DEF n, Vistos
  <1> QED BY <1>4, <1>9 DEF Filtrada

\* t is a and then b.
Unido(t, a, b, S) ==
  /\ t \in Seq(S) /\ Range(t) = Range(a) \cup Range(b)
  /\ IsInjective(a) /\ IsInjective(b) /\ Range(a) \cap Range(b) = {} => IsInjective(t)

\* A chain after another.
LEMMA UneRango ==
  ASSUME NEW S, NEW a \in Seq(S), NEW b \in Seq(S), NEW t, t = a \o b
  PROVE  Unido(t, a, b, S)
  <1>1. /\ t \in Seq(S) /\ Len(t) = Len(a) + Len(b)
        /\ \A j \in 1..(Len(a) + Len(b)) :
             t[j] = IF j <= Len(a) THEN a[j] ELSE b[j - Len(a)]
    BY ONLY ConcatProperties, a \in Seq(S), b \in Seq(S), t = a \o b
  <1>2. PICK p \in Nat, q \in Nat : p = Len(a) /\ q = Len(b)
    OBVIOUS
  <1>3. DOMAIN t = 1..(p + q) /\ DOMAIN a = 1..p /\ DOMAIN b = 1..q
    BY <1>1, <1>2
  <1>4. \A j \in 1..p : t[j] = a[j]
    BY <1>1, <1>2
  <1>5. \A j \in 1..q : t[p + j] = b[j]
    BY <1>1, <1>2
  <1>6. \A j \in 1..(p + q) : j \in 1..p \/ \E l \in 1..q : j = p + l
    <2>1. ASSUME NEW j \in 1..(p + q), j \notin 1..p PROVE j - p \in 1..q /\ j = p + (j - p)
      BY <2>1, <1>2
    <2> QED BY <2>1
  <1>7. (\A j \in 1..p : j \in 1..(p + q)) /\ (\A j \in 1..q : p + j \in 1..(p + q))
    BY <1>2
  <1>8. Range(t) = Range(a) \cup Range(b)
    <2>1. ASSUME NEW j \in 1..(p + q) PROVE t[j] \in Range(a) \cup Range(b)
      <3>1. CASE j \in 1..p
        BY <3>1, <1>3, <1>4 DEF Range
      <3>2. CASE \E l \in 1..q : j = p + l
        <4>1. PICK l \in 1..q : j = p + l
          BY <3>2
        <4> QED BY <4>1, <1>3, <1>5 DEF Range
      <3> QED BY <3>1, <3>2, <1>6
    <2>2. ASSUME NEW j \in 1..p PROVE a[j] \in Range(t)
      BY <1>3, <1>4, <1>7 DEF Range
    <2>3. ASSUME NEW j \in 1..q PROVE b[j] \in Range(t)
      BY <1>3, <1>5, <1>7 DEF Range
    <2>4. /\ Range(t) = {t[j] : j \in 1..(p + q)}
          /\ Range(a) = {a[j] : j \in 1..p} /\ Range(b) = {b[j] : j \in 1..q}
      BY <1>3 DEF Range
    <2>5. Range(t) \subseteq Range(a) \cup Range(b)
      BY ONLY <2>1, <2>4
    <2>6. Range(a) \subseteq Range(t) /\ Range(b) \subseteq Range(t)
      BY ONLY <2>2, <2>3, <2>4
    <2> QED BY <2>5, <2>6
  <1>9. ASSUME IsInjective(a), IsInjective(b), Range(a) \cap Range(b) = {} PROVE IsInjective(t)
    <2> SUFFICES ASSUME NEW j \in 1..(p + q), NEW l \in 1..(p + q), t[j] = t[l] PROVE j = l
      BY <1>3 DEF IsInjective
    <2>1. \A x \in 1..p, y \in 1..q : a[x] # b[y]
      BY <1>3, <1>9 DEF Range
    <2>2. CASE j \in 1..p /\ l \in 1..p
      BY <2>2, <1>3, <1>4, <1>9 DEF IsInjective
    <2>3. CASE j \in 1..p /\ l \notin 1..p
      <3>1. PICK y \in 1..q : l = p + y
        BY <2>3, <1>6
      <3> QED BY <2>1, <2>3, <3>1, <1>4, <1>5
    <2>4. CASE j \notin 1..p /\ l \in 1..p
      <3>1. PICK x \in 1..q : j = p + x
        BY <2>4, <1>6
      <3> QED BY <2>1, <2>4, <3>1, <1>4, <1>5
    <2>5. CASE j \notin 1..p /\ l \notin 1..p
      <3>1. PICK x \in 1..q, y \in 1..q : j = p + x /\ l = p + y
        BY <2>5, <1>6
      <3>2. b[x] = b[y] /\ x \in DOMAIN b /\ y \in DOMAIN b
        BY <3>1, <1>3, <1>5
      <3>3. x = y
        BY ONLY <1>9, <3>2 DEF IsInjective
      <3> QED BY <3>1, <3>3
    <2> QED BY <2>2, <2>3, <2>4, <2>5
  <1> QED BY <1>1, <1>8, <1>9 DEF Unido

\* No element is linked twice in the m buckets of cs.
Apartadas(cs, m) ==
  /\ \A j \in 0..(m - 1) : IsInjective(cs[j])
  /\ \A j, l \in 0..(m - 1) : j # l => Range(cs[j]) \cap Range(cs[l]) = {}

Todos(cs, m) == UNION {Range(cs[j]) : j \in 0..(m - 1)}

\* t has the elements of the m buckets of cs that are in ns.
Mudada(t, cs, m, ns) ==
  /\ t \in Seq(Nodos) /\ Range(t) = Todos(cs, m) \cap ns
  /\ Apartadas(cs, m) => IsInjective(t)

\* f[k] has the elements of the first k buckets of cs that are in ns.
Porteada(f, cs, m, ns) ==
  /\ f \in [0..m -> Seq(Nodos)] /\ f[0] = <<>>
  /\ \A k \in 1..m : f[k] = f[k - 1] \o Filtra(cs[k - 1], ns)

\* The elements for the bucket i of a table of m.
Destinados(m, i) == {n \in Nodos : hash[n] % m = i}

\* The recursion of Mudanza.
LEMMA MudanzaPorPasos ==
  ASSUME NEW m \in Nat \ {0}, NEW cs \in [0..(m - 1) -> Seq(Nodos)],
         NEW nueva \in Nat \ {0}, NEW i \in 0..(nueva - 1)
  PROVE  \E f : /\ Porteada(f, cs, m, Destinados(nueva, i))
                /\ Mudanza(cs, m, nueva)[i] = f[m]
  <1>c. PICK ns : ns = {n \in Nodos : hash[n] % nueva = i}
    OBVIOUS
  <1> DEFINE Sigue(k, t) == t \o Filtra(cs[k - 1], ns)
             F == [k \in 1..m |-> [t \in Seq(Nodos) |-> Sigue(k, t)]]
             cuerpo(f) == [k \in 0..m |-> IF k = 0 THEN <<>> ELSE Sigue(k, f[k - 1])]
             desde == CHOOSE f : f = cuerpo(f)
  <1>0. \A k \in 1..m : k - 1 \in 0..(m - 1) /\ cs[k - 1] \in Seq(Nodos)
    OBVIOUS
  <1>a. \A k \in 1..m : Filtrada(Filtra(cs[k - 1], ns), cs[k - 1], ns, Nodos)
    BY ONLY <1>0, FiltraRango
  <1>b. \A k \in 1..m, t \in Seq(Nodos) : Sigue(k, t) \in Seq(Nodos)
    BY <1>a, UneRango DEF Filtrada, Unido
  <1>1. PICK f \in [0..m -> Seq(Nodos)] : Recurre(f, <<>>, m, F)
    <2>1. F \in [1..m -> [Seq(Nodos) -> Seq(Nodos)]]
      <3> HIDE DEF Sigue
      <3> QED BY <1>b
    <2>2. <<>> \in Seq(Nodos)
      OBVIOUS
    <2> HIDE DEF F
    <2> QED BY <2>1, <2>2, Recursion
  <1>2. f = cuerpo(f)
    <2> HIDE DEF Sigue
    <2>1. ASSUME NEW k \in 1..m PROVE f[k] = Sigue(k, f[k - 1])
      <3>1. f[k - 1] \in Seq(Nodos)
        OBVIOUS
      <3>2. f[k] = F[k][f[k - 1]]
        BY <1>1 DEF Recurre
      <3> QED BY <3>1, <3>2
    <2>2. f[0] = <<>> /\ m \in Nat
      BY <1>1 DEF Recurre
    <2>3. \A k \in 0..m : k = 0 \/ k \in 1..m
      BY <2>2
    <2>4. \A k \in 0..m : f[k] = cuerpo(f)[k]
      <3> HIDE DEF F
      <3> QED BY ONLY <2>1, <2>2, <2>3
    <2>5. DOMAIN f = 0..m /\ f = [k \in 0..m |-> f[k]]
      OBVIOUS
    <2> HIDE DEF F, cuerpo
    <2>6. cuerpo(f) = [k \in 0..m |-> cuerpo(f)[k]]
      BY DEF cuerpo
    <2> QED BY ONLY <2>4, <2>5, <2>6
  <1>3. desde = cuerpo(desde)
    <2> HIDE DEF cuerpo
    <2> QED BY <1>2
  <1>4. Mudanza(cs, m, nueva)[i] = desde[m]
    BY <1>c DEF Mudanza
  <1>5. /\ desde[0] = <<>>
        /\ \A k \in 1..m : desde[k] = Sigue(k, desde[k - 1])
    <2> HIDE DEF desde, Sigue
    <2> QED BY <1>3
  <1>6. desde \in [0..m -> Seq(Nodos)]
    <2> DEFINE T == {k \in Nat : k <= m => desde[k] \in Seq(Nodos)}
    <2> HIDE DEF desde, Sigue
    <2>1. 0 \in T
      <3>1. <<>> \in Seq(Nodos)
        OBVIOUS
      <3> QED BY <1>5, <3>1
    <2>2. ASSUME NEW k \in Nat, k \in T PROVE k + 1 \in T
      <3> SUFFICES ASSUME k + 1 <= m PROVE desde[k + 1] \in Seq(Nodos)
        OBVIOUS
      <3>1. k + 1 \in 1..m /\ (k + 1) - 1 = k /\ k <= m
        OBVIOUS
      <3>2. desde[k] \in Seq(Nodos) /\ desde[k + 1] = Sigue(k + 1, desde[k])
        BY <1>5, <2>2, <3>1
      <3> QED BY <1>b, <3>1, <3>2
    <2>3. \A k \in Nat : k \in T
      <3> HIDE DEF T
      <3> QED BY <2>1, <2>2, Induccion
    <2>4. \A k \in 0..m : desde[k] \in Seq(Nodos)
      BY <2>3
    <2>5. desde = [k \in 0..m |-> cuerpo(desde)[k]]
      BY <1>3
    <2> HIDE DEF cuerpo
    <2> QED BY ONLY <2>4, <2>5
  <1>7. Porteada(desde, cs, m, ns)
    <2> HIDE DEF desde
    <2> QED BY <1>5, <1>6 DEF Porteada
  <1> HIDE DEF desde
  <1> QED BY <1>4, <1>7, <1>c DEF Destinados

\* What dictionary_resize leaves in each bucket.
LEMMA MudanzaRango ==
  ASSUME NEW m \in Nat \ {0}, NEW cs \in [0..(m - 1) -> Seq(Nodos)],
         NEW nueva \in Nat \ {0}, NEW i \in 0..(nueva - 1)
  PROVE  Mudada(Mudanza(cs, m, nueva)[i], cs, m, {n \in Nodos : hash[n] % nueva = i})
  <1>b. PICK ns : ns = Destinados(nueva, i)
    OBVIOUS
  <1>0. \A k \in 1..m : k - 1 \in 0..(m - 1) /\ cs[k - 1] \in Seq(Nodos)
    OBVIOUS
  <1>a. \A k \in 1..m : Filtrada(Filtra(cs[k - 1], ns), cs[k - 1], ns, Nodos)
    BY <1>0, FiltraRango
  <1>1. PICK desde : Porteada(desde, cs, m, ns) /\ Mudanza(cs, m, nueva)[i] = desde[m]
    <2>1. \E f : /\ Porteada(f, cs, m, Destinados(nueva, i))
                 /\ Mudanza(cs, m, nueva)[i] = f[m]
      BY MudanzaPorPasos
    <2> QED BY <1>b, <2>1
  <1>4. Mudanza(cs, m, nueva)[i] = desde[m]
    BY <1>1
  <1>5. /\ desde[0] = <<>>
        /\ \A k \in 1..m : desde[k] = desde[k - 1] \o Filtra(cs[k - 1], ns)
    BY <1>1 DEF Porteada
  <1> DEFINE Vistos(k) == {n \in ns : \E j \in 0..(k - 1) : n \in Range(cs[j])}
             Buena(k) == /\ desde[k] \in Seq(Nodos) /\ Range(desde[k]) = Vistos(k)
                         /\ Apartadas(cs, m) => IsInjective(desde[k])
             T == {k \in Nat : k <= m => Buena(k)}
  <1>6. 0 \in T
    <2>1. <<>> \in Seq(Nodos) /\ Range(<<>>) = {} /\ IsInjective(<<>>) /\ Vistos(0) = {}
      BY DEF Range, IsInjective
    <2> QED BY <1>5, <2>1
  <1>7. ASSUME NEW k \in Nat, k \in T PROVE k + 1 \in T
    <2> SUFFICES ASSUME k + 1 <= m PROVE Buena(k + 1)
      <3> HIDE DEF Buena
      <3> QED OBVIOUS
    <2>1. k + 1 \in 1..m /\ (k + 1) - 1 = k /\ k <= m /\ k \in 0..(m - 1)
      OBVIOUS
    <2>2. PICK b : b = Filtra(cs[k], ns)
      OBVIOUS
    <2>3. PICK a : a = desde[k]
      OBVIOUS
    <2>4. PICK t : t = desde[k + 1]
      OBVIOUS
    <2>5. /\ a \in Seq(Nodos) /\ Range(a) = Vistos(k)
          /\ Apartadas(cs, m) => IsInjective(a)
      BY <1>7, <2>1, <2>3
    <2>6. /\ b \in Seq(Nodos) /\ Range(b) = Range(cs[k]) \cap ns
          /\ IsInjective(cs[k]) => IsInjective(b)
      BY <1>a, <2>1, <2>2 DEF Filtrada
    <2>7. t = a \o b
      BY <1>5, <2>1, <2>2, <2>3, <2>4
    <2>8. Unido(t, a, b, Nodos)
      BY ONLY <2>5, <2>6, <2>7, UneRango
    <2>9. Vistos(k + 1) = Vistos(k) \cup (Range(cs[k]) \cap ns)
      <3>1. \A j : j \in 0..((k + 1) - 1) <=> j \in 0..(k - 1) \/ j = k
        OBVIOUS
      <3> QED BY <3>1
    <2>10. Apartadas(cs, m) => Range(a) \cap Range(b) = {}
      <3> SUFFICES ASSUME Apartadas(cs, m), NEW n \in Range(a), n \in Range(b) PROVE FALSE
        OBVIOUS
      <3>1. PICK j \in 0..(k - 1) : n \in Range(cs[j])
        BY <2>5
      <3>2. j \in 0..(m - 1) /\ j # k /\ n \in Range(cs[k])
        BY <2>1, <2>6
      <3> QED BY <2>1, <3>1, <3>2 DEF Apartadas
    <2>11. Apartadas(cs, m) => IsInjective(b)
      BY <2>1, <2>6 DEF Apartadas
    <2> HIDE DEF Vistos
    <2> QED BY <2>4, <2>5, <2>6, <2>8, <2>9, <2>10, <2>11 DEF Unido
  <1>8. m \in T
    <2> HIDE DEF T
    <2> QED BY <1>6, <1>7, Induccion
  <1>9. Buena(m) /\ Vistos(m) = Todos(cs, m) \cap ns
    BY <1>8 DEF Todos
  <1> HIDE DEF Vistos
  <1>10. Mudada(desde[m], cs, m, ns)
    BY <1>9 DEF Mudada
  <1> QED BY <1>4, <1>10, <1>b DEF Destinados

-----------------------------------------------------------------------------
(* The size of the table.                                                    *)

\* Tamanio doubles, from Inicial.
LEMMA TamanioDobla ==
  ASSUME NEW k \in Nat
  PROVE  /\ Tamanio(0) = Inicial /\ Tamanio(k) \in Nat /\ Tamanio(k) > k
         /\ Tamanio(k + 1) = 2 * Tamanio(k)
  <1> DEFINE Doble(d, n) == /\ d[0] = Inicial
                            /\ \A j \in 1..n : d[j] = 2 * d[j - 1]
             doble(n) == CHOOSE f : f = [j \in 0..n |-> IF j = 0 THEN Inicial
                                                       ELSE 2 * f[j - 1]]
  <1>1. ASSUME NEW n \in Nat PROVE Doble(doble(n), n) /\ Tamanio(n) = doble(n)[n]
    <2> DEFINE F == [j \in 1..n |-> [x \in Nat |-> 2 * x]]
               cuerpo(f) == [j \in 0..n |-> IF j = 0 THEN Inicial ELSE 2 * f[j - 1]]
               d == CHOOSE f : f = cuerpo(f)
    <2>1. PICK f \in [0..n -> Nat] : Recurre(f, Inicial, n, F)
      <3>1. F \in [1..n -> [Nat -> Nat]] /\ Inicial \in Nat
        BY DiccionarioAssumption
      <3> HIDE DEF F
      <3> QED BY <3>1, Recursion
    <2>2. f = cuerpo(f)
      <3>1. ASSUME NEW j \in 1..n PROVE f[j] = 2 * f[j - 1]
        <4>1. f[j - 1] \in Nat
          OBVIOUS
        <4> QED BY <2>1, <4>1 DEF Recurre
      <3>2. f[0] = Inicial
        BY <2>1 DEF Recurre
      <3> HIDE DEF F
      <3> QED BY <3>1, <3>2
    <2>3. d = cuerpo(d)
      <3> HIDE DEF cuerpo
      <3> QED BY <2>2
    <2>4. doble(n) = d /\ Tamanio(n) = d[n]
      BY DEF Tamanio
    <2>5. d[0] = Inicial /\ \A j \in 1..n : d[j] = 2 * d[j - 1]
      <3> HIDE DEF d
      <3> QED BY <2>3
    <2> HIDE DEF d, doble
    <2> QED BY <2>4, <2>5
  <1> HIDE DEF doble
  <1>2. PICK x, y : x = doble(k) /\ y = doble(k + 1)
    OBVIOUS
  <1>3. Doble(x, k) /\ Doble(y, k) /\ y[k + 1] = 2 * y[k]
    <2>1. k + 1 \in Nat /\ (k + 1) - 1 = k /\ k + 1 \in 1..(k + 1)
      OBVIOUS
    <2>2. Doble(x, k) /\ Doble(y, k + 1)
      BY <1>1, <1>2, <2>1
    <2>3. \A j \in 1..k : j \in 1..(k + 1)
      OBVIOUS
    <2> QED BY ONLY <2>1, <2>2, <2>3
  <1> DEFINE T == {n \in Nat : n <= k => x[n] = y[n] /\ x[n] \in Nat /\ x[n] > n}
  <1>4. 0 \in T
    BY <1>3, DiccionarioAssumption
  <1>5. ASSUME NEW n \in Nat, n \in T PROVE n + 1 \in T
    <2>1. ASSUME n + 1 <= k PROVE n + 1 \in 1..k /\ (n + 1) - 1 = n /\ n <= k
      BY <2>1
    <2>2. ASSUME n + 1 <= k PROVE x[n + 1] = 2 * x[n] /\ y[n + 1] = 2 * y[n]
      BY <2>1, <2>2, <1>3
    <2> QED BY <1>5, <2>1, <2>2
  <1>6. k \in T
    <2> HIDE DEF T
    <2> QED BY <1>4, <1>5, Induccion
  <1>7. Tamanio(k) = x[k] /\ Tamanio(k + 1) = y[k + 1] /\ Tamanio(0) = Inicial
    <2>1. k + 1 \in Nat /\ 0 \in Nat
      OBVIOUS
    <2> QED BY <1>1, <1>2, <2>1
  <1> QED BY <1>3, <1>6, <1>7

-----------------------------------------------------------------------------
(* Tables.                                                                   *)

\* m buckets, each with elements of its own, once each.
Sana(cs, hs, m) ==
  /\ cs \in [0..(m - 1) -> Seq(Nodos)]
  /\ \A i \in 0..(m - 1) : IsInjective(cs[i]) /\ \A n \in Range(cs[i]) : hs[n] % m = i

Llenas(cs, m) == {i \in 0..(m - 1) : cs[i] # <<>>}

\* A chain has elements unless it is empty.
LEMMA Vacia ==
  ASSUME NEW S, NEW s \in Seq(S)
  PROVE  s = <<>> <=> Range(s) = {}
  <1>1. Len(s) \in Nat /\ DOMAIN s = 1..Len(s) /\ (s = <<>> <=> Len(s) = 0)
    OBVIOUS
  <1>2. CASE Len(s) = 0
    BY <1>1, <1>2 DEF Range
  <1>3. CASE Len(s) # 0
    <2>1. 1 \in DOMAIN s
      BY <1>1, <1>3
    <2> QED BY <1>1, <1>3, <2>1 DEF Range
  <1> QED BY <1>2, <1>3

\* In a table where every element is in its bucket no two share one.
LEMMA SanaApartadas ==
  ASSUME NEW m, NEW hs, NEW cs, Sana(cs, hs, m)
  PROVE  Apartadas(cs, m)
  BY DEF Sana, Apartadas

\* Only a finite number of elements is linked.
LEMMA TodosFinito ==
  ASSUME NEW m, NEW hs, NEW cs, Sana(cs, hs, m)
  PROVE  Todos(cs, m) \subseteq Nodos /\ IsFiniteSet(Todos(cs, m))
  <1>1. Todos(cs, m) \subseteq Nodos
    <2> SUFFICES ASSUME NEW j \in 0..(m - 1) PROVE Range(cs[j]) \subseteq Nodos
      BY DEF Todos
    <2>1. cs[j] \in Seq(Nodos)
      BY DEF Sana
    <2> QED BY <2>1 DEF Range
  <1> QED BY <1>1, DiccionarioAssumption, FS_Subset

\* The table d is cs with the chain t in the bucket i.
Cambiada(d, cs, hs, m, i, t) ==
  /\ Sana(d, hs, m)
  /\ Todos(d, m) = (Todos(cs, m) \ Range(cs[i])) \cup Range(t)
  /\ Llenas(d, m) = IF t = <<>> THEN Llenas(cs, m) \ {i} ELSE Llenas(cs, m) \cup {i}

LEMMA Cambia ==
  ASSUME NEW m, NEW hs, NEW cs, Sana(cs, hs, m),
         NEW i \in 0..(m - 1), NEW t \in Seq(Nodos), IsInjective(t),
         \A n \in Range(t) : hs[n] % m = i,
         NEW d, d = [cs EXCEPT ![i] = t]
  PROVE  Cambiada(d, cs, hs, m, i, t)
  <1>1. PICK B : B = 0..(m - 1)
    OBVIOUS
  <1>2. /\ d \in [B -> Seq(Nodos)] /\ d[i] = t /\ i \in B
        /\ \A j \in B : j # i => d[j] = cs[j]
    BY <1>1 DEF Sana
  <1>3. Sana(d, hs, m)
    BY <1>1, <1>2 DEF Sana
  <1>4. \A j \in B : j # i => Range(cs[j]) \cap Range(cs[i]) = {}
    BY <1>1, SanaApartadas DEF Apartadas
  <1>5. Todos(d, m) = (Todos(cs, m) \ Range(cs[i])) \cup Range(t)
    <2>1. ASSUME NEW n \in Todos(d, m) PROVE n \in (Todos(cs, m) \ Range(cs[i])) \cup Range(t)
      <3>1. PICK j \in B : n \in Range(d[j])
        BY <1>1 DEF Todos
      <3> QED BY <3>1, <1>1, <1>2, <1>4 DEF Todos
    <2>2. ASSUME NEW n \in Todos(cs, m), n \notin Range(cs[i]) PROVE n \in Todos(d, m)
      <3>1. PICK j \in B : n \in Range(cs[j])
        BY <1>1 DEF Todos
      <3>2. n \in Range(d[j])
        BY <2>2, <3>1, <1>2
      <3> QED BY <3>2, <1>1 DEF Todos
    <2>3. Range(t) \subseteq Todos(d, m)
      BY <1>1, <1>2 DEF Todos
    <2> QED BY <2>1, <2>2, <2>3
  <1>6. Llenas(d, m) = IF t = <<>> THEN Llenas(cs, m) \ {i} ELSE Llenas(cs, m) \cup {i}
    BY <1>1, <1>2 DEF Llenas
  <1> QED BY <1>3, <1>5, <1>6 DEF Cambiada

\* The elements that are not linked may have any hash.
LEMMA OtroHash ==
  ASSUME NEW m, NEW hs, NEW cs, Sana(cs, hs, m), NEW hs2,
         \A n \in Todos(cs, m) : hs2[n] = hs[n]
  PROVE  Sana(cs, hs2, m)
  BY DEF Sana, Todos

\* The table twice as large has the same elements, each in its bucket.
LEMMA Crece ==
  ASSUME NEW m \in Nat \ {0}, NEW cs, Sana(cs, hash, m),
         NEW d, d = Mudanza(cs, m, m * 2)
  PROVE  /\ Sana(d, hash, m * 2)
         /\ \A i \in 0..(m * 2 - 1) : Range(d[i]) = {n \in Todos(cs, m) : hash[n] % (m * 2) = i}
  <1>1. PICK nueva \in Nat \ {0} : nueva = m * 2
    OBVIOUS
  <1>2. cs \in [0..(m - 1) -> Seq(Nodos)] /\ Apartadas(cs, m)
    BY SanaApartadas DEF Sana
  <1>3. Todos(cs, m) \subseteq Nodos
    BY TodosFinito
  <1>4. ASSUME NEW i \in 0..(nueva - 1)
        PROVE  /\ d[i] \in Seq(Nodos) /\ IsInjective(d[i])
               /\ Range(d[i]) = {n \in Todos(cs, m) : hash[n] % nueva = i}
    <2>1. Mudada(Mudanza(cs, m, nueva)[i], cs, m, {n \in Nodos : hash[n] % nueva = i})
      BY <1>2, MudanzaRango
    <2> QED BY <1>1, <1>2, <1>3, <2>1 DEF Mudada
  <1>5. d = [i \in 0..(nueva - 1) |-> d[i]]
    BY <1>1 DEF Mudanza
  <1>6. Sana(d, hash, nueva)
    BY <1>4, <1>5 DEF Sana
  <1> QED BY <1>1, <1>4, <1>6

-----------------------------------------------------------------------------
(* Unlinking.                                                                *)

\* What SubSeq keeps.
LEMMA TrozoRango ==
  ASSUME NEW S, NEW s \in Seq(S), NEW i \in 1..(Len(s) + 1), NEW j \in (i - 1)..Len(s),
         NEW t, t = SubSeq(s, i, j)
  PROVE  /\ t \in Seq(S) /\ Range(t) = {s[k] : k \in i..j}
         /\ IsInjective(s) => IsInjective(t)
  <1>1. t \in Seq(S) /\ Len(t) = j - i + 1 /\ \A k \in 1..(j - i + 1) : t[k] = s[i + k - 1]
    BY SubSeqProperties
  <1>2. DOMAIN t = 1..(j - i + 1) /\ i \in Int /\ j \in Int /\ DOMAIN s = 1..Len(s)
        /\ Len(s) \in Nat
    BY <1>1
  <1>3. ASSUME NEW k \in 1..(j - i + 1) PROVE t[k] \in {s[l] : l \in i..j}
    <2>1. i + k - 1 \in i..j
      BY <1>2
    <2> QED BY <1>1, <2>1
  <1>4. ASSUME NEW l \in i..j PROVE s[l] \in Range(t)
    <2>1. l - i + 1 \in 1..(j - i + 1) /\ i + (l - i + 1) - 1 = l
      BY <1>2
    <2>2. t[l - i + 1] = s[l]
      BY <1>1, <2>1
    <2> QED BY <1>2, <2>1, <2>2 DEF Range
  <1>5. Range(t) = {s[k] : k \in i..j}
    BY <1>2, <1>3, <1>4 DEF Range
  <1>6. ASSUME IsInjective(s) PROVE IsInjective(t)
    <2> SUFFICES ASSUME NEW k \in 1..(j - i + 1), NEW l \in 1..(j - i + 1), t[k] = t[l]
                 PROVE  k = l
      BY <1>2 DEF IsInjective
    <2>1. PICK x, y : x = i + k - 1 /\ y = i + l - 1
      OBVIOUS
    <2>2. x \in DOMAIN s /\ y \in DOMAIN s /\ s[x] = s[y]
      BY <1>1, <1>2, <2>1
    <2>3. x = y
      BY <1>6, <2>2 DEF IsInjective
    <2> QED BY <1>2, <2>1, <2>3
  <1> QED BY <1>1, <1>5, <1>6

\* t is what is left of s without n: all the rest, if r is what followed n.
Desligada(t, s, n, S) ==
  t \in Seq(S) /\ IsInjective(t) /\ Range(t) \subseteq Range(s) \ {n}

\* t is s without the element at p, that is its beginning and r: c or nothing.
Corte(t, s, p, c, r) ==
  c = SubSeq(s, p + 1, Len(s)) /\ r \in {c, <<>>} /\ t = SubSeq(s, 1, p - 1) \o r

LEMMA Desliga ==
  ASSUME NEW S, NEW s \in Seq(S), IsInjective(s), NEW p \in 1..Len(s),
         NEW c, NEW r, NEW t, Corte(t, s, p, c, r)
  PROVE  Desligada(t, s, s[p], S) /\ (r = c => Range(t) = Range(s) \ {s[p]})
  <1>0. /\ Len(s) \in Nat /\ p \in Int /\ DOMAIN s = 1..Len(s)
        /\ c = SubSeq(s, p + 1, Len(s)) /\ r \in {c, <<>>} /\ t = SubSeq(s, 1, p - 1) \o r
    BY DEF Corte
  <1>1. PICK a : a = SubSeq(s, 1, p - 1)
    OBVIOUS
  <1>2. a \in Seq(S) /\ IsInjective(a) /\ Range(a) = {s[k] : k \in 1..(p - 1)}
    <2>1. PICK x, y : x = 1 /\ y = p - 1
      OBVIOUS
    <2>2. x \in 1..(Len(s) + 1) /\ y \in (x - 1)..Len(s) /\ a = SubSeq(s, x, y)
      BY <1>0, <1>1, <2>1
    <2>3. a \in Seq(S) /\ Range(a) = {s[k] : k \in x..y} /\ IsInjective(a)
      BY <2>2, TrozoRango
    <2> QED BY <2>1, <2>3
  <1>3. c \in Seq(S) /\ IsInjective(c) /\ Range(c) = {s[k] : k \in (p + 1)..Len(s)}
    <2>1. PICK x, y : x = p + 1 /\ y = Len(s)
      OBVIOUS
    <2>2. x \in 1..(Len(s) + 1) /\ y \in (x - 1)..Len(s) /\ c = SubSeq(s, x, y)
      BY <1>0, <2>1
    <2>3. c \in Seq(S) /\ Range(c) = {s[k] : k \in x..y} /\ IsInjective(c)
      BY ONLY <2>2, s \in Seq(S), IsInjective(s), TrozoRango
    <2>4. x..y = (p + 1)..Len(s)
      BY <2>1
    <2> QED BY <2>3, <2>4
  <1>4. r \in Seq(S) /\ IsInjective(r) /\ Range(r) \subseteq Range(c)
    <2>1. <<>> \in Seq(S) /\ Range(<<>>) = {} /\ IsInjective(<<>>)
      BY DEF Range, IsInjective
    <2> QED BY <1>0, <1>3, <2>1
  <1>5. \A k \in 1..(p - 1), l \in (p + 1)..Len(s) : s[k] # s[l]
    <2> SUFFICES ASSUME NEW k \in 1..(p - 1), NEW l \in (p + 1)..Len(s) PROVE s[k] # s[l]
      OBVIOUS
    <2>1. k \in 1..Len(s) /\ l \in 1..Len(s) /\ k # l
      BY <1>0
    <2> QED BY <1>0, <2>1 DEF IsInjective
  <1>6. \A k \in 1..Len(s) : k # p => s[k] # s[p]
    BY <1>0 DEF IsInjective
  <1>7. Unido(t, a, r, S)
    BY ONLY <1>0, <1>1, <1>2, <1>4, UneRango
  <1>8. Range(a) \cap Range(r) = {}
    BY <1>2, <1>3, <1>4, <1>5
  <1>9. Range(a) \cup Range(c) = Range(s) \ {s[p]}
    <2>1. \A k \in 1..Len(s) : k \in 1..(p - 1) \/ k = p \/ k \in (p + 1)..Len(s)
      BY <1>0
    <2>2. \A k \in 1..(p - 1) : k \in 1..Len(s) /\ k # p
      BY <1>0
    <2>3. \A k \in (p + 1)..Len(s) : k \in 1..Len(s) /\ k # p
      BY <1>0
    <2> QED BY ONLY <1>0, <1>2, <1>3, <1>6, <2>1, <2>2, <2>3 DEF Range
  <1> QED BY <1>2, <1>4, <1>7, <1>8, <1>9 DEF Unido, Desligada

\* The place of an element in its chain, and what follows it.
LEMMA Sitio ==
  ASSUME NEW s \in Seq(Nodos), IsInjective(s), NEW n \in Range(s)
  PROVE  \E p \in 1..Len(s) : s[p] = n /\ Donde(s, n) = p
  <1> DEFINE I == {j \in 1..Len(s) : s[j] = n}
  <1>1. PICK p \in 1..Len(s) : s[p] = n
    BY DEF Range
  <1>2. I = {p}
    BY <1>1 DEF IsInjective
  <1>3. Min(I) = p
    BY <1>1, <1>2 DEF Min
  <1>4. Donde(s, n) = Min(I)
    BY <1>2 DEF Donde, SelectInSeq
  <1> QED BY <1>1, <1>3, <1>4

\* Resto, in any table.
RestoEn(cs, n) ==
  LET s == CHOOSE c \in Range(cs) : n \in Range(c) IN SubSeq(s, Donde(s, n) + 1, Len(s))

\* n is in the place p of the chain s, and r follows it.
Situado(s, n, p, r) ==
  p \in 1..Len(s) /\ s[p] = n /\ Donde(s, n) = p /\ r = SubSeq(s, p + 1, Len(s))

LEMMA RestoEnEs ==
  ASSUME NEW m, NEW hs, NEW cs, Sana(cs, hs, m), NEW i \in 0..(m - 1), NEW n \in Range(cs[i])
  PROVE  \E p : Situado(cs[i], n, p, RestoEn(cs, n))
  <1>1. cs[i] \in Seq(Nodos) /\ IsInjective(cs[i])
    BY DEF Sana
  <1>2. PICK p \in 1..Len(cs[i]) : cs[i][p] = n /\ Donde(cs[i], n) = p
    BY <1>1, Sitio
  <1>3. (CHOOSE c \in Range(cs) : n \in Range(c)) = cs[i]
    <2>1. cs[i] \in Range(cs)
      BY DEF Sana, Range
    <2>2. ASSUME NEW c \in Range(cs), n \in Range(c) PROVE c = cs[i]
      <3>1. PICK j \in 0..(m - 1) : c = cs[j]
        BY DEF Sana, Range
      <3> QED BY <1>1, <2>2, <3>1 DEF Sana
    <2> QED BY <1>1, <2>1, <2>2
  <1>4. RestoEn(cs, n) = SubSeq(cs[i], p + 1, Len(cs[i]))
    BY <1>2, <1>3 DEF RestoEn
  <1> QED BY <1>2, <1>4 DEF Situado

LEMMA RestoEs ==
  ASSUME NEW m, NEW hs, Sana(cubetas, hs, m), NEW i \in 0..(m - 1), NEW n \in EnCadena(i)
  PROVE  \E p \in 1..Len(cubetas[i]) :
            /\ cubetas[i][p] = n /\ Donde(cubetas[i], n) = p
            /\ Resto(n) = SubSeq(cubetas[i], p + 1, Len(cubetas[i]))
  <1>1. Resto(n) = RestoEn(cubetas, n) /\ n \in Range(cubetas[i])
    BY DEF Resto, RestoEn, EnCadena
  <1>2. \E p : Situado(cubetas[i], n, p, RestoEn(cubetas, n))
    BY <1>1, RestoEnEs
  <1> QED BY <1>1, <1>2 DEF Situado

-----------------------------------------------------------------------------
(* The invariant.                                                            *)

\* Every element is linked once, in its bucket.
Tabla == Sana(cubetas, hash, max)

\* The put under way: its element is in no bucket; a bucket found empty still
\* is; the table may grow, or the counter was far from it, whatever the remove
\* took from it since.
PonBien ==
  pon # Nulo =>
    /\ pon \in [nodo : Nodos, i : 0..(max - 1), cola : Nodos \cup {Nulo},
                vc : SUBSET Int, vt : SUBSET Int]
    /\ pon.nodo \notin Enlazados /\ pon.i = hash[pon.nodo] % max
    /\ pon.cola = Nulo => cubetas[pon.i] = <<>>
    /\ \A v \in pon.vt : v >= ocupadas
    /\ max * 2 <= MaxTabla \/ \A v \in pon.vt \cup {ocupadas} : v + 1 < max

\* The remove under way: its element is linked, and the put only adds.
SacaBien ==
  saca # Nulo =>
    /\ saca \in [nodo : Nodos, i : 0..(max - 1), ultimo : BOOLEAN, vc : SUBSET Int, vt : SUBSET Int]
    /\ saca.nodo \in EnCadena(saca.i)
    /\ \A v \in saca.vt : v <= ocupadas
    /\ dato[saca.nodo] = 0 => nulos < MaxNulos

\* While the two threads have not met there is one of them, and it knows the
\* chain it is in.
Solos ==
  cruces = {} =>
    /\ pon = Nulo \/ saca = Nulo
    /\ pon # Nulo => /\ pon.vc = {} /\ pon.vt = {}
                     /\ pon.cola # Nulo => pon.cola \in EnCadena(pon.i)
    /\ saca # Nulo => /\ saca.vc = {} /\ saca.vt = {}
                      /\ saca.ultimo => Resto(saca.nodo) = <<>>

\* A thread alone keeps the counters exact, and a bucket free.
Exactas ==
  cruces = {} =>
    LET usadas == {i \in 0..(max - 1) : cubetas[i] # <<>>} IN
    /\ ocupadas = Cardinality(usadas) /\ usadas # 0..(max - 1)
    /\ cantidad = Cardinality(Enlazados) + nulos

Inv ==
  /\ TypeOK /\ Tabla /\ Solos /\ Exactas
  /\ Definido => PonBien /\ SacaBien

-----------------------------------------------------------------------------
(* The properties from the invariant.                                        *)

Usadas == Llenas(cubetas, max)

\* The same in the words of the lemmas.
LEMMA CuentasDe ==
  Exactas <=>
    (cruces = {} => /\ ocupadas = Cardinality(Usadas) /\ Usadas # 0..(max - 1)
                    /\ cantidad = Cardinality(Todos(cubetas, max)) + nulos)
  BY DEF Exactas, Usadas, Llenas, Enlazados, Todos, EnCadena

LEMMA MaxNatural ==
  ASSUME TypeOK
  PROVE  max \in Nat \ {0}
  <1>1. PICK k \in 0..MaxTabla : max = Tamanio(k)
    BY DEF TypeOK
  <1>2. k \in Nat
    BY DiccionarioAssumption
  <1> QED BY <1>1, <1>2, TamanioDobla

LEMMA HashNatural ==
  ASSUME TypeOK, NEW x \in Nodos
  PROVE  hash[x] \in Nat
  <1>1. hash[x] \in Claves \cup {0}
    BY DEF TypeOK
  <1>2. Claves \subseteq Nat
    BY DiccionarioAssumption
  <1>3. hash[x] = 0 => hash[x] \in Nat
    OBVIOUS
  <1> QED BY ONLY <1>1, <1>2, <1>3

LEMMA InvDaCubeta ==
  ASSUME Inv
  PROVE  CadaUnoEnSuCubeta
  <1>1. TypeOK /\ Sana(cubetas, hash, max)
    BY DEF Inv, Tabla
  <1>2. SUFFICES ASSUME NEW i \in 0..(max - 1), NEW j \in 0..(max - 1),
                        NEW a \in DOMAIN cubetas[i], NEW b \in DOMAIN cubetas[j]
                 PROVE  /\ hash[cubetas[i][a]] % max = i
                        /\ cubetas[i][a] = cubetas[j][b] => i = j /\ a = b
    BY <1>1 DEF CadaUnoEnSuCubeta
  <1>3. /\ cubetas[i][a] \in Range(cubetas[i]) /\ cubetas[j][b] \in Range(cubetas[j])
        /\ IsInjective(cubetas[i])
    BY <1>1 DEF Range, Sana
  <1>4. hash[cubetas[i][a]] % max = i /\ hash[cubetas[j][b]] % max = j
    BY <1>1, <1>3 DEF Sana
  <1> QED BY <1>3, <1>4 DEF IsInjective

-----------------------------------------------------------------------------
(* The counters.                                                             *)

\* What an operation leaves in a counter: what it adds if it was alone; at most
\* one more, or one less, than one of the values it may have read.
Dejado(y, x, d, vs) ==
  /\ y \in Int /\ (vs = {} => y = x + d)
  /\ d = 1 => \E v \in vs \cup {x} : y = v \/ y = v + 1
  /\ d >= 0 /\ (\A v \in vs : v >= x) => y >= x
  /\ d <= 0 /\ (\A v \in vs : v <= x) => y <= x

LEMMA SumaDe ==
  ASSUME NEW x \in Int, NEW d \in {-1, 0, 1}, NEW vs \in SUBSET Int, NEW y \in Suma(x, d, vs)
  PROVE  Dejado(y, x, d, vs)
  <1>1. d = 0 => y = x
    BY DEF Suma
  <1>2. d # 0 => \/ \E v \in vs \cup {x} : y = v + d
                 \/ vs # {} /\ y = x
    BY DEF Suma
  <1>3. CASE d = 0
    <2>1. y = x /\ y = x + d /\ y >= x /\ y <= x /\ d # 1
      BY <1>1, <1>3
    <2> QED BY ONLY <2>1, x \in Int DEF Dejado
  <1>4. CASE d # 0 /\ y = x /\ vs # {}
    <2>1. \E v \in vs \cup {x} : y = v
      BY <1>4
    <2>2. \E v \in vs \cup {x} : y = v \/ y = v + 1
      BY ONLY <2>1
    <2>3. y \in Int /\ y >= x /\ y <= x
      BY <1>4
    <2> QED BY ONLY <1>4, <2>2, <2>3 DEF Dejado
  <1>5. CASE d # 0 /\ \E v \in vs \cup {x} : y = v + d
    <2>1. PICK v \in vs \cup {x} : y = v + d
      BY <1>5
    <2>2. v \in Int /\ y \in Int /\ (vs = {} => v = x)
      BY <2>1
    <2>3. d = 1 => \E w \in vs \cup {x} : y = w \/ y = w + 1
      BY <2>1
    <2>4. d >= 0 /\ (\A w \in vs : w >= x) => y >= x
      BY <2>1, <2>2
    <2>5. d <= 0 /\ (\A w \in vs : w <= x) => y <= x
      BY <2>1, <2>2
    <2> QED BY ONLY <2>1, <2>2, <2>3, <2>4, <2>5 DEF Dejado
  <1> QED BY <1>2, <1>3, <1>4, <1>5

-----------------------------------------------------------------------------
(* Each step keeps the invariant.                                            *)

LEMMA InicioInv == Init => Inv
  <1> SUFFICES ASSUME Init PROVE Inv
    OBVIOUS
  <1>1. /\ max = Inicial /\ ocupadas = 0 /\ cantidad = 0
        /\ cubetas = [i \in 0..(max - 1) |-> <<>>]
        /\ hash = [n \in Nodos |-> 0] /\ dato = [n \in Nodos |-> 0]
        /\ pon = Nulo /\ saca = Nulo
        /\ nulos = 0 /\ encuentros = 0 /\ cruces = {}
    BY DEF Init
  <1>2. <<>> \in Seq(Nodos) /\ Range(<<>>) = {} /\ IsInjective(<<>>)
    BY DEF Range, IsInjective
  <1>3. TypeOK
    <2>1. 0 \in 0..MaxTabla /\ max = Tamanio(0) /\ max <= MaxTabla
      <3>1. 0 \in Nat
        OBVIOUS
      <3>2. Tamanio(0) = Inicial
        BY <3>1, TamanioDobla
      <3> QED BY <1>1, <3>2, DiccionarioAssumption
    <2>2. nulos \in 0..MaxNulos /\ encuentros \in 0..Encuentros
      BY <1>1, DiccionarioAssumption
    <2>3. cubetas \in [0..(max - 1) -> Seq(Nodos)]
      BY <1>1, <1>2
    <2> QED BY <1>1, <2>1, <2>2, <2>3 DEF TypeOK
  <1>4. Tabla
    BY <1>1, <1>2 DEF Tabla, Sana
  <1>5. Exactas
    <2>1. Usadas = {} /\ Todos(cubetas, max) = {}
      BY <1>1, <1>2 DEF Usadas, Llenas, Todos
    <2>2. 0 \in 0..(max - 1)
      BY <1>1, DiccionarioAssumption
    <2>3. ocupadas = Cardinality(Usadas)
      BY <1>1, <2>1, FS_EmptySet
    <2>4. cantidad = Cardinality(Todos(cubetas, max)) + nulos
      <3>1. Cardinality(Todos(cubetas, max)) = 0
        BY <2>1, FS_EmptySet
      <3> QED BY <1>1, <3>1
    <2>5. Usadas # 0..(max - 1)
      BY <2>1, <2>2
    <2> QED BY <2>3, <2>4, <2>5, CuentasDe
  <1> QED BY <1>1, <1>3, <1>4, <1>5 DEF Inv, Solos, PonBien, SacaBien

\* PonBusca: the new element is in no bucket.
LEMMA PasoPonBusca ==
  ASSUME Inv, NEW h \in Claves, NEW d \in Datos, PonBusca(h, d)
  PROVE  Inv'
  <1>1. /\ TypeOK /\ Sana(cubetas, hash, max) /\ Solos /\ Exactas
        /\ Definido /\ SacaBien /\ pon = Nulo
        /\ max \in Nat \ {0}
    BY MaxNatural DEF Inv, PonBusca, Tabla
  <1>2. PICK i, cola : /\ i = h % max
                       /\ cola = IF cubetas[i] = <<>> THEN Nulo ELSE Last(cubetas[i])
    OBVIOUS
  <1>3. PICK n \in Nodos \ EnUso :
          /\ hash' = [hash EXCEPT ![n] = h]
          /\ dato' = [dato EXCEPT ![n] = d]
          /\ pon' = [nodo |-> n, i |-> i, cola |-> cola, vc |-> {}, vt |-> {}]
    BY <1>2 DEF PonBusca
  <1>4. /\ Empieza(saca)
        /\ max * 2 <= MaxTabla \/ ocupadas + 1 < max
        /\ cruces' = cruces \cup CruceDe(pon', saca)
        /\ UNCHANGED <<max, ocupadas, cantidad, cubetas, saca, nulos>>
    BY DEF PonBusca
  <1>5. n \notin Todos(cubetas, max) /\ (saca # Nulo => n # saca.nodo)
    BY <1>3 DEF EnUso, Enlazados, EnCadena, Todos
  <1>6. h \in Nat /\ i \in 0..(max - 1) /\ hash'[n] = h
    <2>1. h \in Nat
      BY DiccionarioAssumption
    <2>2. h % max \in 0..(max - 1)
      BY <1>1, <2>1
    <2> QED BY <1>1, <1>2, <1>3, <2>1, <2>2 DEF TypeOK
  <1>7. cola = Nulo \/ (cola \in Nodos /\ cola \in EnCadena(i))
    <2>1. CASE cubetas[i] # <<>>
      <3>1. cubetas[i] \in Seq(Nodos)
        BY <1>1, <1>6 DEF Sana
      <3>2. Len(cubetas[i]) \in DOMAIN cubetas[i] /\ cubetas[i][Len(cubetas[i])] \in Nodos
        BY <2>1, <3>1
      <3> QED BY <1>2, <2>1, <3>2 DEF Last, EnCadena, Range
    <2> QED BY <1>2, <2>1
  <1>8. cola = Nulo => cubetas[i] = <<>>
    <2>1. Nulo \notin Nodos
      BY DiccionarioAssumption
    <2> SUFFICES ASSUME cola = Nulo, cubetas[i] # <<>> PROVE FALSE
      OBVIOUS
    <2>2. cubetas[i] \in Seq(Nodos)
      BY <1>1, <1>6 DEF Sana
    <2>3. cubetas[i][Len(cubetas[i])] \in Nodos
      BY <2>2
    <2> QED BY <1>2, <2>1, <2>3 DEF Last
  <1>9. TypeOK'
    <2>1. encuentros' \in 0..Encuentros
      BY <1>1, <1>4, DiccionarioAssumption DEF TypeOK, Empieza
    <2>2. cruces' \subseteq {"contador", "cadena", "mudanza"}
      BY <1>1, <1>4 DEF TypeOK, CruceDe
    <2>3. hash' \in [Nodos -> Claves \cup {0}] /\ dato' \in [Nodos -> Datos \cup {0}]
      BY <1>1, <1>3 DEF TypeOK
    <2> QED BY <1>1, <1>4, <2>1, <2>2, <2>3 DEF TypeOK
  <1>10. Tabla'
    <2>1. \A x \in Todos(cubetas, max) : hash'[x] = hash[x]
      BY <1>1, <1>3, <1>5 DEF TypeOK
    <2>2. Sana(cubetas, hash', max)
      BY <1>1, <2>1, OtroHash
    <2> QED BY <1>4, <2>2 DEF Tabla
  <1>11. PonBien'
    <2>1. pon' \in [nodo : Nodos, i : 0..(max - 1), cola : Nodos \cup {Nulo},
                    vc : SUBSET Int, vt : SUBSET Int]
      BY <1>3, <1>6, <1>7
    <2>2. pon'.nodo = n /\ pon'.i = i /\ pon'.cola = cola /\ pon'.vt = {}
      BY <1>3
    <2>4. max * 2 <= MaxTabla \/ ocupadas + 1 < max
      BY <1>4
    <2>5. Enlazados' = Todos(cubetas, max)
      BY <1>4 DEF Enlazados, Todos, EnCadena
    <2> QED BY <1>2, <1>4, <1>5, <1>6, <1>8, <2>1, <2>2, <2>4, <2>5 DEF PonBien
  <1>12. SacaBien'
    <2> SUFFICES ASSUME saca # Nulo PROVE SacaBien'
      BY <1>4 DEF SacaBien
    <2>1. saca.nodo \in Nodos /\ dato'[saca.nodo] = dato[saca.nodo]
      BY <1>1, <1>3, <1>5 DEF SacaBien, TypeOK
    <2> QED BY <1>1, <1>4, <2>1 DEF SacaBien, EnCadena
  <1>13. Solos'
    <2> SUFFICES ASSUME cruces' = {} PROVE Solos'
      BY DEF Solos
    <2>1. cruces = {} /\ CruceDe(pon', saca) = {}
      BY <1>4
    <2>2. pon' = Nulo \/ saca' = Nulo
      BY <1>4, <2>1 DEF CruceDe
    <2>3. (pon # Nulo => /\ pon.vc = {} /\ pon.vt = {}
                         /\ pon.cola # Nulo => pon.cola \in EnCadena(pon.i))'
      BY <1>3, <1>4, <1>7 DEF EnCadena
    <2>4. (saca # Nulo => /\ saca.vc = {} /\ saca.vt = {}
                          /\ saca.ultimo => Resto(saca.nodo) = <<>>)'
      <3>1. Resto(saca.nodo)' = Resto(saca.nodo)
        <4>1. cubetas' = cubetas /\ saca' = saca
          BY <1>4
        <4> QED BY ONLY <4>1 DEF Resto
      <3> QED BY <1>1, <1>4, <2>1, <3>1 DEF Solos
    <2> QED BY <2>2, <2>3, <2>4 DEF Solos
  <1>14. Exactas'
    BY <1>1, <1>4 DEF Exactas, Enlazados, EnCadena
  <1> QED BY <1>9, <1>10, <1>11, <1>12, <1>13, <1>14 DEF Inv

\* What dictionary_get_element finds.
LEMMA ElementoEs ==
  ASSUME Sana(cubetas, hash, max), NEW h, h % max \in 0..(max - 1), Elemento(h) # Nulo
  PROVE  Elemento(h) \in Nodos /\ Elemento(h) \in EnCadena(h % max)
  <1> DEFINE s == cubetas[h % max]
             L == {j \in DOMAIN s : hash[s[j]] = h}
  <1>1. s \in Seq(Nodos)
    BY DEF Sana
  <1>2. L # {} /\ L \subseteq Nat /\ L \subseteq DOMAIN s
    BY <1>1 DEF Elemento
  <1>3. PICK x \in L : \A y \in L : x <= y
    <2> HIDE DEF L
    <2> QED BY <1>2, Minimo
  <1>4. Min(L) \in L
    <2> HIDE DEF L
    <2> QED BY <1>3 DEF Min
  <1>5. Elemento(h) = s[Min(L)]
    BY <1>2 DEF Elemento
  <1>6. Min(L) \in DOMAIN s
    BY <1>2, <1>4
  <1> HIDE DEF L
  <1> QED BY <1>1, <1>5, <1>6 DEF EnCadena, Range

\* SacaBusca: what is found is linked.
LEMMA PasoSacaBusca ==
  ASSUME Inv, NEW h \in Claves, SacaBusca(h)
  PROVE  Inv'
  <1>1. /\ TypeOK /\ Sana(cubetas, hash, max) /\ Solos /\ Exactas
        /\ Definido /\ PonBien /\ saca = Nulo
        /\ max \in Nat \ {0}
    BY MaxNatural DEF Inv, SacaBusca, Tabla
  <1>2. PICK n : n = Elemento(h)
    OBVIOUS
  <1>3. PICK i : i = h % max
    OBVIOUS
  <1>4. /\ Empieza(pon) /\ n # Nulo /\ (nulos = MaxNulos => dato[n] # 0)
        /\ saca' = [nodo |-> n, i |-> i, ultimo |-> Resto(n) = <<>>, vc |-> {}, vt |-> {}]
        /\ cruces' = cruces \cup CruceDe(pon, saca')
        /\ UNCHANGED <<max, ocupadas, cantidad, cubetas, hash, dato, pon, nulos>>
    BY <1>2, <1>3 DEF SacaBusca, nodos
  <1>5. i \in 0..(max - 1)
    <2>1. h \in Nat
      BY DiccionarioAssumption
    <2> QED BY <1>1, <1>3, <2>1
  <1>6. n \in Nodos /\ n \in EnCadena(i)
    BY <1>1, <1>2, <1>3, <1>4, <1>5, ElementoEs
  <1>7. TypeOK'
    <2>1. encuentros' \in 0..Encuentros
      BY <1>1, <1>4, DiccionarioAssumption DEF TypeOK, Empieza
    <2>2. cruces' \subseteq {"contador", "cadena", "mudanza"}
      BY <1>1, <1>4 DEF TypeOK, CruceDe
    <2> QED BY <1>1, <1>4, <2>1, <2>2 DEF TypeOK
  <1>8. Tabla'
    BY <1>1, <1>4 DEF Tabla
  <1>9. PonBien'
    BY <1>1, <1>4 DEF PonBien, Enlazados, EnCadena
  <1>10. SacaBien'
    <2>1. /\ saca' \in [nodo : Nodos, i : 0..(max - 1), ultimo : BOOLEAN, vc : SUBSET Int, vt : SUBSET Int]
          /\ saca'.nodo = n /\ saca'.i = i /\ saca'.vt = {}
      BY <1>4, <1>5, <1>6
    <2>2. dato[n] = 0 => nulos < MaxNulos
      BY <1>1, <1>4, DiccionarioAssumption DEF TypeOK
    <2> QED BY <1>4, <1>6, <2>1, <2>2 DEF SacaBien, EnCadena
  <1>11. Solos'
    <2> SUFFICES ASSUME cruces' = {} PROVE Solos'
      BY DEF Solos
    <2>1. cruces = {} /\ CruceDe(pon, saca') = {}
      BY <1>4
    <2>2. pon' = Nulo \/ saca' = Nulo
      BY <1>4, <2>1 DEF CruceDe
    <2>3. (pon # Nulo => /\ pon.vc = {} /\ pon.vt = {}
                         /\ pon.cola # Nulo => pon.cola \in EnCadena(pon.i))'
      BY <1>1, <1>4, <2>1 DEF EnCadena, Solos
    <2>4. (saca # Nulo => /\ saca.vc = {} /\ saca.vt = {}
                          /\ saca.ultimo => Resto(saca.nodo) = <<>>)'
      <3>1. Resto(saca.nodo)' = Resto(n)
        <4>1. cubetas' = cubetas /\ saca'.nodo = n
          BY <1>4
        <4> QED BY ONLY <4>1 DEF Resto
      <3> QED BY <1>4, <3>1
    <2> QED BY <2>2, <2>3, <2>4 DEF Solos
  <1>12. Exactas'
    BY <1>1, <1>4 DEF Exactas, Enlazados, EnCadena
  <1> QED BY <1>7, <1>8, <1>9, <1>10, <1>11, <1>12 DEF Inv

\* Limpia: what Init makes, in a table that may be larger.
LEMMA PasoLimpia ==
  ASSUME Inv, Limpia
  PROVE  Inv'
  <1>1. TypeOK /\ Definido /\ pon = Nulo /\ saca = Nulo /\ max \in Nat \ {0}
    BY MaxNatural DEF Inv, Limpia
  <1>2. /\ cubetas' = [i \in 0..(max - 1) |-> <<>>]
        /\ ocupadas' = 0 /\ cantidad' = 0 /\ nulos' = 0
        /\ hash' = [n \in Nodos |-> 0] /\ dato' = [n \in Nodos |-> 0]
        /\ max' = max /\ pon' = Nulo /\ saca' = Nulo
        /\ encuentros' = encuentros /\ cruces' = cruces
    BY <1>1 DEF Limpia
  <1>3. <<>> \in Seq(Nodos) /\ Range(<<>>) = {} /\ IsInjective(<<>>)
    BY DEF Range, IsInjective
  <1>4. TypeOK'
    <2>1. nulos' \in 0..MaxNulos
      BY <1>2, DiccionarioAssumption
    <2>2. cubetas' \in [0..(max' - 1) -> Seq(Nodos)]
      BY <1>2, <1>3
    <2> QED BY <1>1, <1>2, <2>1, <2>2 DEF TypeOK
  <1>5. Tabla'
    BY <1>2, <1>3 DEF Tabla, Sana
  <1>6. Exactas'
    <2>1. Usadas' = {} /\ Todos(cubetas', max') = {}
      BY <1>2, <1>3 DEF Usadas, Llenas, Todos
    <2>2. Usadas' # 0..(max' - 1)
      <3>1. 0 \in 0..(max' - 1)
        BY <1>1, <1>2
      <3> QED BY <2>1, <3>1
    <2>3. Cardinality(Usadas') = 0 /\ Cardinality(Todos(cubetas', max')) = 0
      BY <2>1, FS_EmptySet
    <2>4. ocupadas' = Cardinality(Usadas')
          /\ cantidad' = Cardinality(Todos(cubetas', max')) + nulos'
      BY <1>2, <2>3
    <2> QED BY <2>2, <2>4 DEF Exactas, Usadas, Llenas, Enlazados, Todos, EnCadena
  <1> QED BY <1>2, <1>4, <1>5, <1>6 DEF Inv, Solos, PonBien, SacaBien

\* What unlinking an element does to the table.
Desligue(n, i, s, c, r, t, d) ==
  /\ n = saca.nodo /\ i = saca.i /\ s = cubetas[i] /\ c = Resto(n)
  /\ r \in {c, <<>>} /\ t = SubSeq(s, 1, Donde(s, n) - 1) \o r
  /\ d = [cubetas EXCEPT ![i] = t]

Desligado(n, i, s, c, r, t, d) ==
  /\ i \in 0..(max - 1) /\ n \in Nodos /\ n \in Todos(cubetas, max)
  /\ s # <<>> /\ n \notin Todos(d, max)
  /\ Cambiada(d, cubetas, hash, max, i, t) /\ Desligada(t, s, n, Nodos)
  /\ r = c => Todos(d, max) = Todos(cubetas, max) \ {n}

LEMMA SacaDesliga ==
  ASSUME Inv, Definido, saca # Nulo,
         NEW n, NEW i, NEW s, NEW c, NEW r, NEW t, NEW d, Desligue(n, i, s, c, r, t, d)
  PROVE  Desligado(n, i, s, c, r, t, d)
  <1>0. /\ n = saca.nodo /\ i = saca.i /\ s = cubetas[i] /\ c = Resto(n)
        /\ r \in {c, <<>>} /\ t = SubSeq(s, 1, Donde(s, n) - 1) \o r
        /\ d = [cubetas EXCEPT ![i] = t]
    BY DEF Desligue
  <1>1. Sana(cubetas, hash, max) /\ SacaBien
    BY DEF Inv, Tabla
  <1>2. i \in 0..(max - 1) /\ n \in Nodos /\ n \in EnCadena(i) /\ n \in Range(s)
    BY <1>0, <1>1 DEF SacaBien, EnCadena
  <1>3. s \in Seq(Nodos) /\ IsInjective(s) /\ \A x \in Range(s) : hash[x] % max = i
    BY <1>0, <1>1, <1>2 DEF Sana
  <1>4. PICK p \in 1..Len(s) : /\ s[p] = n /\ Donde(s, n) = p
                              /\ c = SubSeq(s, p + 1, Len(s))
    <2>1. PICK p \in 1..Len(cubetas[i]) :
            /\ cubetas[i][p] = n /\ Donde(cubetas[i], n) = p
            /\ Resto(n) = SubSeq(cubetas[i], p + 1, Len(cubetas[i]))
      BY <1>1, <1>2, RestoEs
    <2> QED BY <1>0, <2>1
  <1>5. Corte(t, s, p, c, r)
    BY <1>0, <1>4 DEF Corte
  <1>6. Desligada(t, s, s[p], Nodos) /\ (r = c => Range(t) = Range(s) \ {s[p]})
    BY <1>3, <1>5, Desliga
  <1>7. Desligada(t, s, n, Nodos) /\ (r = c => Range(t) = Range(s) \ {n})
    BY <1>4, <1>6
  <1>8. Cambiada(d, cubetas, hash, max, i, t)
    <2>1. t \in Seq(Nodos) /\ IsInjective(t) /\ \A x \in Range(t) : hash[x] % max = i
      BY <1>3, <1>7 DEF Desligada
    <2> QED BY <1>0, <1>1, <1>2, <2>1, Cambia
  <1>9. n \in Todos(cubetas, max) /\ Range(s) \subseteq Todos(cubetas, max)
    BY <1>0, <1>2 DEF Todos
  <1>10. s # <<>>
    BY <1>2, <1>3, Vacia
  <1>11. Todos(d, max) = (Todos(cubetas, max) \ Range(s)) \cup Range(t)
    BY <1>0, <1>8 DEF Cambiada
  <1>12. n \notin Todos(d, max)
    BY <1>2, <1>7, <1>11 DEF Desligada
  <1>13. r = c => Todos(d, max) = Todos(cubetas, max) \ {n}
    <2> SUFFICES ASSUME r = c PROVE Todos(d, max) = Todos(cubetas, max) \ {n}
      OBVIOUS
    <2>1. Range(t) = Range(s) \ {n}
      BY <1>7
    <2>2. PICK A, B, R : A = Todos(cubetas, max) /\ B = Todos(d, max) /\ R = Range(s)
      OBVIOUS
    <2>3. n \in R /\ R \subseteq A /\ B = (A \ R) \cup (R \ {n})
      BY <1>2, <1>9, <1>11, <2>1, <2>2
    <2>4. B = A \ {n}
      BY ONLY <2>3
    <2> QED BY <2>2, <2>4
  <1> QED BY <1>2, <1>7, <1>8, <1>9, <1>10, <1>12, <1>13 DEF Desligado

LEMMA PasoSacaEscribe ==
  ASSUME Inv, SacaEscribe
  PROVE  Inv'
  <1>1. /\ TypeOK /\ Sana(cubetas, hash, max) /\ Solos /\ Exactas
        /\ Definido /\ PonBien /\ SacaBien /\ saca # Nulo
        /\ max \in Nat \ {0}
    BY MaxNatural DEF Inv, SacaEscribe, Tabla
  <1>2. PICK n : n = saca.nodo
    OBVIOUS
  <1>3. PICK i : i = saca.i
    OBVIOUS
  <1>4. PICK s : s = cubetas[i]
    OBVIOUS
  <1>5. PICK c : c = Resto(n)
    OBVIOUS
  <1>6. PICK a : a = SubSeq(s, 1, Donde(s, n) - 1)
    OBVIOUS
  <1>7. PICK r \in {c} \cup (IF saca.ultimo THEN {<<>>} ELSE {}) :
          /\ cubetas' = [cubetas EXCEPT ![i] = a \o r]
          /\ ocupadas' \in Suma(ocupadas, IF a \o r = <<>> THEN -1 ELSE 0, saca.vt)
          /\ cantidad' \in Suma(cantidad, IF dato[n] = 0 THEN 0 ELSE -1, saca.vc)
          /\ pon' = Anota(pon, Escrito(cantidad, IF dato[n] = 0 THEN 0 ELSE -1),
                          Escrito(ocupadas, IF a \o r = <<>> THEN -1 ELSE 0))
          /\ nulos' = IF dato[n] = 0 THEN nulos + 1 ELSE nulos
    BY <1>2, <1>3, <1>4, <1>5, <1>6 DEF SacaEscribe
  <1>8. /\ hash' = [hash EXCEPT ![n] = 0] /\ dato' = [dato EXCEPT ![n] = 0]
        /\ saca' = Nulo /\ max' = max /\ encuentros' = encuentros /\ cruces' = cruces
    BY <1>2 DEF SacaEscribe
  <1>9. PICK t : t = a \o r
    OBVIOUS
  <1>10. PICK d : d = [cubetas EXCEPT ![i] = t]
    OBVIOUS
  <1>11. cubetas' = d
    BY <1>7, <1>9, <1>10
  <1>12. /\ i \in 0..(max - 1) /\ n \in Nodos /\ n \in Todos(cubetas, max)
         /\ s # <<>> /\ n \notin Todos(d, max)
         /\ Cambiada(d, cubetas, hash, max, i, t) /\ Desligada(t, s, n, Nodos)
         /\ r = c => Todos(d, max) = Todos(cubetas, max) \ {n}
    <2>1. r \in {c, <<>>}
      OBVIOUS
    <2>2. t = SubSeq(s, 1, Donde(s, n) - 1) \o r
      BY <1>6, <1>9
    <2>3. Desligue(n, i, s, c, r, t, d)
      BY <1>2, <1>3, <1>4, <1>5, <1>10, <2>1, <2>2 DEF Desligue
    <2>4. Desligado(n, i, s, c, r, t, d)
      BY <1>1, <2>3, SacaDesliga
    <2> QED BY <2>4 DEF Desligado
  <1>13. Sana(d, hash, max) /\ Todos(d, max) \subseteq Todos(cubetas, max)
    <2>1. Range(s) \subseteq Todos(cubetas, max)
      BY <1>4, <1>12 DEF Todos
    <2> QED BY <1>4, <1>12, <2>1 DEF Cambiada, Desligada
  <1>14. /\ ocupadas \in Int /\ cantidad \in Int
         /\ saca.vc \subseteq Int /\ saca.vt \subseteq Int
         /\ \A v \in saca.vt : v <= ocupadas
    BY <1>1 DEF TypeOK, SacaBien
  <1>15. PICK u : u = IF t = <<>> THEN -1 ELSE 0
    OBVIOUS
  <1>16. PICK v : v = IF dato[n] = 0 THEN 0 ELSE -1
    OBVIOUS
  <1>17. /\ ocupadas' \in Int /\ cantidad' \in Int
         /\ ocupadas' <= ocupadas
         /\ saca.vt = {} => ocupadas' = ocupadas + u
         /\ saca.vc = {} => cantidad' = cantidad + v
         /\ pon' = Anota(pon, Escrito(cantidad, v), Escrito(ocupadas, u))
    <2>1. u \in {-1, 0} /\ v \in {-1, 0}
      BY <1>15, <1>16
    <2>2. /\ ocupadas' \in Suma(ocupadas, u, saca.vt) /\ cantidad' \in Suma(cantidad, v, saca.vc)
          /\ pon' = Anota(pon, Escrito(cantidad, v), Escrito(ocupadas, u))
      BY <1>7, <1>9, <1>15, <1>16
    <2>3. Dejado(ocupadas', ocupadas, u, saca.vt) /\ Dejado(cantidad', cantidad, v, saca.vc)
      BY <1>14, <2>1, <2>2, SumaDe
    <2> QED BY <1>14, <2>1, <2>2, <2>3 DEF Dejado
  <1>18. TypeOK'
    <2>1. nulos' \in 0..MaxNulos
      <3>1. nulos \in 0..MaxNulos /\ (dato[n] = 0 => nulos < MaxNulos) /\ MaxNulos \in Nat
        BY <1>1, <1>2, DiccionarioAssumption DEF TypeOK, SacaBien
      <3>2. nulos' = nulos \/ (dato[n] = 0 /\ nulos' = nulos + 1)
        BY <1>7
      <3>3. CASE nulos' = nulos
        BY ONLY <3>1, <3>3
      <3>4. CASE dato[n] = 0 /\ nulos' = nulos + 1
        BY ONLY <3>1, <3>4
      <3> QED BY <3>2, <3>3, <3>4
    <2>2. cubetas' \in [0..(max' - 1) -> Seq(Nodos)]
      BY <1>8, <1>11, <1>13 DEF Sana
    <2>3. hash' \in [Nodos -> Claves \cup {0}] /\ dato' \in [Nodos -> Datos \cup {0}]
      BY <1>1, <1>8 DEF TypeOK
    <2> QED BY <1>1, <1>8, <1>17, <2>1, <2>2, <2>3 DEF TypeOK
  <1>19. Tabla'
    <2>1. \A x \in Todos(d, max) : hash'[x] = hash[x]
      BY <1>1, <1>8, <1>12 DEF TypeOK
    <2>2. Sana(d, hash', max)
      BY <1>13, <2>1, OtroHash
    <2> QED BY <1>8, <1>11, <2>2 DEF Tabla
  <1>20. PonBien'
    <2> SUFFICES ASSUME pon' # Nulo PROVE PonBien'
      BY DEF PonBien
    <2>1. PICK C, T : C = Escrito(cantidad, v) /\ T = Escrito(ocupadas, u)
      OBVIOUS
    <2>a. pon # Nulo /\ pon' = [pon EXCEPT !.vc = @ \cup C, !.vt = @ \cup T]
      BY <1>17, <2>1 DEF Anota
    <2>b. C \subseteq {cantidad} /\ T \subseteq {ocupadas}
      BY <2>1 DEF Escrito
    <2>2. /\ pon \in [nodo : Nodos, i : 0..(max - 1), cola : Nodos \cup {Nulo},
                      vc : SUBSET Int, vt : SUBSET Int]
          /\ pon.nodo \notin Enlazados /\ pon.i = hash[pon.nodo] % max
          /\ pon.cola = Nulo => cubetas[pon.i] = <<>>
          /\ \A x \in pon.vt : x >= ocupadas
          /\ max * 2 <= MaxTabla \/ \A x \in pon.vt \cup {ocupadas} : x + 1 < max
      BY <1>1, <2>a DEF PonBien
    <2>3. /\ pon' \in [nodo : Nodos, i : 0..(max - 1), cola : Nodos \cup {Nulo},
                       vc : SUBSET Int, vt : SUBSET Int]
          /\ pon'.nodo = pon.nodo /\ pon'.i = pon.i /\ pon'.cola = pon.cola
          /\ pon'.vt = pon.vt \cup T
      <3>1. PICK q : q = pon
        OBVIOUS
      <3>2. q \in [nodo : Nodos, i : 0..(max - 1), cola : Nodos \cup {Nulo},
                  vc : SUBSET Int, vt : SUBSET Int]
        BY <2>2, <3>1
      <3>3. pon' = [nodo |-> q.nodo, i |-> q.i, cola |-> q.cola,
                    vc |-> q.vc \cup C, vt |-> q.vt \cup T]
        BY <2>a, <3>1, <3>2
      <3> QED BY <1>14, <2>b, <3>1, <3>2, <3>3
    <2>4. pon.nodo \notin Todos(cubetas, max) /\ pon.nodo # n /\ pon.nodo \notin Todos(d, max)
      BY <1>12, <1>13, <2>2 DEF Enlazados, Todos, EnCadena
    <2>5. pon.nodo \notin Enlazados'
      BY <1>8, <1>11, <2>4 DEF Enlazados, Todos, EnCadena
    <2>6. hash'[pon.nodo] = hash[pon.nodo]
      BY <1>1, <1>8, <2>2, <2>4 DEF TypeOK
    <2>7. pon.cola = Nulo => cubetas'[pon.i] = <<>>
      BY <1>1, <1>4, <1>10, <1>11, <1>12, <2>2 DEF Sana
    <2>8. /\ \A x \in pon'.vt : x >= ocupadas'
          /\ max * 2 <= MaxTabla \/ \A x \in pon'.vt \cup {ocupadas'} : x + 1 < max
      <3>1. pon.vt \subseteq Int /\ pon'.vt \subseteq pon.vt \cup {ocupadas} /\ max \in Nat
        BY <1>1, <2>2, <2>3, <2>b
      <3> QED BY <1>14, <1>17, <2>2, <3>1
    <2> QED BY <1>8, <2>2, <2>3, <2>5, <2>6, <2>7, <2>8 DEF PonBien
  <1>21. SacaBien'
    BY <1>8 DEF SacaBien
  <1>22. Solos'
    BY <1>1, <1>8, <1>17 DEF Solos, Anota
  <1>23. Exactas'
    <2> SUFFICES ASSUME cruces = {}
                 PROVE  /\ ocupadas' = Cardinality(Llenas(d, max))
                        /\ Llenas(d, max) # 0..(max - 1)
                        /\ cantidad' = Cardinality(Todos(d, max)) + nulos'
      BY <1>8, <1>11 DEF Exactas, Llenas, Enlazados, Todos, EnCadena
    <2>1. /\ ocupadas = Cardinality(Usadas) /\ Usadas # 0..(max - 1)
          /\ cantidad = Cardinality(Todos(cubetas, max)) + nulos
      BY <1>1, CuentasDe
    <2>2. r = c /\ saca.vc = {} /\ saca.vt = {}
      BY <1>1, <1>2, <1>5 DEF Solos
    <2>3. i \in Usadas /\ Usadas \subseteq 0..(max - 1)
      BY <1>4, <1>12 DEF Usadas, Llenas
    <2>4. Llenas(d, max) = IF t = <<>> THEN Usadas \ {i} ELSE Usadas
      BY <1>12, <2>3 DEF Cambiada, Usadas
    <2>5. Llenas(d, max) # 0..(max - 1)
      BY <2>1, <2>3, <2>4
    <2>6. IsFiniteSet(Usadas) /\ Cardinality(Usadas) \in Nat
      <3>1. IsFiniteSet(0..(max - 1))
        BY <1>1, FS_Interval
      <3> QED BY <2>3, <3>1, FS_Subset, FS_CardinalityType
    <2>7. ocupadas' = Cardinality(Llenas(d, max))
      <3>1. Cardinality(Usadas \ {i}) = Cardinality(Usadas) - 1
        BY <2>3, <2>6, FS_RemoveElement
      <3>2. ocupadas' = ocupadas + u
        BY <1>17, <2>2
      <3> QED BY <1>15, <2>1, <2>4, <2>6, <3>1, <3>2
    <2>8. IsFiniteSet(Todos(cubetas, max))
      BY <1>1, TodosFinito
    <2>9. Cardinality(Todos(d, max)) = Cardinality(Todos(cubetas, max)) - 1
      BY <1>12, <2>2, <2>8, FS_RemoveElement
    <2>10. cantidad' = cantidad + v /\ Cardinality(Todos(cubetas, max)) \in Nat /\ nulos \in Int
      BY <1>1, <1>17, <2>2, <2>8, FS_CardinalityType, DiccionarioAssumption DEF TypeOK
    <2>11. nulos' = IF dato[n] = 0 THEN nulos + 1 ELSE nulos
      BY <1>7
    <2>12. cantidad' = Cardinality(Todos(d, max)) + nulos'
      BY <1>16, <2>1, <2>9, <2>10, <2>11
    <2> QED BY <2>5, <2>7, <2>12
  <1> QED BY <1>18, <1>19, <1>20, <1>21, <1>22, <1>23 DEF Inv

\* What linking the new element does to the table, where its tail still is.
Ligue(n, i, cs) ==
  /\ n = pon.nodo /\ i = pon.i
  /\ cs = IF pon.cola = Nulo THEN [cubetas EXCEPT ![i] = <<n>>]
          ELSE IF pon.cola \in EnCadena(i) THEN [cubetas EXCEPT ![i] = Append(@, n)]
          ELSE cubetas

Ligado(n, i, cs) ==
  /\ i \in 0..(max - 1) /\ n \in Nodos /\ n \notin Todos(cubetas, max) /\ hash[n] % max = i
  /\ Sana(cs, hash, max)
  /\ \A j \in 0..(max - 1) : Range(cubetas[j]) \subseteq Range(cs[j])
  /\ pon.cola = Nulo \/ pon.cola \in EnCadena(i) =>
       Todos(cs, max) = Todos(cubetas, max) \cup {n}
  /\ pon.cola = Nulo =>
       Llenas(cs, max) = Usadas \cup {i} /\ i \notin Usadas /\ Range(cs[i]) = {n}
  /\ pon.cola # Nulo => Llenas(cs, max) = Usadas

LEMMA PonLiga ==
  ASSUME Inv, Definido, pon # Nulo, NEW n, NEW i, NEW cs, Ligue(n, i, cs)
  PROVE  Ligado(n, i, cs)
  <1>1. /\ Sana(cubetas, hash, max)
        /\ i \in 0..(max - 1) /\ n \in Nodos /\ n \notin Todos(cubetas, max)
        /\ i = hash[n] % max
        /\ pon.cola = Nulo => cubetas[i] = <<>>
    BY DEF Inv, Tabla, PonBien, Ligue, Enlazados, Todos, EnCadena
  <1>2. PICK s : s = cubetas[i]
    OBVIOUS
  <1>3. /\ s \in Seq(Nodos) /\ IsInjective(s) /\ \A x \in Range(s) : hash[x] % max = i
        /\ Range(s) \subseteq Todos(cubetas, max) /\ n \notin Range(s)
    BY <1>1, <1>2 DEF Sana, Todos
  <1>4. CASE pon.cola = Nulo
    <2>1. PICK t : t = <<n>>
      OBVIOUS
    <2>2. t \in Seq(Nodos) /\ t # <<>> /\ Range(t) = {n} /\ IsInjective(t)
      BY <1>1, <2>1 DEF Range, IsInjective
    <2>3. cs = [cubetas EXCEPT ![i] = t]
      BY <1>4, <2>1 DEF Ligue
    <2>4. Cambiada(cs, cubetas, hash, max, i, t)
      BY <1>1, <2>2, <2>3, Cambia
    <2>5. s = <<>> /\ Range(s) = {}
      BY <1>1, <1>2, <1>3, <1>4, Vacia
    <2>6. Sana(cs, hash, max) /\ Todos(cs, max) = Todos(cubetas, max) \cup {n}
      BY <1>2, <2>2, <2>4, <2>5 DEF Cambiada
    <2>7. Llenas(cs, max) = Usadas \cup {i} /\ i \notin Usadas
      BY <1>2, <2>2, <2>4, <2>5 DEF Cambiada, Usadas, Llenas
    <2>8. Range(cs[i]) = {n} /\ \A j \in 0..(max - 1) : j # i => cs[j] = cubetas[j]
      BY <1>1, <2>2, <2>3 DEF Sana
    <2>9. \A j \in 0..(max - 1) : Range(cubetas[j]) \subseteq Range(cs[j])
      BY <1>2, <2>5, <2>8
    <2> QED BY <1>1, <1>4, <2>6, <2>7, <2>8, <2>9 DEF Ligado
  <1>5. CASE pon.cola # Nulo /\ pon.cola \in EnCadena(i)
    <2>1. PICK t : t = Append(s, n)
      OBVIOUS
    <2>2. Agregado(t, s, n, Nodos)
      BY <1>1, <1>3, <2>1, AgregaRango
    <2>3. t \in Seq(Nodos) /\ Range(t) = Range(s) \cup {n} /\ IsInjective(t)
      BY <1>3, <2>2 DEF Agregado
    <2>4. cs = [cubetas EXCEPT ![i] = t]
      BY <1>1, <1>2, <1>5, <2>1 DEF Ligue, Sana
    <2>5. Cambiada(cs, cubetas, hash, max, i, t)
      BY <1>1, <1>3, <2>3, <2>4, Cambia
    <2>6. t # <<>> /\ s # <<>>
      BY <1>2, <1>3, <1>5, <2>3, Vacia DEF EnCadena
    <2>7. Sana(cs, hash, max) /\ Todos(cs, max) = Todos(cubetas, max) \cup {n}
      <3>1. /\ Sana(cs, hash, max)
            /\ Todos(cs, max) = (Todos(cubetas, max) \ Range(s)) \cup Range(t)
        BY <1>2, <2>5 DEF Cambiada
      <3> QED BY <1>3, <2>3, <3>1
    <2>8. Llenas(cs, max) = Usadas
      BY <1>1, <1>2, <2>5, <2>6 DEF Cambiada, Usadas, Llenas
    <2>9. cs[i] = t /\ \A j \in 0..(max - 1) : j # i => cs[j] = cubetas[j]
      BY <1>1, <2>3, <2>4 DEF Sana
    <2>10. \A j \in 0..(max - 1) : Range(cubetas[j]) \subseteq Range(cs[j])
      BY <1>2, <2>3, <2>9
    <2> QED BY <1>1, <1>5, <2>7, <2>8, <2>10 DEF Ligado
  <1>6. CASE pon.cola # Nulo /\ pon.cola \notin EnCadena(i)
    <2>1. cs = cubetas
      BY <1>6 DEF Ligue
    <2> QED BY <1>1, <1>6, <2>1 DEF Ligado, Usadas
  <1> QED BY <1>4, <1>5, <1>6

\* The step of the put that does not make the table grow ...
Sigue(cs, dt, t, c) ==
  /\ max' = max /\ cubetas' = cs /\ ocupadas' = t /\ cantidad' = c /\ cruces' = cruces
  /\ saca' = Anota(saca, Escrito(cantidad, 1), Escrito(ocupadas, dt)) /\ pon' = Nulo
  /\ hash' = hash /\ dato' = dato /\ nulos' = nulos /\ encuentros' = encuentros

\* ... and the one that does.
Agranda(cs, dt, c) ==
  /\ max' = max * 2 /\ cubetas' = Mudanza(cs, max, max * 2) /\ ocupadas' = Ocupadas(cubetas')
  /\ cantidad' = c /\ cruces' = cruces \cup (IF saca = Nulo THEN {} ELSE {"mudanza"})
  /\ saca' = Anota(saca, Escrito(cantidad, 1), Escrito(ocupadas, dt)) /\ pon' = Nulo
  /\ hash' = hash /\ dato' = dato /\ nulos' = nulos /\ encuentros' = encuentros

\* dt, t and c are what the put adds to table_current_size and both counters.
Contado(dt, t, c) ==
  /\ dt = IF pon.cola = Nulo THEN 1 ELSE 0
  /\ t \in Suma(ocupadas, dt, pon.vt) /\ c \in Suma(cantidad, 1, pon.vc)
  /\ t \in Int /\ t >= ocupadas /\ c \in Int
  /\ max * 2 <= MaxTabla \/ ~(dt = 1 /\ t >= max)
  /\ cruces = {} => t = ocupadas + dt /\ c = cantidad + 1

LEMMA PonPasos ==
  ASSUME Inv, PonEscribe
  PROVE  \E n, i, cs, dt, t, c :
           /\ Definido /\ pon # Nulo /\ Ligue(n, i, cs) /\ Contado(dt, t, c)
           /\ IF dt = 1 /\ t >= max THEN Agranda(cs, dt, c) ELSE Sigue(cs, dt, t, c)
  <1>1. TypeOK /\ Solos /\ Definido /\ PonBien /\ pon # Nulo /\ max \in Nat \ {0}
    BY MaxNatural DEF Inv, PonEscribe
  <1>2. PICK n, i, cs : Ligue(n, i, cs)
    BY DEF Ligue
  <1>3. PICK dt \in {0, 1} : dt = IF pon.cola = Nulo THEN 1 ELSE 0
    OBVIOUS
  <1>4. PICK t \in Suma(ocupadas, dt, pon.vt), c \in Suma(cantidad, 1, pon.vc) :
          IF dt = 1 /\ t >= max THEN Agranda(cs, dt, c) ELSE Sigue(cs, dt, t, c)
    <2>1. cs = IF pon.cola = Nulo
                 THEN [cubetas EXCEPT ![pon.i] = <<pon.nodo>>]
               ELSE IF pon.cola \in EnCadena(pon.i)
                 THEN [cubetas EXCEPT ![pon.i] = Append(@, pon.nodo)]
               ELSE cubetas
      BY <1>2 DEF Ligue
    <2>2. \E t \in Suma(ocupadas, dt, pon.vt), c \in Suma(cantidad, 1, pon.vc) :
            /\ cantidad' = c
            /\ IF dt = 1 /\ t >= max
                 THEN /\ max' = max * 2
                      /\ cubetas' = Mudanza(cs, max, max * 2)
                      /\ ocupadas' = Ocupadas(cubetas')
                      /\ cruces' = cruces \cup (IF saca = Nulo THEN {} ELSE {"mudanza"})
                 ELSE /\ ocupadas' = t /\ cubetas' = cs
                      /\ UNCHANGED <<max, cruces>>
            /\ saca' = Anota(saca, Escrito(cantidad, 1), Escrito(ocupadas, dt))
      BY <2>1, <1>3 DEF PonEscribe
    <2>3. pon' = Nulo /\ UNCHANGED <<hash, dato, nulos, encuentros>>
      BY DEF PonEscribe, nodos
    <2> QED BY <2>2, <2>3 DEF Agranda, Sigue
  <1>5. /\ ocupadas \in Int /\ cantidad \in Int
        /\ pon.vc \subseteq Int /\ pon.vt \subseteq Int
        /\ \A v \in pon.vt : v >= ocupadas
        /\ max * 2 <= MaxTabla \/ \A v \in pon.vt \cup {ocupadas} : v + 1 < max
    BY <1>1 DEF TypeOK, PonBien
  <1>6. /\ t \in Int /\ t >= ocupadas /\ (pon.vt = {} => t = ocupadas + dt)
        /\ dt = 1 => \E v \in pon.vt \cup {ocupadas} : t = v \/ t = v + 1
    <2>1. PICK x \in Int, vs \in SUBSET Int : x = ocupadas /\ vs = pon.vt
      BY <1>5
    <2>2. dt \in {-1, 0, 1} /\ t \in Suma(x, dt, vs) /\ dt >= 0
      BY <2>1
    <2>3. Dejado(t, x, dt, vs)
      BY ONLY <2>2, SumaDe, x \in Int, vs \in SUBSET Int
    <2>4. x = ocupadas /\ vs = pon.vt /\ dt >= 0 /\ \A v \in vs : v >= x
      BY <1>5, <2>1, <2>2
    <2> QED BY ONLY <2>3, <2>4 DEF Dejado
  <1>7. c \in Int /\ (pon.vc = {} => c = cantidad + 1)
    <2>1. Dejado(c, cantidad, 1, pon.vc)
      BY <1>5, SumaDe
    <2> QED BY <2>1 DEF Dejado
  <1>8. max * 2 <= MaxTabla \/ ~(dt = 1 /\ t >= max)
    BY <1>1, <1>5, <1>6
  <1>9. cruces = {} => t = ocupadas + dt /\ c = cantidad + 1
    BY <1>1, <1>6, <1>7 DEF Solos
  <1>10. Contado(dt, t, c)
    BY <1>3, <1>4, <1>6, <1>7, <1>8, <1>9 DEF Contado
  <1> QED BY <1>1, <1>2, <1>4, <1>10

LEMMA PasoSigue ==
  ASSUME Inv, Definido, pon # Nulo, NEW n, NEW i, NEW cs, Ligue(n, i, cs),
         NEW dt, NEW t, NEW c, Contado(dt, t, c), ~(dt = 1 /\ t >= max), Sigue(cs, dt, t, c)
  PROVE  Inv'
  <1>1. /\ TypeOK /\ Solos /\ Exactas /\ SacaBien
        /\ max \in Nat \ {0} /\ ocupadas \in Int
    BY MaxNatural DEF Inv, TypeOK
  <1>2. Ligado(n, i, cs)
    BY PonLiga
  <1>3. /\ dt = IF pon.cola = Nulo THEN 1 ELSE 0
        /\ t \in Int /\ t >= ocupadas /\ c \in Int
        /\ cruces = {} => t = ocupadas + dt /\ c = cantidad + 1
    BY DEF Contado
  <1>4. /\ max' = max /\ cubetas' = cs /\ ocupadas' = t /\ cantidad' = c /\ cruces' = cruces
        /\ saca' = Anota(saca, Escrito(cantidad, 1), Escrito(ocupadas, dt)) /\ pon' = Nulo
        /\ hash' = hash /\ dato' = dato /\ nulos' = nulos /\ encuentros' = encuentros
    BY DEF Sigue
  <1>5. TypeOK'
    <2>1. cubetas' \in [0..(max' - 1) -> Seq(Nodos)]
      BY <1>2, <1>4 DEF Ligado, Sana
    <2> QED BY <1>1, <1>3, <1>4, <2>1 DEF TypeOK
  <1>6. Tabla'
    BY <1>2, <1>4 DEF Tabla, Ligado
  <1>7. PonBien'
    BY <1>4 DEF PonBien
  <1>8. SacaBien'
    <2> SUFFICES ASSUME saca' # Nulo PROVE SacaBien'
      BY DEF SacaBien
    <2>0. PICK C, T : C = Escrito(cantidad, 1) /\ T = Escrito(ocupadas, dt)
      OBVIOUS
    <2>1. saca # Nulo /\ saca' = [saca EXCEPT !.vc = @ \cup C, !.vt = @ \cup T]
      BY <1>4, <2>0 DEF Anota
    <2>a. C \subseteq Int /\ T \subseteq {ocupadas}
      BY <1>1, <2>0 DEF Escrito, TypeOK
    <2>2. PICK q : q = saca
      OBVIOUS
    <2>3. /\ q \in [nodo : Nodos, i : 0..(max - 1), ultimo : BOOLEAN,
                    vc : SUBSET Int, vt : SUBSET Int]
          /\ q.nodo \in EnCadena(q.i) /\ \A v \in q.vt : v <= ocupadas
          /\ dato[q.nodo] = 0 => nulos < MaxNulos
      BY <1>1, <2>1, <2>2 DEF SacaBien
    <2>4. saca' = [nodo |-> q.nodo, i |-> q.i, ultimo |-> q.ultimo,
                   vc |-> q.vc \cup C, vt |-> q.vt \cup T]
      BY <2>1, <2>2, <2>3
    <2>5. /\ saca' \in [nodo : Nodos, i : 0..(max - 1), ultimo : BOOLEAN,
                        vc : SUBSET Int, vt : SUBSET Int]
          /\ saca'.nodo = q.nodo /\ saca'.i = q.i
          /\ \A v \in saca'.vt : v <= t
      <3>1. q.vc \cup C \in SUBSET Int /\ q.vt \cup T \in SUBSET Int
        BY <1>1, <2>3, <2>a
      <3>2. \A v \in q.vt \cup T : v <= ocupadas
        BY <1>1, <2>3, <2>a
      <3>3. \A v \in q.vt \cup T : v <= t
        BY <1>1, <1>3, <3>1, <3>2
      <3> QED BY <2>3, <2>4, <3>1, <3>3
    <2>6. q.nodo \in Range(cs[q.i])
      BY <1>2, <2>3 DEF Ligado, EnCadena
    <2> QED BY <1>4, <2>3, <2>5, <2>6 DEF SacaBien, EnCadena
  <1>9. Solos'
    BY <1>1, <1>4 DEF Solos, Anota
  <1>10. Exactas'
    <2> SUFFICES ASSUME cruces = {}
                 PROVE  /\ t = Cardinality(Llenas(cs, max)) /\ Llenas(cs, max) # 0..(max - 1)
                        /\ c = Cardinality(Todos(cs, max)) + nulos
      BY <1>4 DEF Exactas, Llenas, Enlazados, Todos, EnCadena
    <2>1. /\ ocupadas = Cardinality(Usadas) /\ Usadas # 0..(max - 1)
          /\ cantidad = Cardinality(Todos(cubetas, max)) + nulos
      BY <1>1, CuentasDe
    <2>2. t = ocupadas + dt /\ c = cantidad + 1
      BY <1>3
    <2>3. Todos(cs, max) = Todos(cubetas, max) \cup {n} /\ n \notin Todos(cubetas, max)
      <3>1. pon.cola = Nulo \/ pon.cola \in EnCadena(i)
        BY <1>1 DEF Solos, Ligue
      <3> QED BY <1>2, <3>1 DEF Ligado
    <2>4. IsFiniteSet(Usadas) /\ Cardinality(Usadas) \in Nat
      <3>1. IsFiniteSet(0..(max - 1)) /\ Usadas \subseteq 0..(max - 1)
        BY <1>1, FS_Interval DEF Usadas, Llenas
      <3> QED BY <3>1, FS_Subset, FS_CardinalityType
    <2>5. t = Cardinality(Llenas(cs, max)) /\ Llenas(cs, max) # 0..(max - 1)
      <3>1. CASE pon.cola = Nulo
        <4>1. Llenas(cs, max) = Usadas \cup {i} /\ i \notin Usadas
          BY <1>2, <3>1 DEF Ligado
        <4>2. Cardinality(Usadas \cup {i}) = Cardinality(Usadas) + 1
          BY <2>4, <4>1, FS_AddElement
        <4>3. t = Cardinality(Llenas(cs, max)) /\ t < max
          BY <1>1, <1>3, <2>1, <2>2, <3>1, <4>1, <4>2
        <4>4. Cardinality(0..(max - 1)) = max
          BY <1>1, FS_Interval
        <4> QED BY <1>1, <1>3, <4>3, <4>4
      <3>2. CASE pon.cola # Nulo
        <4>1. Llenas(cs, max) = Usadas
          BY <1>2, <3>2 DEF Ligado
        <4> QED BY <1>1, <1>3, <2>1, <2>2, <3>2, <4>1
      <3> QED BY <3>1, <3>2
    <2>6. c = Cardinality(Todos(cs, max)) + nulos
      <3>1. IsFiniteSet(Todos(cubetas, max)) /\ Cardinality(Todos(cubetas, max)) \in Nat
        BY TodosFinito, FS_CardinalityType DEF Inv, Tabla
      <3>2. Cardinality(Todos(cs, max)) = Cardinality(Todos(cubetas, max)) + 1
        BY <2>3, <3>1, FS_AddElement
      <3>3. nulos \in Int
        BY <1>1, DiccionarioAssumption DEF TypeOK
      <3> QED BY <2>1, <2>2, <3>1, <3>2, <3>3
    <2> QED BY <2>5, <2>6
  <1> QED BY <1>5, <1>6, <1>7, <1>8, <1>9, <1>10 DEF Inv

\* A growth loses nothing.
LEMMA MudaTodos ==
  ASSUME TypeOK, NEW cs, Sana(cs, hash, max), NEW d, d = Mudanza(cs, max, max * 2)
  PROVE  Sana(d, hash, max * 2) /\ Todos(d, max * 2) = Todos(cs, max)
  <1>1. max \in Nat \ {0}
    BY MaxNatural
  <1>2. PICK m \in Nat \ {0} : m = max * 2
    BY <1>1
  <1>3. /\ Sana(d, hash, m)
        /\ \A j \in 0..(m - 1) : Range(d[j]) = {x \in Todos(cs, max) : hash[x] % m = j}
    BY <1>1, <1>2, Crece
  <1>4. Todos(d, m) \subseteq Todos(cs, max)
    BY <1>3 DEF Todos
  <1>5. ASSUME NEW x \in Todos(cs, max) PROVE x \in Todos(d, m)
    <2>1. x \in Nodos
      BY TodosFinito
    <2>2. hash[x] \in Nat
      BY <2>1, HashNatural
    <2>3. hash[x] % m \in 0..(m - 1)
      BY <2>2
    <2> QED BY <1>3, <2>3 DEF Todos
  <1> QED BY <1>2, <1>3, <1>4, <1>5

\* The table grows: every bucket but one was in use, the last one now has one
\* element, so that of the two it divides into one is empty.
LEMMA PasoAgranda ==
  ASSUME Inv, Definido, pon # Nulo, NEW n, NEW i, NEW cs, Ligue(n, i, cs),
         NEW dt, NEW t, NEW c, Contado(dt, t, c), dt = 1 /\ t >= max, Agranda(cs, dt, c)
  PROVE  Inv'
  <1>1. /\ TypeOK /\ Solos /\ Exactas
        /\ max \in Nat \ {0} /\ ocupadas \in Int
    BY MaxNatural DEF Inv, TypeOK
  <1>2. Ligado(n, i, cs)
    BY PonLiga
  <1>3. /\ pon.cola = Nulo /\ c \in Int /\ max * 2 <= MaxTabla
        /\ cruces = {} => t = ocupadas + 1 /\ c = cantidad + 1
    BY DEF Contado
  <1>4. PICK d : d = Mudanza(cs, max, max * 2)
    OBVIOUS
  <1>5. /\ max' = max * 2 /\ cubetas' = d /\ ocupadas' = Ocupadas(d)
        /\ cantidad' = c /\ cruces' = cruces \cup (IF saca = Nulo THEN {} ELSE {"mudanza"})
        /\ saca' = Anota(saca, Escrito(cantidad, 1), Escrito(ocupadas, dt)) /\ pon' = Nulo
        /\ hash' = hash /\ dato' = dato /\ nulos' = nulos /\ encuentros' = encuentros
    BY <1>4 DEF Agranda
  <1>6. PICK m \in Nat \ {0} : m = max * 2
    BY <1>1
  <1>7. /\ Sana(d, hash, m)
        /\ \A j \in 0..(m - 1) : Range(d[j]) = {x \in Todos(cs, max) : hash[x] % m = j}
    <2>1. Sana(cs, hash, max)
      BY <1>2 DEF Ligado
    <2>2. /\ Sana(d, hash, max * 2)
          /\ \A j \in 0..(max * 2 - 1) : Range(d[j]) = {x \in Todos(cs, max) : hash[x] % (max * 2) = j}
      BY <1>1, <1>4, <2>1, Crece
    <2> QED BY <1>6, <2>2
  <1>8. ocupadas' = Cardinality(Llenas(d, m)) /\ IsFiniteSet(Llenas(d, m))
    <2>1. DOMAIN d = 0..(m - 1)
      BY <1>7 DEF Sana
    <2>2. Ocupadas(d) = Cardinality(Llenas(d, m))
      BY <2>1 DEF Ocupadas, Llenas
    <2>3. IsFiniteSet(0..(m - 1))
      <3>1. m - 1 \in Int
        OBVIOUS
      <3> QED BY <3>1, FS_Interval
    <2>4. Llenas(d, m) \subseteq 0..(m - 1)
      BY DEF Llenas
    <2> QED BY <1>5, <2>2, <2>3, <2>4, FS_Subset
  <1>9. TypeOK'
    <2>1. max' <= MaxTabla /\ \E k \in 0..MaxTabla : max' = Tamanio(k)
      <3>1. PICK k \in 0..MaxTabla : max = Tamanio(k)
        BY <1>1 DEF TypeOK
      <3>2. k \in Nat /\ MaxTabla \in Nat
        BY DiccionarioAssumption
      <3>3. max > k /\ Tamanio(k + 1) = 2 * max
        BY <3>1, <3>2, TamanioDobla
      <3>4. max' = Tamanio(k + 1) /\ max' <= MaxTabla
        BY <1>1, <1>3, <1>5, <3>3
      <3>5. k + 1 \in 0..MaxTabla
        BY <1>1, <1>3, <3>2, <3>3
      <3> QED BY <3>4, <3>5
    <2>2. ocupadas' \in Int
      BY <1>8, FS_CardinalityType
    <2>3. cubetas' \in [0..(max' - 1) -> Seq(Nodos)]
      BY <1>5, <1>6, <1>7 DEF Sana
    <2>4. cruces' \subseteq {"contador", "cadena", "mudanza"}
      BY <1>1, <1>5 DEF TypeOK
    <2> QED BY <1>1, <1>3, <1>5, <2>1, <2>2, <2>3, <2>4 DEF TypeOK
  <1>10. Tabla'
    BY <1>5, <1>6, <1>7 DEF Tabla
  <1>11. Definido' => PonBien' /\ SacaBien'
    <2>1. Definido' => saca = Nulo
      BY <1>5 DEF Definido
    <2> QED BY <1>5, <2>1 DEF PonBien, SacaBien, Anota
  <1>12. Solos'
    BY <1>1, <1>5 DEF Solos, Anota
  <1>13. Exactas'
    <2> SUFFICES ASSUME cruces = {}
                 PROVE  /\ ocupadas' = Cardinality(Llenas(d, m)) /\ Llenas(d, m) # 0..(m - 1)
                        /\ c = Cardinality(Todos(d, m)) + nulos
      BY <1>5, <1>6 DEF Exactas, Llenas, Enlazados, Todos, EnCadena
    <2>1. cantidad = Cardinality(Todos(cubetas, max)) + nulos /\ c = cantidad + 1
      BY <1>1, <1>3, CuentasDe
    <2>2. Todos(cs, max) = Todos(cubetas, max) \cup {n} /\ n \notin Todos(cubetas, max)
      BY <1>2, <1>3 DEF Ligado
    <2>3. Todos(d, m) = Todos(cs, max)
      BY <1>1, <1>2, <1>4, <1>6, MudaTodos DEF Ligado
    <2>4. c = Cardinality(Todos(d, m)) + nulos
      <3>1. IsFiniteSet(Todos(cubetas, max)) /\ Cardinality(Todos(cubetas, max)) \in Nat
        BY TodosFinito, FS_CardinalityType DEF Inv, Tabla
      <3>2. Cardinality(Todos(d, m)) = Cardinality(Todos(cubetas, max)) + 1
        BY <2>2, <2>3, <3>1, FS_AddElement
      <3>3. nulos \in Int
        BY <1>1, DiccionarioAssumption DEF TypeOK
      <3> QED BY <2>1, <3>1, <3>2, <3>3
    <2>5. Llenas(d, m) # 0..(m - 1)
      <3>1. i \in 0..(max - 1) /\ Range(cs[i]) = {n} /\ Sana(cs, hash, max)
        BY <1>2, <1>3 DEF Ligado
      <3>2. i \in 0..(m - 1) /\ i + max \in 0..(m - 1) /\ i # i + max
        BY <1>1, <1>6, <3>1
      <3>3. ASSUME NEW j \in {i, i + max}, d[j] # <<>> PROVE hash[n] % m = j
        <4>1. d[j] \in Seq(Nodos) /\ j \in 0..(m - 1)
          BY <1>7, <3>2 DEF Sana
        <4>2. PICK x \in Range(d[j]) : TRUE
          BY <3>3, <4>1, Vacia
        <4>3. x \in Todos(cs, max) /\ hash[x] % m = j
          BY <1>7, <4>1, <4>2
        <4>4. x \in Nodos
          BY <4>3, <3>1, TodosFinito
        <4>5. hash[x] \in Nat
          BY <1>1, <4>4, HashNatural
        <4>6. PICK h \in Nat : h = hash[x]
          BY <4>5
        <4>7. h % (2 * max) = h % max \/ h % (2 * max) = (h % max) + max
          BY <1>1, RestoDoble
        <4>8. h % max \in 0..(max - 1) /\ 2 * max = m
          BY <1>1, <1>6
        <4>9. h % max = i
          <5>0. PICK r, q : r = h % max /\ q = h % m
            OBVIOUS
          <5>1. PICK k \in Nat \ {0} : k = max
            BY <1>1
          <5>2. /\ r \in 0..(k - 1) /\ i \in 0..(k - 1) /\ (q = r \/ q = r + k)
                /\ (q = i \/ q = i + k)
            BY <3>1, <4>3, <4>6, <4>7, <4>8, <5>0, <5>1
          <5>3. r = i
            BY ONLY <5>2, k \in Nat \ {0}
          <5> QED BY <5>0, <5>3
        <4>10. x \in Range(cs[i])
          <5>1. PICK l \in 0..(max - 1) : x \in Range(cs[l])
            BY <4>3 DEF Todos
          <5>2. h % max = l
            BY <3>1, <4>6, <5>1 DEF Sana
          <5> QED BY <4>9, <5>1, <5>2
        <4> QED BY <3>1, <4>3, <4>10
      <3>4. d[i] = <<>> \/ d[i + max] = <<>>
        BY <3>2, <3>3
      <3> QED BY <3>2, <3>4 DEF Llenas
    <2> QED BY <1>8, <2>4, <2>5
  <1> QED BY <1>9, <1>10, <1>11, <1>12, <1>13 DEF Inv

LEMMA PasoPonEscribe ==
  ASSUME Inv, PonEscribe
  PROVE  Inv'
  BY PonPasos, PasoSigue, PasoAgranda

LEMMA PasoNada ==
  ASSUME Inv, UNCHANGED vars
  PROVE  Inv'
  <1>1. /\ max' = max /\ ocupadas' = ocupadas /\ cantidad' = cantidad /\ cubetas' = cubetas
        /\ hash' = hash /\ dato' = dato /\ pon' = pon /\ saca' = saca /\ nulos' = nulos
        /\ encuentros' = encuentros /\ cruces' = cruces
    BY DEF vars, nodos
  <1>2. TypeOK' /\ Tabla' /\ Exactas'
    BY <1>1 DEF Inv, TypeOK, Tabla, Exactas, Enlazados, EnCadena
  <1>3. Definido' => PonBien' /\ SacaBien'
    BY <1>1 DEF Inv, Definido, PonBien, SacaBien, Enlazados, EnCadena
  <1>4. Solos'
    <2>1. Resto(saca.nodo)' = Resto(saca.nodo)
      BY <1>1 DEF Resto
    <2> QED BY <1>1, <2>1 DEF Inv, Solos, EnCadena
  <1> QED BY <1>2, <1>3, <1>4 DEF Inv

-----------------------------------------------------------------------------
(* The theorems.                                                             *)

\* Inv is an invariant of dictionary.c under the two threads.
THEOREM Invariante == Spec => []Inv
  <1>1. ASSUME Inv, [Next]_vars PROVE Inv'
    <2>1. ASSUME NEW h \in Claves, NEW d \in Datos, PonBusca(h, d) PROVE Inv'
      BY <1>1, <2>1, PasoPonBusca
    <2>2. ASSUME NEW h \in Claves, SacaBusca(h) PROVE Inv'
      BY <1>1, <2>2, PasoSacaBusca
    <2>3. CASE PonEscribe
      BY <1>1, <2>3, PasoPonEscribe
    <2>4. CASE SacaEscribe
      BY <1>1, <2>4, PasoSacaEscribe
    <2>5. CASE Limpia
      BY <1>1, <2>5, PasoLimpia
    <2>6. CASE UNCHANGED vars
      BY <1>1, <2>6, PasoNada
    <2> QED BY <1>1, <2>1, <2>2, <2>3, <2>4, <2>5, <2>6 DEF Next
  <1> QED BY <1>1, InicioInv, PTL DEF Spec

\* Whatever the two threads do, and however often the table grows, every
\* element is linked once and in the bucket where dictionary_get looks for it.
THEOREM CubetaCorrecta == Spec => []CadaUnoEnSuCubeta
  BY Invariante, InvDaCubeta, PTL

-----------------------------------------------------------------------------
(* The elements of a chain with one key, in their order.                     *)

\* Filtra, from the end of the chain.
LEMMA FiltraVacio ==
  ASSUME NEW ns
  PROVE  Filtra(<<>>, ns) = <<>>
  <1>1. <<>> \in Seq(Nodos) /\ Len(<<>>) = 0
    OBVIOUS
  <1>2. PICK f : Porciones(f, <<>>, ns) /\ Filtra(<<>>, ns) = f[0]
    BY <1>1, FiltraPorciones
  <1> QED BY <1>2 DEF Porciones

LEMMA FiltraAgrega ==
  ASSUME NEW S, NEW s \in Seq(S), NEW e \in S, NEW ns
  PROVE  Filtra(Append(s, e), ns) = IF e \in ns THEN Append(Filtra(s, ns), e) ELSE Filtra(s, ns)
  <1>1. PICK t : t = Append(s, e)
    OBVIOUS
  <1>2. PICK n \in Nat : n = Len(s)
    OBVIOUS
  <1>3. t \in Seq(S) /\ Len(t) = n + 1 /\ t[n + 1] = e /\ \A k \in 1..n : t[k] = s[k]
    BY <1>1, <1>2
  <1>4. PICK f : Porciones(f, s, ns) /\ Filtra(s, ns) = f[n]
    BY <1>2, FiltraPorciones
  <1>5. PICK g : Porciones(g, t, ns) /\ Filtra(t, ns) = g[n + 1]
    BY <1>3, FiltraPorciones
  <1>6. /\ f[0] = <<>> /\ g[0] = <<>>
        /\ \A k \in 1..n : f[k] = IF s[k] \in ns THEN Append(f[k - 1], s[k]) ELSE f[k - 1]
        /\ \A k \in 1..(n + 1) : g[k] = IF t[k] \in ns THEN Append(g[k - 1], t[k]) ELSE g[k - 1]
    BY <1>2, <1>3, <1>4, <1>5 DEF Porciones
  <1> DEFINE T == {k \in Nat : k <= n => f[k] = g[k]}
  <1>7. 0 \in T
    BY <1>6
  <1>8. ASSUME NEW k \in Nat, k \in T PROVE k + 1 \in T
    <2> SUFFICES ASSUME k + 1 <= n PROVE f[k + 1] = g[k + 1]
      OBVIOUS
    <2>1. /\ k + 1 \in 1..n /\ k + 1 \in 1..(n + 1) /\ (k + 1) - 1 = k /\ f[k] = g[k]
      BY <1>8
    <2>2. t[k + 1] = s[k + 1]
      BY <1>3, <2>1
    <2> QED BY <1>6, <2>1, <2>2
  <1>9. n \in T
    <2> HIDE DEF T
    <2> QED BY <1>7, <1>8, Induccion
  <1>10. f[n] = g[n] /\ n + 1 \in 1..(n + 1) /\ (n + 1) - 1 = n
    BY <1>9
  <1>11. g[n + 1] = IF e \in ns THEN Append(g[n], e) ELSE g[n]
    BY <1>3, <1>6, <1>10
  <1> QED BY <1>1, <1>4, <1>5, <1>10, <1>11

LEMMA UneAgrega ==
  ASSUME NEW S, NEW x \in Seq(S), NEW y \in Seq(S), NEW e \in S
  PROVE  x \o Append(y, e) = Append(x \o y, e)
  OBVIOUS

\* Of two chains, one after the other.
LEMMA FiltraUne ==
  ASSUME NEW S, NEW a \in Seq(S), NEW b \in Seq(S), NEW ns
  PROVE  Filtra(a \o b, ns) = Filtra(a, ns) \o Filtra(b, ns)
  <1> DEFINE Q == {s \in Seq(S) : Filtra(a \o s, ns) = Filtra(a, ns) \o Filtra(s, ns)}
  <1>0. \A s \in Seq(S) : Filtra(s, ns) \in Seq(S)
    BY FiltraRango DEF Filtrada
  <1>1. <<>> \in Q
    <2>1. <<>> \in Seq(S) /\ a \o <<>> = a
      BY ConcatEmptySeq
    <2>2. Filtra(<<>>, ns) = <<>>
      BY FiltraVacio
    <2>3. Filtra(a, ns) \o <<>> = Filtra(a, ns)
      BY <1>0, ConcatEmptySeq
    <2> QED BY <2>1, <2>2, <2>3
  <1>2. ASSUME NEW s \in Seq(S), NEW e \in S, s \in Q PROVE Append(s, e) \in Q
    <2>1. PICK u : u = a \o s
      OBVIOUS
    <2>2. u \in Seq(S) /\ Append(s, e) \in Seq(S) /\ a \o Append(s, e) = Append(u, e)
      BY <2>1, UneAgrega
    <2>3. PICK x, y, z : x = Filtra(a, ns) /\ y = Filtra(s, ns) /\ z = Filtra(u, ns)
      OBVIOUS
    <2>4. x \in Seq(S) /\ y \in Seq(S) /\ z = x \o y
      BY <1>0, <1>2, <2>1, <2>3
    <2>5. /\ Filtra(Append(s, e), ns) = IF e \in ns THEN Append(y, e) ELSE y
          /\ Filtra(Append(u, e), ns) = IF e \in ns THEN Append(z, e) ELSE z
      BY <2>2, <2>3, FiltraAgrega
    <2>6. Append(z, e) = x \o Append(y, e)
      <3>1. x \in Seq(S) /\ y \in Seq(S)
        BY <2>4
      <3>2. x \o Append(y, e) = Append(x \o y, e)
        BY ONLY <3>1, e \in S, UneAgrega
      <3> QED BY <2>4, <3>2
    <2>7. Filtra(a \o Append(s, e), ns) = x \o Filtra(Append(s, e), ns)
      BY <2>2, <2>4, <2>5, <2>6
    <2> QED BY <2>2, <2>3, <2>7
  <1>3. \A s \in Seq(S) : s \in Q
    <2> HIDE DEF Q
    <2> QED BY <1>1, <1>2, InduccionSecuencias
  <1> QED BY <1>3

\* Twice.
LEMMA FiltraDos ==
  ASSUME NEW S, NEW s \in Seq(S), NEW ns, NEW ms, ms \subseteq ns
  PROVE  Filtra(Filtra(s, ns), ms) = Filtra(s, ms)
  <1> DEFINE Q == {t \in Seq(S) : Filtra(Filtra(t, ns), ms) = Filtra(t, ms)}
  <1>1. <<>> \in Q
    <2>1. <<>> \in Seq(S)
      OBVIOUS
    <2> QED BY <2>1, FiltraVacio
  <1>2. ASSUME NEW t \in Seq(S), NEW e \in S, t \in Q PROVE Append(t, e) \in Q
    <2>1. PICK x : x = Filtra(t, ns)
      OBVIOUS
    <2>a. Filtrada(Filtra(t, ns), t, ns, S)
      BY ONLY t \in Seq(S), FiltraRango
    <2>b. x \in Seq(S)
      BY <2>1, <2>a DEF Filtrada
    <2>2. Filtra(x, ms) = Filtra(t, ms)
      BY <1>2, <2>1
    <2>c. Filtra(Append(t, e), ns) = IF e \in ns THEN Append(Filtra(t, ns), e) ELSE Filtra(t, ns)
      BY ONLY t \in Seq(S), e \in S, FiltraAgrega
    <2>3. Filtra(Append(t, e), ns) = IF e \in ns THEN Append(x, e) ELSE x
      BY <2>1, <2>c
    <2>4. Filtra(Append(t, e), ms) = IF e \in ms THEN Append(Filtra(t, ms), e) ELSE Filtra(t, ms)
      BY ONLY t \in Seq(S), e \in S, FiltraAgrega
    <2>5. Filtra(Append(x, e), ms) = IF e \in ms THEN Append(Filtra(x, ms), e) ELSE Filtra(x, ms)
      BY ONLY <2>b, e \in S, FiltraAgrega
    <2>6. Append(t, e) \in Seq(S)
      OBVIOUS
    <2> QED BY <2>2, <2>3, <2>4, <2>5, <2>6
  <1>3. \A t \in Seq(S) : t \in Q
    <2> HIDE DEF Q
    <2> QED BY <1>1, <1>2, InduccionSecuencias
  <1> QED BY <1>3

\* By two sets that agree on the chain.
LEMMA FiltraIgual ==
  ASSUME NEW S, NEW s \in Seq(S), NEW ns, NEW ms, \A e \in Range(s) : e \in ns <=> e \in ms
  PROVE  Filtra(s, ns) = Filtra(s, ms)
  <1> DEFINE Acuerdo(t) == \A e \in Range(t) : e \in ns <=> e \in ms
             Q == {t \in Seq(S) : Acuerdo(t) => Filtra(t, ns) = Filtra(t, ms)}
  <1>1. <<>> \in Q
    <2>1. <<>> \in Seq(S)
      OBVIOUS
    <2> QED BY <2>1, FiltraVacio
  <1>2. ASSUME NEW t \in Seq(S), NEW e \in S, t \in Q PROVE Append(t, e) \in Q
    <2>1. PICK u : u = Append(t, e)
      OBVIOUS
    <2>2. u \in Seq(S) /\ Range(u) = Range(t) \cup {e}
      <3>1. Agregado(u, t, e, S)
        BY <2>1, AgregaRango
      <3> QED BY <3>1 DEF Agregado
    <2>3. ASSUME Acuerdo(u) PROVE Filtra(u, ns) = Filtra(u, ms)
      <3>1. Acuerdo(t) /\ (e \in ns <=> e \in ms)
        BY <2>2, <2>3
      <3>2. Filtra(t, ns) = Filtra(t, ms)
        BY <1>2, <3>1
      <3>3. /\ Filtra(u, ns) = IF e \in ns THEN Append(Filtra(t, ns), e) ELSE Filtra(t, ns)
            /\ Filtra(u, ms) = IF e \in ms THEN Append(Filtra(t, ms), e) ELSE Filtra(t, ms)
        BY <2>1, FiltraAgrega
      <3> QED BY <3>1, <3>2, <3>3
    <2> QED BY <2>1, <2>2, <2>3
  <1>3. \A t \in Seq(S) : t \in Q
    <2> HIDE DEF Q
    <2> QED BY <1>1, <1>2, InduccionSecuencias
  <1> QED BY <1>3

\* By a set that has none of its elements.
LEMMA FiltraNada ==
  ASSUME NEW S, NEW s \in Seq(S), NEW ns, Range(s) \cap ns = {}
  PROVE  Filtra(s, ns) = <<>>
  <1>1. Filtrada(Filtra(s, ns), s, ns, S)
    BY FiltraRango
  <1> QED BY <1>1, Vacia DEF Filtrada

\* The elements whose hash is k.
DeHash(hs, k) == {n \in Nodos : hs[n] = k}

\* Growing the table leaves the elements of a key in their order.
LEMMA MudaClave ==
  ASSUME NEW m \in Nat \ {0}, NEW cs, Sana(cs, hash, m), NEW h \in Nat
  PROVE  Filtra(Mudanza(cs, m, m * 2)[h % (m * 2)], DeHash(hash, h))
           = Filtra(cs[h % m], DeHash(hash, h))
  <1>1. PICK nueva \in Nat \ {0} : nueva = m * 2
    OBVIOUS
  <1>2. PICK i \in 0..(nueva - 1) : i = h % nueva
    <2>1. h % nueva \in 0..(nueva - 1)
      OBVIOUS
    <2> QED BY <2>1
  <1>3. PICK r \in 0..(m - 1) : r = h % m
    <2>1. h % m \in 0..(m - 1)
      OBVIOUS
    <2> QED BY <2>1
  <1>4. cs \in [0..(m - 1) -> Seq(Nodos)]
    BY DEF Sana
  <1>5. PICK K, ns : K = DeHash(hash, h) /\ ns = Destinados(nueva, i)
    OBVIOUS
  <1>6. K \subseteq ns
    BY <1>2, <1>5 DEF DeHash, Destinados
  <1>7. PICK f : Porteada(f, cs, m, ns) /\ Mudanza(cs, m, nueva)[i] = f[m]
    <2>1. \E f : /\ Porteada(f, cs, m, Destinados(nueva, i))
                 /\ Mudanza(cs, m, nueva)[i] = f[m]
      BY <1>4, MudanzaPorPasos
    <2> QED BY <1>5, <2>1
  <1>8. PICK X : X = Filtra(cs[r], K)
    OBVIOUS
  <1>9. ASSUME NEW k \in 0..(m - 1)
        PROVE  Filtra(Filtra(cs[k], ns), K) = IF k = r THEN X ELSE <<>>
    <2>1. cs[k] \in Seq(Nodos)
      BY <1>4
    <2>2. Filtra(Filtra(cs[k], ns), K) = Filtra(cs[k], K)
      BY <1>6, <2>1, FiltraDos
    <2>3. k # r => Range(cs[k]) \cap K = {}
      BY <1>3, <1>5 DEF Sana, DeHash
    <2>4. k # r => Filtra(cs[k], K) = <<>>
      BY <2>1, <2>3, FiltraNada
    <2> QED BY <1>8, <2>2, <2>4
  <1>10. X \in Seq(Nodos) /\ <<>> \in Seq(Nodos)
    <2>1. cs[r] \in Seq(Nodos)
      BY <1>4
    <2>2. Filtrada(Filtra(cs[r], K), cs[r], K, Nodos)
      BY <2>1, FiltraRango
    <2> QED BY <1>8, <2>2 DEF Filtrada
  <1> DEFINE T == {k \in Nat : k <= m => Filtra(f[k], K) = IF k > r THEN X ELSE <<>>}
  <1>11. 0 \in T
    <2>1. f[0] = <<>> /\ ~(0 > r)
      BY <1>7 DEF Porteada
    <2> QED BY <2>1, FiltraVacio
  <1>12. ASSUME NEW k \in Nat, k \in T PROVE k + 1 \in T
    <2> SUFFICES ASSUME k + 1 <= m PROVE Filtra(f[k + 1], K) = IF k + 1 > r THEN X ELSE <<>>
      OBVIOUS
    <2>1. k + 1 \in 1..m /\ (k + 1) - 1 = k /\ k \in 0..(m - 1) /\ k \in 0..m
      OBVIOUS
    <2>2. PICK a, b : a = f[k] /\ b = Filtra(cs[k], ns)
      OBVIOUS
    <2>3. f[k + 1] = a \o b /\ a \in Seq(Nodos)
      BY <1>7, <2>1, <2>2 DEF Porteada
    <2>4. b \in Seq(Nodos)
      <3>1. cs[k] \in Seq(Nodos)
        BY <1>4, <2>1
      <3>2. Filtrada(Filtra(cs[k], ns), cs[k], ns, Nodos)
        BY <3>1, FiltraRango
      <3> QED BY <2>2, <3>2 DEF Filtrada
    <2>5. Filtra(a \o b, K) = Filtra(a, K) \o Filtra(b, K)
      BY ONLY <2>3, <2>4, FiltraUne
    <2>6. Filtra(a, K) = IF k > r THEN X ELSE <<>>
      BY <1>12, <2>1, <2>2
    <2>7. Filtra(b, K) = IF k = r THEN X ELSE <<>>
      BY <1>9, <2>1, <2>2
    <2>8. X \o <<>> = X /\ <<>> \o X = X /\ <<>> \o <<>> = <<>>
      BY <1>10, ConcatEmptySeq
    <2>9. CASE k < r
      <3>1. ~(k > r) /\ k # r /\ ~(k + 1 > r)
        BY <2>9
      <3> QED BY <2>3, <2>5, <2>6, <2>7, <2>8, <3>1
    <2>10. CASE k = r
      <3>1. ~(k > r) /\ k = r /\ k + 1 > r
        BY <2>10
      <3> QED BY <2>3, <2>5, <2>6, <2>7, <2>8, <3>1
    <2>11. CASE k > r
      <3>1. k > r /\ k # r /\ k + 1 > r
        BY <2>11
      <3> QED BY <2>3, <2>5, <2>6, <2>7, <2>8, <3>1
    <2> QED BY <2>9, <2>10, <2>11
  <1>13. m \in T
    <2> HIDE DEF T
    <2> QED BY <1>11, <1>12, Induccion
  <1>14. Filtra(f[m], K) = X
    BY <1>13
  <1> QED BY <1>1, <1>2, <1>3, <1>5, <1>7, <1>8, <1>14

-----------------------------------------------------------------------------
(* The data under a key.                                                     *)

DatosDe(s, ds) == [j \in DOMAIN s |-> ds[s[j]]]

\* y has the data of each element of s.
SonDatos(y, s, ds, S) ==
  /\ y \in Seq({ds[x] : x \in S}) /\ Len(y) = Len(s)
  /\ \A j \in 1..Len(s) : y[j] = ds[s[j]]

LEMMA DatosTipo ==
  ASSUME NEW S, NEW s \in Seq(S), NEW ds
  PROVE  SonDatos(DatosDe(s, ds), s, ds, S)
  <1> DEFINE D == {ds[x] : x \in S}
  <1>1. PICK n \in Nat : n = Len(s)
    OBVIOUS
  <1>2. DOMAIN s = 1..n /\ \A j \in 1..n : s[j] \in S
    BY <1>1
  <1>3. \A j \in 1..n : ds[s[j]] \in D
    BY <1>2
  <1> HIDE DEF D
  <1>4. DatosDe(s, ds) = [j \in 1..n |-> ds[s[j]]]
    BY <1>2 DEF DatosDe
  <1>5. [j \in 1..n |-> ds[s[j]]] \in Seq(D) /\ Len([j \in 1..n |-> ds[s[j]]]) = n
    BY <1>3
  <1> QED BY <1>1, <1>4, <1>5 DEF D, SonDatos

\* dictionary_put adds its data behind the others.
LEMMA DatosAgrega ==
  ASSUME NEW S, NEW s \in Seq(S), NEW n \in S, NEW ds
  PROVE  DatosDe(Append(s, n), ds) = Append(DatosDe(s, ds), ds[n])
  <1> DEFINE D == {ds[x] : x \in S}
  <1>1. PICK t : t = Append(s, n)
    OBVIOUS
  <1>2. PICK l \in Nat : l = Len(s)
    OBVIOUS
  <1>3. t \in Seq(S) /\ Len(t) = l + 1 /\ t[l + 1] = n /\ \A j \in 1..l : t[j] = s[j]
    BY <1>1, <1>2
  <1>4. PICK x, y : x = DatosDe(s, ds) /\ y = DatosDe(t, ds)
    OBVIOUS
  <1>5. x \in Seq(D) /\ Len(x) = l /\ \A j \in 1..l : x[j] = ds[s[j]]
    <2>1. SonDatos(DatosDe(s, ds), s, ds, S)
      BY DatosTipo
    <2> QED BY <1>2, <1>4, <2>1 DEF SonDatos
  <1>6. y \in Seq(D) /\ Len(y) = l + 1 /\ \A j \in 1..(l + 1) : y[j] = ds[t[j]]
    <2>1. SonDatos(DatosDe(t, ds), t, ds, S)
      BY <1>3, DatosTipo
    <2> QED BY <1>3, <1>4, <2>1 DEF SonDatos
  <1>7. ds[n] \in D
    OBVIOUS
  <1>8. PICK e \in D : e = ds[n]
    BY <1>7
  <1> HIDE DEF D
  <1>9. PICK z : z = Append(x, e)
    OBVIOUS
  <1>10. z \in Seq(D) /\ Len(z) = l + 1 /\ z[l + 1] = e /\ \A j \in 1..l : z[j] = x[j]
    BY <1>5, <1>9
  <1>11. \A j \in 1..(l + 1) : y[j] = z[j]
    <2>1. \A j \in 1..(l + 1) : j \in 1..l \/ j = l + 1
      OBVIOUS
    <2>2. \A j \in 1..l : j \in 1..(l + 1)
      OBVIOUS
    <2>3. l + 1 \in 1..(l + 1)
      OBVIOUS
    <2> QED BY <1>3, <1>5, <1>6, <1>8, <1>10, <2>1, <2>2, <2>3
  <1>12. y = z
    BY ONLY <1>6, <1>10, <1>11, SeqEqual
  <1> QED BY <1>1, <1>4, <1>8, <1>9, <1>12

\* t is n and then s.
Precede(t, n, s) == t = <<n>> \o s

\* dictionary_remove takes the first.
LEMMA DatosPrimero ==
  ASSUME NEW S, NEW s \in Seq(S), NEW n \in S, NEW t, Precede(t, n, s), NEW ds
  PROVE  /\ DatosDe(t, ds) # <<>> /\ Head(DatosDe(t, ds)) = ds[n]
         /\ Tail(DatosDe(t, ds)) = DatosDe(s, ds)
  <1> DEFINE D == {ds[x] : x \in S}
  <1>1. PICK l \in Nat : l = Len(s)
    OBVIOUS
  <1>2. PICK b : b = <<n>>
    OBVIOUS
  <1>3. b \in Seq(S) /\ Len(b) = 1 /\ b[1] = n
    BY <1>2
  <1>4. /\ t \in Seq(S) /\ Len(t) = Len(b) + Len(s)
        /\ \A j \in 1..(Len(b) + Len(s)) :
             t[j] = IF j <= Len(b) THEN b[j] ELSE s[j - Len(b)]
    <2>1. t = b \o s /\ s \in Seq(S)
      BY <1>2 DEF Precede
    <2> QED BY ONLY <1>3, <2>1, ConcatProperties
  <1>5. Len(t) = l + 1 /\ t[1] = n /\ \A j \in 1..l : t[j + 1] = s[j]
    <2>1. Len(t) = l + 1
      BY <1>1, <1>3, <1>4
    <2>2. 1 \in 1..(l + 1) /\ 1 <= 1
      OBVIOUS
    <2>3. \A j \in 1..l : j + 1 \in 1..(l + 1) /\ ~(j + 1 <= 1) /\ (j + 1) - 1 = j
      OBVIOUS
    <2>4. \A j \in 1..(l + 1) : t[j] = IF j <= 1 THEN b[j] ELSE s[j - 1]
      BY <1>1, <1>3, <1>4
    <2> QED BY <1>3, <2>1, <2>2, <2>3, <2>4
  <1>6. PICK x, y : x = DatosDe(s, ds) /\ y = DatosDe(t, ds)
    OBVIOUS
  <1>7. x \in Seq(D) /\ Len(x) = l /\ \A j \in 1..l : x[j] = ds[s[j]]
    <2>1. SonDatos(DatosDe(s, ds), s, ds, S)
      BY DatosTipo
    <2> QED BY <1>1, <1>6, <2>1 DEF SonDatos
  <1>8. y \in Seq(D) /\ Len(y) = l + 1 /\ \A j \in 1..(l + 1) : y[j] = ds[t[j]]
    <2>1. SonDatos(DatosDe(t, ds), t, ds, S)
      BY <1>4, DatosTipo
    <2> QED BY <1>5, <1>6, <2>1 DEF SonDatos
  <1> HIDE DEF D
  <1>9. y # <<>> /\ Head(y) = y[1] /\ Tail(y) \in Seq(D) /\ Len(Tail(y)) = l
        /\ \A j \in 1..l : Tail(y)[j] = y[j + 1]
    BY <1>8
  <1>10. y[1] = ds[n]
    <2>1. 1 \in 1..(l + 1)
      OBVIOUS
    <2> QED BY <1>5, <1>8, <2>1
  <1>11. ASSUME NEW j \in 1..l PROVE Tail(y)[j] = x[j]
    <2>1. j + 1 \in 1..(l + 1)
      OBVIOUS
    <2>2. Tail(y)[j] = y[j + 1] /\ y[j + 1] = ds[t[j + 1]] /\ x[j] = ds[s[j]] /\ t[j + 1] = s[j]
      BY <1>5, <1>7, <1>8, <1>9, <2>1
    <2> QED BY <2>2
  <1>12. Tail(y) = x
    BY ONLY <1>7, <1>9, <1>11, SeqEqual
  <1> QED BY <1>6, <1>9, <1>10, <1>12

\* What the chain s holds under the key k.
Vista(s, k, hs, ds) == DatosDe(Filtra(s, DeHash(hs, k)), ds)

\* Contenido in the words of the lemmas.
LEMMA ContenidoEs ==
  Contenido = [k \in Claves |-> Vista(cubetas[k % max], k, hash, dato)]
  BY DEF Contenido, DeClave, Vista, DatosDe, DeHash

\* It depends on the elements of the chain alone.
LEMMA VistaIgual ==
  ASSUME NEW s \in Seq(Nodos), NEW k, NEW hs, NEW hs2, NEW ds, NEW ds2,
         \A x \in Range(s) : hs2[x] = hs[x] /\ ds2[x] = ds[x]
  PROVE  Vista(s, k, hs2, ds2) = Vista(s, k, hs, ds)
  <1>1. Range(s) \subseteq Nodos
    BY DEF Range
  <1>2. \A x \in Range(s) : x \in DeHash(hs2, k) <=> x \in DeHash(hs, k)
    BY <1>1 DEF DeHash
  <1>3. Filtra(s, DeHash(hs2, k)) = Filtra(s, DeHash(hs, k))
    BY <1>2, FiltraIgual
  <1>4. PICK t : t = Filtra(s, DeHash(hs, k))
    OBVIOUS
  <1>5. t \in Seq(Nodos) /\ Range(t) \subseteq Range(s)
    <2>1. Filtrada(Filtra(s, DeHash(hs, k)), s, DeHash(hs, k), Nodos)
      BY FiltraRango
    <2> QED BY <1>4, <2>1 DEF Filtrada
  <1>6. \A j \in DOMAIN t : ds2[t[j]] = ds[t[j]]
    BY <1>5 DEF Range
  <1>7. DatosDe(t, ds2) = DatosDe(t, ds)
    BY <1>6 DEF DatosDe
  <1> QED BY <1>3, <1>4, <1>7 DEF Vista

\* Linking an element at the end of the chain.
LEMMA VistaAgrega ==
  ASSUME NEW s \in Seq(Nodos), NEW n \in Nodos, NEW k, NEW hs, NEW ds
  PROVE  Vista(Append(s, n), k, hs, ds) =
           IF hs[n] = k THEN Append(Vista(s, k, hs, ds), ds[n]) ELSE Vista(s, k, hs, ds)
  <1>1. PICK K : K = DeHash(hs, k)
    OBVIOUS
  <1>2. PICK t : t = Filtra(s, K)
    OBVIOUS
  <1>3. t \in Seq(Nodos)
    <2>1. Filtrada(Filtra(s, K), s, K, Nodos)
      BY FiltraRango
    <2> QED BY <1>2, <2>1 DEF Filtrada
  <1>4. n \in K <=> hs[n] = k
    BY <1>1 DEF DeHash
  <1>5. Filtra(Append(s, n), K) = IF n \in K THEN Append(t, n) ELSE t
    BY <1>2, FiltraAgrega
  <1>6. DatosDe(Append(t, n), ds) = Append(DatosDe(t, ds), ds[n])
    BY <1>3, DatosAgrega
  <1> QED BY <1>1, <1>2, <1>4, <1>5, <1>6 DEF Vista

\* Growing the table.
LEMMA VistaMuda ==
  ASSUME NEW m \in Nat \ {0}, NEW cs, Sana(cs, hash, m), NEW k \in Nat, NEW ds
  PROVE  Vista(Mudanza(cs, m, m * 2)[k % (m * 2)], k, hash, ds) = Vista(cs[k % m], k, hash, ds)
  BY MudaClave DEF Vista

\* s is its beginning, the element at p and what follows it.
Partes(s, p, a, c) == a = SubSeq(s, 1, p - 1) /\ c = SubSeq(s, p + 1, Len(s))
Partido(s, p, a, c, S) ==
  /\ a \in Seq(S) /\ c \in Seq(S) /\ Range(a) = {s[j] : j \in 1..(p - 1)}
  /\ Append(a, s[p]) \o c = s

LEMMA Parte ==
  ASSUME NEW S, NEW s \in Seq(S), NEW p \in 1..Len(s), NEW a, NEW c, Partes(s, p, a, c)
  PROVE  Partido(s, p, a, c, S)
  <1>0. Len(s) \in Nat /\ p \in Int /\ s[p] \in S
    OBVIOUS
  <1>1. a \in Seq(S) /\ Len(a) = p - 1 /\ \A j \in 1..(p - 1) : a[j] = s[j]
    BY <1>0, SubSeqProperties DEF Partes
  <1>2. c \in Seq(S) /\ Len(c) = Len(s) - p /\ \A j \in 1..(Len(s) - p) : c[j] = s[p + j]
    BY <1>0, SubSeqProperties DEF Partes
  <1>3. PICK b : b = Append(a, s[p])
    OBVIOUS
  <1>4. b \in Seq(S) /\ Len(b) = p /\ b[p] = s[p] /\ \A j \in 1..(p - 1) : b[j] = s[j]
    BY <1>0, <1>1, <1>3
  <1>5. PICK t : t = b \o c
    OBVIOUS
  <1>6. /\ t \in Seq(S) /\ Len(t) = Len(b) + Len(c)
        /\ \A j \in 1..(Len(b) + Len(c)) : t[j] = IF j <= Len(b) THEN b[j] ELSE c[j - Len(b)]
    <2>1. b \in Seq(S) /\ c \in Seq(S)
      BY <1>2, <1>4
    <2> QED BY ONLY <2>1, <1>5, ConcatProperties
  <1>7. Len(t) = Len(s)
    BY <1>0, <1>2, <1>4, <1>6
  <1>8. ASSUME NEW j \in 1..Len(s) PROVE t[j] = s[j]
    <2>1. CASE j <= p
      <3>1. t[j] = b[j] /\ (j = p \/ j \in 1..(p - 1))
        BY <1>0, <1>4, <1>6, <1>7, <2>1
      <3> QED BY <1>4, <3>1
    <2>2. CASE j > p
      <3>1. t[j] = c[j - p] /\ j - p \in 1..(Len(s) - p) /\ p + (j - p) = j
        BY <1>0, <1>4, <1>6, <1>7, <2>2
      <3> QED BY <1>2, <3>1
    <2> QED BY <1>0, <2>1, <2>2
  <1>9. t = s
    BY <1>6, <1>7, <1>8, SeqEqual
  <1>10. Range(a) = {s[j] : j \in 1..(p - 1)}
    <2>1. DOMAIN a = 1..(p - 1)
      BY <1>0, <1>1
    <2> QED BY <1>1, <2>1 DEF Range
  <1> QED BY <1>1, <1>2, <1>3, <1>5, <1>9, <1>10 DEF Partido

\* The element at p is the first of the chain s with its key.
EsPrimero(s, p, hs) == p \in 1..Len(s) /\ \A j \in 1..(p - 1) : hs[s[j]] # hs[s[p]]

\* x and y are what the chain has under the key k before and after dictionary_remove
\* took its first element, or one with another key.
Tomado(x, y, k, n, hs, ds) ==
  IF hs[n] = k THEN x # <<>> /\ Head(x) = ds[n] /\ y = Tail(x) ELSE y = x

\* Unlinking an element, if nothing else goes with it.
LEMMA VistaQuita ==
  ASSUME NEW s \in Seq(Nodos), NEW p, NEW hs, EsPrimero(s, p, hs),
         NEW c, NEW t, Corte(t, s, p, c, c), NEW k, NEW ds
  PROVE  Tomado(Vista(s, k, hs, ds), Vista(t, k, hs, ds), k, s[p], hs, ds)
  <1>1. PICK K : K = DeHash(hs, k)
    OBVIOUS
  <1>2. PICK a : a = SubSeq(s, 1, p - 1)
    OBVIOUS
  <1>3. PICK n \in Nodos : n = s[p]
    BY DEF EsPrimero
  <1>4. p \in 1..Len(s) /\ c = SubSeq(s, p + 1, Len(s)) /\ t = a \o c
    BY <1>2 DEF EsPrimero, Corte
  <1>5. /\ a \in Seq(Nodos) /\ c \in Seq(Nodos) /\ Range(a) = {s[j] : j \in 1..(p - 1)}
        /\ Append(a, n) \o c = s
    <2>1. Partes(s, p, a, c)
      BY <1>2, <1>4 DEF Partes
    <2>2. Partido(s, p, a, c, Nodos)
      BY <1>4, <2>1, Parte
    <2> QED BY <1>3, <2>2 DEF Partido
  <1>6. PICK b : b = Append(a, n)
    OBVIOUS
  <1>7. b \in Seq(Nodos) /\ b \o c = s
    BY <1>5, <1>6
  <1>8. PICK x, y : x = Filtra(a, K) /\ y = Filtra(c, K)
    OBVIOUS
  <1>9. x \in Seq(Nodos) /\ y \in Seq(Nodos)
    <2>1. Filtrada(Filtra(a, K), a, K, Nodos) /\ Filtrada(Filtra(c, K), c, K, Nodos)
      BY <1>5, FiltraRango
    <2> QED BY <1>8, <2>1 DEF Filtrada
  <1>10. Filtra(t, K) = x \o y
    <2>1. Filtra(a \o c, K) = Filtra(a, K) \o Filtra(c, K)
      BY <1>5, FiltraUne
    <2> QED BY <1>4, <1>8, <2>1
  <1>11. Filtra(s, K) = (IF n \in K THEN Append(x, n) ELSE x) \o y
    <2>a. b \in Seq(Nodos) /\ c \in Seq(Nodos)
      BY <1>5, <1>7
    <2>1. Filtra(b \o c, K) = Filtra(b, K) \o Filtra(c, K)
      BY ONLY <2>a, FiltraUne
    <2>b. a \in Seq(Nodos) /\ n \in Nodos
      BY <1>5
    <2>c. Filtra(Append(a, n), K) = IF n \in K THEN Append(Filtra(a, K), n) ELSE Filtra(a, K)
      BY ONLY <2>b, FiltraAgrega
    <2>2. Filtra(b, K) = IF n \in K THEN Append(x, n) ELSE x
      BY <1>6, <1>8, <2>c
    <2> QED BY <1>7, <1>8, <2>1, <2>2
  <1>12. n \in K <=> hs[n] = k
    BY <1>1 DEF DeHash
  <1>13. CASE hs[n] = k
    <2>1. Range(a) \cap K = {}
      BY <1>1, <1>3, <1>5, <1>13 DEF EsPrimero, DeHash
    <2>2. x = <<>>
      BY <1>5, <1>8, <2>1, FiltraNada
    <2>3. <<>> \o y = y /\ Append(<<>>, n) = <<n>>
      BY <1>9, ConcatEmptySeq
    <2>4. Filtra(s, K) = <<n>> \o y /\ Filtra(t, K) = y
      BY <1>10, <1>11, <1>12, <1>13, <2>2, <2>3
    <2>5. PICK z : z = <<n>> \o y
      OBVIOUS
    <2>a. Precede(z, n, y)
      BY <2>5 DEF Precede
    <2>6. /\ DatosDe(z, ds) # <<>> /\ Head(DatosDe(z, ds)) = ds[n]
          /\ Tail(DatosDe(z, ds)) = DatosDe(y, ds)
      BY <1>9, <2>a, DatosPrimero
    <2> QED BY <1>1, <1>3, <1>13, <2>4, <2>5, <2>6 DEF Vista, Tomado
  <1>14. CASE hs[n] # k
    BY <1>1, <1>3, <1>10, <1>11, <1>12, <1>14 DEF Vista, Tomado
  <1> QED BY <1>13, <1>14

-----------------------------------------------------------------------------
(* The order of the elements.                                                *)

\* The put knows the last of its chain, that is not the one being removed ...
OrdenPon ==
  pon # Nulo =>
    /\ hash[pon.nodo] \in Claves
    /\ pon.cola # Nulo => cubetas[pon.i] # <<>> /\ Last(cubetas[pon.i]) = pon.cola
    /\ saca # Nulo => pon.cola # saca.nodo

\* ... and the remove the first of its key, and whether something follows it.
OrdenSaca ==
  saca # Nulo =>
    /\ hash[saca.nodo] \in Claves
    /\ \E p : EsPrimero(cubetas[saca.i], p, hash) /\ cubetas[saca.i][p] = saca.nodo
    /\ saca.ultimo => Resto(saca.nodo) = <<>>

\* Until a put links its element to the one being removed, or makes the table
\* grow under a remove.
Orden == cruces \subseteq {"contador"} => OrdenPon /\ OrdenSaca

\* Contenido in the words of the lemmas, after the step.
LEMMA ContenidoLuego ==
  Contenido' = [k \in Claves |-> Vista(cubetas'[k % max'], k, hash', dato')]
  BY DEF Contenido, DeClave, Vista, DatosDe, DeHash

\* The step leaves what is under every key.
LEMMA ContenidoIgual ==
  ASSUME \A k \in Claves :
           Vista(cubetas'[k % max'], k, hash', dato') = Vista(cubetas[k % max], k, hash, dato)
  PROVE  Contenido' = Contenido
  BY ContenidoEs, ContenidoLuego

\* The chain of a key.
LEMMA CadenaDe ==
  ASSUME TypeOK, Sana(cubetas, hash, max), NEW k \in Claves
  PROVE  /\ k \in Nat /\ k % max \in 0..(max - 1) /\ cubetas[k % max] \in Seq(Nodos)
         /\ Range(cubetas[k % max]) \subseteq Todos(cubetas, max)
  <1>1. k \in Nat /\ max \in Nat \ {0}
    BY DiccionarioAssumption, MaxNatural
  <1>2. k % max \in 0..(max - 1)
    BY <1>1
  <1> QED BY <1>1, <1>2 DEF Sana, Todos

LEMMA OrdenInicio == Init => Orden
  BY DEF Init, Orden, OrdenPon, OrdenSaca

\* PonBusca: what it makes is not linked yet.
LEMMA OrdenPonBusca ==
  ASSUME Inv, Orden, NEW h \in Claves, NEW d \in Datos, PonBusca(h, d)
  PROVE  Orden' /\ Contenido' = Contenido
  <1>1. TypeOK /\ Sana(cubetas, hash, max) /\ Definido /\ SacaBien
    BY DEF Inv, PonBusca, Tabla
  <1>2. PICK i, cola : /\ i = h % max
                       /\ cola = IF cubetas[i] = <<>> THEN Nulo ELSE Last(cubetas[i])
    OBVIOUS
  <1>3. PICK n \in Nodos \ EnUso :
          /\ hash' = [hash EXCEPT ![n] = h]
          /\ dato' = [dato EXCEPT ![n] = d]
          /\ pon' = [nodo |-> n, i |-> i, cola |-> cola, vc |-> {}, vt |-> {}]
    BY <1>2 DEF PonBusca
  <1>4. /\ cruces' = cruces \cup CruceDe(pon', saca)
        /\ max' = max /\ cubetas' = cubetas /\ saca' = saca
    BY DEF PonBusca
  <1>5. n \notin Todos(cubetas, max)
    BY <1>3 DEF EnUso, Enlazados, EnCadena, Todos
  <1>6. \A x \in Todos(cubetas, max) : hash'[x] = hash[x] /\ dato'[x] = dato[x]
    <2>1. Todos(cubetas, max) \subseteq Nodos
      BY <1>1, TodosFinito
    <2> QED BY <1>1, <1>3, <1>5, <2>1 DEF TypeOK
  <1>7. Contenido' = Contenido
    <2> SUFFICES ASSUME NEW k \in Claves
                 PROVE  Vista(cubetas'[k % max'], k, hash', dato')
                          = Vista(cubetas[k % max], k, hash, dato)
      BY ContenidoIgual
    <2>1. PICK s : s = cubetas[k % max]
      OBVIOUS
    <2>2. s \in Seq(Nodos) /\ \A x \in Range(s) : hash'[x] = hash[x] /\ dato'[x] = dato[x]
      BY <1>1, <1>6, <2>1, CadenaDe
    <2>3. Vista(s, k, hash', dato') = Vista(s, k, hash, dato)
      BY <2>2, VistaIgual
    <2> QED BY <1>4, <2>1, <2>3
  <1>8. ASSUME cruces' \subseteq {"contador"} PROVE OrdenPon' /\ OrdenSaca'
    <2>1. OrdenPon /\ OrdenSaca
      BY <1>4, <1>8 DEF Orden
    <2>2. OrdenPon'
      <3>1. pon'.nodo = n /\ pon'.i = i /\ pon'.cola = cola /\ hash'[n] = h
        BY <1>1, <1>3 DEF TypeOK
      <3>2. cola # Nulo => cubetas[i] # <<>> /\ Last(cubetas[i]) = cola
        BY <1>2
      <3>3. pon' # Nulo /\ saca # Nulo => cola # saca.nodo
        BY <1>4, <1>8, <3>1 DEF CruceDe
      <3> QED BY <1>4, <3>1, <3>2, <3>3 DEF OrdenPon
    <2>3. OrdenSaca'
      <3> SUFFICES ASSUME saca # Nulo PROVE OrdenSaca'
        BY <1>4 DEF OrdenSaca
      <3>1. PICK m, j, s : m = saca.nodo /\ j = saca.i /\ s = cubetas[j]
        OBVIOUS
      <3>2. PICK p : EsPrimero(s, p, hash) /\ s[p] = m
        BY <2>1, <3>1 DEF OrdenSaca
      <3>3. m \in Range(s) /\ j \in 0..(max - 1) /\ s \in Seq(Nodos)
        BY <1>1, <3>1 DEF SacaBien, EnCadena, Sana
      <3>4. \A x \in Range(s) : hash'[x] = hash[x]
        BY <1>6, <3>1, <3>3 DEF Todos
      <3>5. EsPrimero(s, p, hash')
        <4>1. p \in 1..Len(s) /\ \A l \in 1..(p - 1) : l \in 1..Len(s)
          BY <3>2 DEF EsPrimero
        <4>2. \A l \in 1..Len(s) : s[l] \in Range(s)
          BY <3>3 DEF Range
        <4> QED BY <3>2, <3>4, <4>1, <4>2 DEF EsPrimero
      <3>6. Resto(saca.nodo)' = Resto(saca.nodo)
        BY ONLY <1>4 DEF Resto
      <3>7. hash'[m] \in Claves /\ (saca.ultimo => Resto(saca.nodo) = <<>>)
        BY <2>1, <3>1, <3>3, <3>4 DEF OrdenSaca
      <3> QED BY <1>4, <3>1, <3>2, <3>5, <3>6, <3>7 DEF OrdenSaca
    <2> QED BY <2>2, <2>3
  <1> QED BY <1>7, <1>8 DEF Orden

\* What dictionary_get_element finds is the first.
LEMMA ElementoPrimero ==
  ASSUME Sana(cubetas, hash, max), NEW h, h % max \in 0..(max - 1), Elemento(h) # Nulo
  PROVE  /\ hash[Elemento(h)] = h
         /\ \E p : EsPrimero(cubetas[h % max], p, hash) /\ cubetas[h % max][p] = Elemento(h)
  <1>0. PICK s : s = cubetas[h % max]
    OBVIOUS
  <1> DEFINE L == {j \in DOMAIN s : hash[s[j]] = h}
  <1>1. s \in Seq(Nodos)
    BY <1>0 DEF Sana
  <1>a. L # {}
    BY <1>0 DEF Elemento
  <1>2. L # {} /\ L \subseteq Nat /\ L \subseteq DOMAIN s
    <2>1. DOMAIN s \subseteq Nat
      BY <1>1
    <2> QED BY <1>a, <2>1
  <1>3. PICK x \in L : \A y \in L : x <= y
    <2> HIDE DEF L
    <2> QED BY <1>2, Minimo
  <1>4. Min(L) \in L /\ \A y \in L : Min(L) <= y
    <2> HIDE DEF L
    <2> QED BY <1>3 DEF Min
  <1>5. Elemento(h) = s[Min(L)]
    BY <1>0, <1>2 DEF Elemento
  <1>6. PICK p : p = Min(L)
    OBVIOUS
  <1>7. p \in 1..Len(s) /\ hash[s[p]] = h
    BY <1>1, <1>4, <1>6
  <1>8. \A j \in 1..(p - 1) : hash[s[j]] # h
    <2> SUFFICES ASSUME NEW j \in 1..(p - 1), hash[s[j]] = h PROVE FALSE
      OBVIOUS
    <2>1. Len(s) \in Nat /\ DOMAIN s = 1..Len(s)
      BY <1>1
    <2>2. j \in DOMAIN s /\ ~(p <= j)
      BY <1>7, <2>1
    <2> QED BY <1>4, <1>6, <2>2
  <1> HIDE DEF L
  <1> QED BY <1>0, <1>5, <1>6, <1>7, <1>8 DEF EsPrimero

\* SacaBusca.
LEMMA OrdenSacaBusca ==
  ASSUME Inv, Orden, NEW h \in Claves, SacaBusca(h)
  PROVE  Orden' /\ Contenido' = Contenido
  <1>1. TypeOK /\ Sana(cubetas, hash, max)
    BY DEF Inv, Tabla
  <1>2. PICK n, i : n = Elemento(h) /\ i = h % max
    OBVIOUS
  <1>3. /\ n # Nulo
        /\ saca' = [nodo |-> n, i |-> i, ultimo |-> Resto(n) = <<>>, vc |-> {}, vt |-> {}]
        /\ cruces' = cruces \cup CruceDe(pon, saca')
        /\ max' = max /\ cubetas' = cubetas /\ pon' = pon /\ hash' = hash /\ dato' = dato
    BY <1>2 DEF SacaBusca, nodos
  <1>4. Contenido' = Contenido
    BY <1>3, ContenidoIgual
  <1>5. ASSUME cruces' \subseteq {"contador"} PROVE OrdenPon' /\ OrdenSaca'
    <2>1. OrdenPon
      BY <1>3, <1>5 DEF Orden
    <2>2. saca'.nodo = n /\ saca'.i = i /\ (saca'.ultimo => Resto(n) = <<>>)
      BY <1>3
    <2>3. OrdenPon'
      <3>1. pon # Nulo /\ saca' # Nulo => pon.cola # n
        BY <1>3, <1>5, <2>2 DEF CruceDe
      <3> QED BY <1>3, <2>1, <2>2, <3>1 DEF OrdenPon
    <2>4. OrdenSaca'
      <3>1. i \in 0..(max - 1)
        BY <1>1, <1>2, CadenaDe
      <3>2. hash[n] = h /\ \E p : EsPrimero(cubetas[i], p, hash) /\ cubetas[i][p] = n
        BY <1>1, <1>2, <1>3, <3>1, ElementoPrimero
      <3>3. Resto(saca.nodo)' = Resto(n)
        BY ONLY <1>3, <2>2 DEF Resto
      <3> QED BY <1>3, <2>2, <3>2, <3>3 DEF OrdenSaca
    <2> QED BY <2>3, <2>4
  <1> QED BY <1>4, <1>5 DEF Orden

\* Limpia.
LEMMA OrdenLimpia ==
  ASSUME Inv, Limpia
  PROVE  Orden' /\ Contenido' = [k \in Claves |-> <<>>]
  <1>1. TypeOK /\ Sana(cubetas, hash, max)
    BY DEF Inv, Tabla
  <1>2. /\ cubetas' = [i \in 0..(max - 1) |-> <<>>] /\ max' = max
        /\ pon' = Nulo /\ saca' = Nulo
    BY DEF Limpia
  <1>3. ASSUME NEW k \in Claves PROVE Vista(cubetas'[k % max'], k, hash', dato') = <<>>
    <2>1. cubetas'[k % max'] = <<>>
      BY <1>1, <1>2, CadenaDe
    <2>2. Filtra(<<>>, DeHash(hash', k)) = <<>>
      BY FiltraVacio
    <2>3. DatosDe(<<>>, dato') = <<>>
      BY DEF DatosDe
    <2> QED BY <2>1, <2>2, <2>3 DEF Vista
  <1>4. Contenido' = [k \in Claves |-> <<>>]
    BY <1>3, ContenidoLuego
  <1> QED BY <1>2, <1>4 DEF Orden, OrdenPon, OrdenSaca

\* The put under way, when its tail is the last of its chain.
LEMMA PonAlFinal ==
  ASSUME Inv, Definido, OrdenPon, pon # Nulo, NEW n, NEW i, NEW cs, Ligue(n, i, cs)
  PROVE  /\ n \in Nodos /\ i \in 0..(max - 1) /\ hash[n] % max = i /\ hash[n] \in Claves
         /\ cs = [cubetas EXCEPT ![i] = Append(cubetas[i], n)]
  <1>1. /\ Sana(cubetas, hash, max) /\ n = pon.nodo /\ i = pon.i
        /\ n \in Nodos /\ i \in 0..(max - 1) /\ hash[n] % max = i /\ hash[n] \in Claves
        /\ pon.cola = Nulo => cubetas[i] = <<>>
        /\ pon.cola # Nulo => cubetas[i] # <<>> /\ Last(cubetas[i]) = pon.cola
    BY DEF Inv, Tabla, PonBien, OrdenPon, Ligue
  <1>2. cubetas[i] \in Seq(Nodos) /\ DOMAIN cubetas = 0..(max - 1)
    BY <1>1 DEF Sana
  <1>3. CASE pon.cola = Nulo
    <2>1. Append(<<>>, n) = <<n>>
      OBVIOUS
    <2>2. cubetas[i] = <<>>
      BY <1>1, <1>3
    <2> QED BY <1>1, <1>3, <2>1, <2>2 DEF Ligue
  <1>4. CASE pon.cola # Nulo
    <2>1. pon.cola \in EnCadena(i)
      <3>1. Len(cubetas[i]) \in DOMAIN cubetas[i]
        BY <1>1, <1>2, <1>4
      <3> QED BY <1>1, <1>4, <3>1 DEF Last, EnCadena, Range
    <2> QED BY <1>1, <1>2, <1>4, <2>1 DEF Ligue
  <1> QED BY <1>1, <1>3, <1>4

\* What linking it does under each key.
LEMMA VistaPone ==
  ASSUME Inv, Definido, OrdenPon, pon # Nulo, NEW n, NEW i, NEW cs, Ligue(n, i, cs),
         NEW k \in Claves
  PROVE  Vista(cs[k % max], k, hash, dato) =
           IF k = hash[n] THEN Append(Vista(cubetas[k % max], k, hash, dato), dato[n])
           ELSE Vista(cubetas[k % max], k, hash, dato)
  <1>1. TypeOK /\ Sana(cubetas, hash, max)
    BY DEF Inv, Tabla
  <1>2. /\ n \in Nodos /\ i \in 0..(max - 1) /\ hash[n] % max = i
        /\ cs = [cubetas EXCEPT ![i] = Append(cubetas[i], n)]
    BY PonAlFinal
  <1>3. PICK j, s : j = k % max /\ s = cubetas[j]
    OBVIOUS
  <1>4. j \in 0..(max - 1) /\ s \in Seq(Nodos) /\ DOMAIN cubetas = 0..(max - 1)
    BY <1>1, <1>3, CadenaDe DEF Sana
  <1>5. CASE j = i
    <2>1. cs[j] = Append(s, n)
      BY <1>2, <1>3, <1>4, <1>5
    <2>2. Vista(Append(s, n), k, hash, dato) =
            IF hash[n] = k THEN Append(Vista(s, k, hash, dato), dato[n])
            ELSE Vista(s, k, hash, dato)
      BY <1>2, <1>4, VistaAgrega
    <2> QED BY <1>3, <2>1, <2>2
  <1>6. CASE j # i
    <2>1. cs[j] = s /\ k # hash[n]
      BY <1>2, <1>3, <1>4, <1>6
    <2> QED BY <1>3, <2>1
  <1> QED BY <1>5, <1>6

\* PonEscribe: the data goes last under its key, whether the table grows or not.
LEMMA PonPone ==
  ASSUME Inv, Orden, PonEscribe, cruces' \subseteq {"contador"}
  PROVE  Mapa!Pone(hash[pon.nodo], dato[pon.nodo])
  <1>1. PICK n, i, cs, dt, t, c :
          /\ Definido /\ pon # Nulo /\ Ligue(n, i, cs) /\ Contado(dt, t, c)
          /\ IF dt = 1 /\ t >= max THEN Agranda(cs, dt, c) ELSE Sigue(cs, dt, t, c)
    BY PonPasos
  <1>2. OrdenPon
    <2>1. cruces \subseteq cruces'
      BY <1>1 DEF Sigue, Agranda
    <2> QED BY <2>1 DEF Orden
  <1>3. /\ n = pon.nodo /\ hash[n] \in Claves /\ TypeOK /\ max \in Nat \ {0}
        /\ hash' = hash /\ dato' = dato
    BY <1>1, <1>2, PonAlFinal, MaxNatural DEF Ligue, Sigue, Agranda, Inv
  <1>4. Sana(cs, hash, max)
    BY <1>1, PonLiga DEF Ligado
  <1>5. ASSUME NEW k \in Claves
        PROVE  Vista(cubetas'[k % max'], k, hash', dato') =
                 IF k = hash[n] THEN Append(Contenido[k], dato[n]) ELSE Contenido[k]
    <2>1. Vista(cubetas'[k % max'], k, hash, dato) = Vista(cs[k % max], k, hash, dato)
      <3>1. CASE dt = 1 /\ t >= max
        <4>1. cubetas' = Mudanza(cs, max, max * 2) /\ max' = max * 2
          BY <1>1, <3>1 DEF Agranda
        <4>2. k \in Nat
          BY DiccionarioAssumption
        <4>3. Vista(Mudanza(cs, max, max * 2)[k % (max * 2)], k, hash, dato)
                = Vista(cs[k % max], k, hash, dato)
          BY <1>3, <1>4, <4>2, VistaMuda
        <4> QED BY <4>1, <4>3
      <3>2. CASE ~(dt = 1 /\ t >= max)
        BY <1>1, <3>2 DEF Sigue
      <3> QED BY <3>1, <3>2
    <2>2. Vista(cs[k % max], k, hash, dato) =
            IF k = hash[n] THEN Append(Vista(cubetas[k % max], k, hash, dato), dato[n])
            ELSE Vista(cubetas[k % max], k, hash, dato)
      BY <1>1, <1>2, VistaPone
    <2>3. Contenido[k] = Vista(cubetas[k % max], k, hash, dato)
      BY ContenidoEs
    <2> QED BY <1>3, <2>1, <2>2, <2>3
  <1>6. Contenido' = [Contenido EXCEPT ![hash[n]] = Append(@, dato[n])]
    <2>1. DOMAIN Contenido = Claves /\ Contenido = [k \in Claves |-> Contenido[k]]
      BY ContenidoEs
    <2>2. Contenido' = [k \in Claves |-> IF k = hash[n] THEN Append(Contenido[k], dato[n])
                                         ELSE Contenido[k]]
      BY <1>5, ContenidoLuego
    <2> QED BY <1>3, <2>1, <2>2
  <1> QED BY <1>3, <1>6 DEF Mapa!Pone

\* The remove goes on under an element added to its chain.
LEMMA OrdenPonEscribe ==
  ASSUME Inv, Orden, PonEscribe
  PROVE  Orden'
  <1> SUFFICES ASSUME cruces' \subseteq {"contador"} PROVE OrdenPon' /\ OrdenSaca'
    BY DEF Orden
  <1>1. PICK n, i, cs, dt, t, c :
          /\ Definido /\ pon # Nulo /\ Ligue(n, i, cs) /\ Contado(dt, t, c)
          /\ IF dt = 1 /\ t >= max THEN Agranda(cs, dt, c) ELSE Sigue(cs, dt, t, c)
    BY PonPasos
  <1>2. OrdenPon /\ OrdenSaca
    <2>1. cruces \subseteq cruces'
      BY <1>1 DEF Sigue, Agranda
    <2> QED BY <2>1 DEF Orden
  <1>3. OrdenPon'
    BY <1>1 DEF OrdenPon, Sigue, Agranda
  <1>4. OrdenSaca'
    <2> SUFFICES ASSUME saca' # Nulo PROVE OrdenSaca'
      BY DEF OrdenSaca
    <2>1. saca # Nulo
      BY <1>1 DEF Sigue, Agranda, Anota
    <2>2. Sigue(cs, dt, t, c)
      BY <1>1, <2>1 DEF Agranda
    <2>3. PICK m, j, s, u : m = saca.nodo /\ j = saca.i /\ s = cubetas[j] /\ u = saca.ultimo
      OBVIOUS
    <2>4. /\ saca'.nodo = m /\ saca'.i = j /\ saca'.ultimo = u
          /\ cubetas' = cs /\ hash' = hash
      <3>1. /\ saca' = [saca EXCEPT !.vc = @ \cup Escrito(cantidad, 1),
                                   !.vt = @ \cup Escrito(ocupadas, dt)]
            /\ cubetas' = cs /\ hash' = hash
        BY <2>1, <2>2 DEF Sigue, Anota
      <3>2. saca \in [nodo : Nodos, i : 0..(max - 1), ultimo : BOOLEAN, vc : SUBSET Int, vt : SUBSET Int]
        BY <1>1, <2>1 DEF Inv, SacaBien
      <3> QED BY <2>3, <3>1, <3>2
    <2>5. /\ Sana(cubetas, hash, max) /\ j \in 0..(max - 1) /\ m \in Range(s)
          /\ s \in Seq(Nodos) /\ IsInjective(s)
      BY <1>1, <2>1, <2>3 DEF Inv, Tabla, SacaBien, EnCadena, Sana
    <2>6. /\ n \in Nodos /\ i \in 0..(max - 1) /\ i = pon.i
          /\ cs = [cubetas EXCEPT ![i] = Append(cubetas[i], n)]
          /\ pon.cola # Nulo => cubetas[i] # <<>> /\ Last(cubetas[i]) = pon.cola
          /\ pon.cola = Nulo => cubetas[i] = <<>>
          /\ pon.cola # m
      BY <1>1, <1>2, <2>1, <2>3, PonAlFinal DEF OrdenPon, Ligue, Inv, PonBien
    <2>7. Sana(cs, hash, max)
      BY <1>1, PonLiga DEF Ligado
    <2>8. PICK p : EsPrimero(s, p, hash) /\ s[p] = m
      BY <1>2, <2>1, <2>3 DEF OrdenSaca
    <2>9. cs[j] = IF j = i THEN Append(s, n) ELSE s
      BY <2>3, <2>5, <2>6 DEF Sana
    <2>10. EsPrimero(cs[j], p, hash) /\ cs[j][p] = m
      <3>1. p \in 1..Len(s) /\ Len(s) \in Nat /\ \A l \in 1..(p - 1) : l \in 1..Len(s)
        BY <2>5, <2>8 DEF EsPrimero
      <3>2. \A l \in 1..Len(s) : Append(s, n)[l] = s[l]
        BY <2>5, <2>6
      <3>3. p \in 1..Len(Append(s, n))
        BY <2>5, <2>6, <3>1
      <3> QED BY <2>8, <2>9, <3>1, <3>2, <3>3 DEF EsPrimero
    <2>11. u => Resto(m) = <<>>
      BY <1>2, <2>1, <2>3 DEF OrdenSaca
    <2>12. u => j # i
      <3> SUFFICES ASSUME u, j = i PROVE FALSE
        OBVIOUS
      <3>1. PICK q \in 1..Len(s) : s[q] = m /\ Resto(m) = SubSeq(s, q + 1, Len(s))
        BY <2>3, <2>5, RestoEs DEF EnCadena
      <3>2. q = Len(s)
        <4>1. s \in Seq(Nodos) /\ q \in 1..Len(s) /\ SubSeq(s, q + 1, Len(s)) = <<>>
          BY <2>5, <2>11, <3>1
        <4> QED BY ONLY <4>1
      <3>3. s # <<>> /\ Last(s) = m
        BY <2>5, <3>1, <3>2 DEF Last
      <3> QED BY <2>3, <2>6, <3>3
    <2>13. u => Resto(saca.nodo)' = <<>>
      <3> SUFFICES ASSUME u PROVE RestoEn(cs, m) = <<>>
        BY <2>4 DEF Resto, RestoEn
      <3>1. cs[j] = s /\ m \in Range(cs[j]) /\ j \in 0..(max - 1)
        BY <2>5, <2>9, <2>12
      <3>2. PICK x : Situado(cs[j], m, x, RestoEn(cs, m))
        BY <2>7, <3>1, RestoEnEs
      <3>3. PICK y \in 1..Len(s) : /\ s[y] = m /\ Donde(s, m) = y
                                  /\ Resto(m) = SubSeq(s, y + 1, Len(s))
        BY <2>3, <2>5, RestoEs DEF EnCadena
      <3> QED BY <2>11, <3>1, <3>2, <3>3 DEF Situado
    <2>14. hash[m] \in Claves
      BY <1>2, <2>1, <2>3 DEF OrdenSaca
    <2> QED BY <2>4, <2>10, <2>11, <2>13, <2>14 DEF OrdenSaca
  <1> QED BY <1>3, <1>4

\* SacaEscribe: the first under its key is taken.
LEMMA SacaSaca ==
  ASSUME Inv, Orden, SacaEscribe
  PROVE  Orden' /\ (cruces' \subseteq {"contador"} =>
                      Mapa!Saca(hash[saca.nodo], dato[saca.nodo]))
  <1>1. /\ TypeOK /\ Sana(cubetas, hash, max) /\ Definido /\ PonBien /\ SacaBien
        /\ saca # Nulo
    BY DEF Inv, SacaEscribe, Tabla
  <1>2. /\ cruces' = cruces /\ max' = max /\ saca' = Nulo
        /\ hash' = [hash EXCEPT ![saca.nodo] = 0] /\ dato' = [dato EXCEPT ![saca.nodo] = 0]
    BY DEF SacaEscribe
  <1>a. PICK C, T : pon' = Anota(pon, C, T)
    BY DEF SacaEscribe
  <1> SUFFICES ASSUME cruces \subseteq {"contador"}
               PROVE  OrdenPon' /\ OrdenSaca' /\ Mapa!Saca(hash[saca.nodo], dato[saca.nodo])
    BY <1>2 DEF Orden
  <1>3. OrdenPon /\ OrdenSaca
    BY DEF Orden
  <1>4. PICK n, i, s, c : n = saca.nodo /\ i = saca.i /\ s = cubetas[i] /\ c = Resto(n)
    OBVIOUS
  <1>5. /\ i \in 0..(max - 1) /\ n \in Nodos /\ n \in EnCadena(i) /\ n \in Range(s)
        /\ s \in Seq(Nodos) /\ IsInjective(s) /\ n \in Todos(cubetas, max)
    BY <1>1, <1>4 DEF SacaBien, EnCadena, Sana, Todos
  <1>6. PICK p : EsPrimero(s, p, hash) /\ s[p] = n
    BY <1>1, <1>3, <1>4 DEF OrdenSaca
  <1>7. hash[n] \in Claves /\ (saca.ultimo => c = <<>>)
    BY <1>1, <1>3, <1>4 DEF OrdenSaca
  <1>8. p \in 1..Len(s) /\ Donde(s, n) = p /\ c = SubSeq(s, p + 1, Len(s))
    <2>1. PICK q \in 1..Len(s) : /\ s[q] = n /\ Donde(s, n) = q
                                /\ c = SubSeq(s, q + 1, Len(s))
      BY <1>1, <1>4, <1>5, RestoEs
    <2>2. p \in 1..Len(s) /\ p \in DOMAIN s /\ q \in DOMAIN s
      BY <1>5, <1>6, <2>1 DEF EsPrimero
    <2>3. p = q
      BY <1>5, <1>6, <2>1, <2>2 DEF IsInjective
    <2> QED BY <2>1, <2>2, <2>3
  <1>9. PICK t : t = SubSeq(s, 1, p - 1) \o c
    OBVIOUS
  <1>10. cubetas' = [cubetas EXCEPT ![i] = t]
    <2>1. PICK r \in {c} \cup (IF saca.ultimo THEN {<<>>} ELSE {}) :
            cubetas' = [cubetas EXCEPT ![i] = SubSeq(s, 1, Donde(s, n) - 1) \o r]
      BY <1>4 DEF SacaEscribe
    <2>2. r = c
      BY <1>7, <2>1
    <2> QED BY <1>8, <1>9, <2>1, <2>2
  <1>11. Corte(t, s, p, c, c)
    BY <1>8, <1>9 DEF Corte
  <1>12. t \in Seq(Nodos) /\ Range(t) = Range(s) \ {n}
    <2>1. Desligada(t, s, s[p], Nodos) /\ (c = c => Range(t) = Range(s) \ {s[p]})
      BY <1>5, <1>8, <1>11, Desliga
    <2> QED BY <1>6, <2>1 DEF Desligada
  <1>13. \A x \in Nodos : x # n => hash'[x] = hash[x] /\ dato'[x] = dato[x]
    BY <1>1, <1>2, <1>4 DEF TypeOK
  <1>14. OrdenPon'
    <2> SUFFICES ASSUME pon' # Nulo PROVE OrdenPon'
      BY DEF OrdenPon
    <2>1. PICK q : q = pon
      OBVIOUS
    <2>2. /\ pon # Nulo
          /\ q \in [nodo : Nodos, i : 0..(max - 1), cola : Nodos \cup {Nulo}, vc : SUBSET Int, vt : SUBSET Int]
          /\ q.nodo \notin Todos(cubetas, max) /\ hash[q.nodo] \in Claves
          /\ q.cola # Nulo => cubetas[q.i] # <<>> /\ Last(cubetas[q.i]) = q.cola
          /\ q.cola # n
      BY <1>1, <1>2, <1>a, <1>3, <1>4, <2>1
         DEF Anota, PonBien, OrdenPon, Enlazados, EnCadena, Todos
    <2>3. pon'.nodo = q.nodo /\ pon'.i = q.i /\ pon'.cola = q.cola
      <3>1. pon' = [q EXCEPT !.vc = @ \cup C, !.vt = @ \cup T]
        BY <1>a, <2>1, <2>2 DEF Anota
      <3> QED BY <2>2, <3>1
    <2>4. hash'[q.nodo] = hash[q.nodo]
      BY <1>5, <1>13, <2>2
    <2>5. ASSUME q.cola # Nulo PROVE cubetas'[q.i] # <<>> /\ Last(cubetas'[q.i]) = q.cola
      <3>1. CASE q.i # i
        <4>1. cubetas'[q.i] = cubetas[q.i]
          BY <1>1, <1>10, <2>2, <3>1 DEF Sana
        <4> QED BY <2>2, <2>5, <4>1
      <3>2. CASE q.i = i
        <4>1. cubetas'[q.i] = t
          BY <1>1, <1>5, <1>10, <3>2 DEF Sana
        <4>2. s # <<>> /\ Last(s) = q.cola /\ q.cola # n
          BY <1>4, <2>2, <2>5, <3>2
        <4>3. t # <<>> /\ Last(t) = Last(s)
          <5>1. PICK l \in Nat : l = Len(s)
            BY <1>5
          <5>2. p \in 1..l /\ p # l /\ Last(s) = s[l]
            BY <1>6, <1>8, <4>2, <5>1 DEF Last
          <5>3. t = RemoveAt(s, p)
            BY <1>8, <1>9 DEF RemoveAt
          <5>4. t \in Seq(Nodos) /\ Quitado(t, s, p)
            BY <1>5, <1>8, <5>3, QuitaElementos
          <5>5. Len(t) = l - 1 /\ \A j \in p..(l - 1) : t[j] = s[j + 1]
            BY <5>1, <5>4 DEF Quitado
          <5>6. l - 1 \in p..(l - 1) /\ (l - 1) + 1 = l /\ l - 1 # 0
            BY <5>2
          <5>7. t[l - 1] = s[l]
            BY <5>5, <5>6
          <5> QED BY <5>2, <5>4, <5>5, <5>6, <5>7 DEF Last
        <4> QED BY <4>1, <4>2, <4>3
      <3> QED BY <3>1, <3>2
    <2> QED BY <1>2, <2>2, <2>3, <2>4, <2>5 DEF OrdenPon
  <1>15. OrdenSaca'
    BY <1>2 DEF OrdenSaca
  <1>16. ASSUME NEW k \in Claves
         PROVE  Tomado(Contenido[k], Vista(cubetas'[k % max'], k, hash', dato'), k, n, hash, dato)
    <2>1. PICK j, z : j = k % max /\ z = cubetas[j]
      OBVIOUS
    <2>2. j \in 0..(max - 1) /\ z \in Seq(Nodos)
      BY <1>1, <2>1, CadenaDe
    <2>3. Contenido[k] = Vista(z, k, hash, dato)
      BY <2>1, ContenidoEs
    <2>4. CASE j = i
      <3>1. cubetas'[k % max'] = t /\ z = s
        BY <1>1, <1>2, <1>4, <1>5, <1>10, <2>1, <2>4 DEF Sana
      <3>2. Vista(t, k, hash', dato') = Vista(t, k, hash, dato)
        <4>1. \A x \in Range(t) : hash'[x] = hash[x] /\ dato'[x] = dato[x]
          BY <1>12, <1>13 DEF Range
        <4> QED BY <1>12, <4>1, VistaIgual
      <3>3. Tomado(Vista(s, k, hash, dato), Vista(t, k, hash, dato), k, s[p], hash, dato)
        BY <1>5, <1>6, <1>11, VistaQuita
      <3> QED BY <1>6, <2>3, <3>1, <3>2, <3>3
    <2>5. CASE j # i
      <3>1. cubetas'[k % max'] = z
        BY <1>1, <1>2, <1>10, <2>1, <2>2, <2>5 DEF Sana
      <3>2. n \notin Range(z)
        BY <1>1, <1>4, <1>5, <2>1, <2>2, <2>5 DEF Sana
      <3>3. \A x \in Range(z) : hash'[x] = hash[x] /\ dato'[x] = dato[x]
        BY <1>13, <2>2, <3>2 DEF Range
      <3>4. Vista(z, k, hash', dato') = Vista(z, k, hash, dato)
        BY <2>2, <3>3, VistaIgual
      <3>5. hash[n] # k
        BY <1>1, <1>4, <1>5, <2>1, <2>5 DEF Sana
      <3> QED BY <2>3, <3>1, <3>4, <3>5 DEF Tomado
    <2> QED BY <2>4, <2>5
  <1>17. Mapa!Saca(hash[n], dato[n])
    <2>1. DOMAIN Contenido = Claves /\ Contenido = [k \in Claves |-> Contenido[k]]
      BY ContenidoEs
    <2>2. Contenido' = [k \in Claves |-> IF hash[n] = k THEN Tail(Contenido[k])
                                         ELSE Contenido[k]]
      BY <1>16, ContenidoLuego DEF Tomado
    <2>3. Contenido' = [Contenido EXCEPT ![hash[n]] = Tail(@)]
      BY <1>7, <2>1, <2>2
    <2>4. Contenido[hash[n]] # <<>> /\ dato[n] = Head(Contenido[hash[n]])
      BY <1>7, <1>16 DEF Tomado
    <2> QED BY <2>3, <2>4 DEF Mapa!Saca
  <1> QED BY <1>4, <1>14, <1>15, <1>17

LEMMA OrdenNada ==
  ASSUME Orden, UNCHANGED vars
  PROVE  Orden' /\ Contenido' = Contenido
  <1>1. /\ max' = max /\ cubetas' = cubetas /\ hash' = hash /\ dato' = dato
        /\ pon' = pon /\ saca' = saca /\ cruces' = cruces
    BY DEF vars, nodos
  <1>2. Contenido' = Contenido
    BY <1>1, ContenidoIgual
  <1>3. Resto(saca.nodo)' = Resto(saca.nodo)
    BY <1>1 DEF Resto
  <1>4. Orden'
    BY <1>1, <1>3 DEF Orden, OrdenPon, OrdenSaca
  <1> QED BY <1>2, <1>4

\* What a step does to the contents.
Promesa ==
  cruces' \subseteq {"contador"} =>
    /\ PonEscribe => Mapa!Pone(hash[pon.nodo], dato[pon.nodo])
    /\ SacaEscribe => Mapa!Saca(hash[saca.nodo], dato[saca.nodo])
    /\ Limpia => Mapa!Limpia
    /\ PonEscribe \/ SacaEscribe \/ Limpia \/ UNCHANGED Contenido

LEMMA Cumple ==
  ASSUME Inv, Orden, [Next]_vars
  PROVE  Orden' /\ [Promesa]_vars
  <1>1. ASSUME NEW h \in Claves, NEW d \in Datos, PonBusca(h, d)
        PROVE  Orden' /\ Contenido' = Contenido
    BY <1>1, OrdenPonBusca
  <1>2. ASSUME NEW h \in Claves, SacaBusca(h) PROVE Orden' /\ Contenido' = Contenido
    BY <1>2, OrdenSacaBusca
  <1>3. ASSUME PonEscribe
        PROVE  /\ Orden'
               /\ cruces' \subseteq {"contador"} => Mapa!Pone(hash[pon.nodo], dato[pon.nodo])
    BY <1>3, OrdenPonEscribe, PonPone
  <1>4. ASSUME SacaEscribe
        PROVE  /\ Orden'
               /\ cruces' \subseteq {"contador"} => Mapa!Saca(hash[saca.nodo], dato[saca.nodo])
    BY <1>4, SacaSaca
  <1>5. ASSUME Limpia PROVE Orden' /\ Mapa!Limpia
    BY <1>5, OrdenLimpia DEF Mapa!Limpia
  <1>6. ASSUME UNCHANGED vars PROVE Orden' /\ Contenido' = Contenido
    BY <1>6, OrdenNada
  <1>7. Next => PonEscribe \/ SacaEscribe \/ Limpia \/ UNCHANGED Contenido
    BY <1>1, <1>2 DEF Next
  <1>8. Next => Promesa
    BY <1>3, <1>4, <1>5, <1>7 DEF Promesa
  <1> QED BY <1>1, <1>2, <1>3, <1>4, <1>5, <1>6, <1>8 DEF Next

\* The dictionary is the map with repetitions its users take it for: a put goes
\* last under its key, a remove takes the first, and growing the table changes
\* nothing, until a put links its element to the one being removed or makes the
\* table grow under a remove.
THEOREM Mapeo == Spec => ImplementaMapa
  <1>1. Init => Mapa!Init
    <2> SUFFICES ASSUME Init PROVE Mapa!Init
      OBVIOUS
    <2>1. TypeOK /\ Sana(cubetas, hash, max)
      BY InicioInv DEF Inv, Tabla
    <2>2. cubetas = [i \in 0..(max - 1) |-> <<>>]
      BY DEF Init
    <2>3. ASSUME NEW k \in Claves PROVE Vista(cubetas[k % max], k, hash, dato) = <<>>
      <3>1. cubetas[k % max] = <<>>
        BY <2>1, <2>2, CadenaDe
      <3>2. Filtra(<<>>, DeHash(hash, k)) = <<>>
        BY FiltraVacio
      <3>3. DatosDe(<<>>, dato) = <<>>
        BY DEF DatosDe
      <3> QED BY <3>1, <3>2, <3>3 DEF Vista
    <2> QED BY <2>3, ContenidoEs DEF Mapa!Init
  <1>2. Inv /\ Orden /\ [Next]_vars => Orden' /\ [Promesa]_vars
    BY Cumple
  <1> QED BY <1>1, <1>2, OrdenInicio, Invariante, PTL DEF Spec, ImplementaMapa, Promesa

-----------------------------------------------------------------------------
(* The counters while two threads meet.                                      *)

Cerca(z, e) == -e <= z /\ z <= e

\* A counter x of n things is off by e at most, whatever the operations under way
\* do to it: vp and vs are the old values the put and the remove may have read.
Acotado(x, n, vp, vs, e) ==
  /\ Cerca(x - n, e)
  /\ vp # {} => Cerca(x - n - 1, e)
  /\ vs # {} => Cerca(x - n + 1, e)
  /\ \A v \in vp \cup vs : Cerca(v - n, e)

\* With more meetings, as much is true.
LEMMA MasLejos ==
  ASSUME NEW x \in Int, NEW n \in Int, NEW vp \in SUBSET Int, NEW vs \in SUBSET Int,
         NEW e \in Int, NEW f \in Int, e <= f, Acotado(x, n, vp, vs, e)
  PROVE  Acotado(x, n, vp, vs, f) /\ Acotado(x, n, {}, vs, f) /\ Acotado(x, n, vp, {}, f)
  <1>1. \A z \in Int : Cerca(z, e) => Cerca(z, f)
    BY DEF Cerca
  <1>2. x - n \in Int /\ x - n - 1 \in Int /\ x - n + 1 \in Int
        /\ \A v \in vp \cup vs : v - n \in Int
    OBVIOUS
  <1> QED BY <1>1, <1>2 DEF Acotado

\* The end of a put.
LEMMA Sube ==
  ASSUME NEW x \in Int, NEW n \in Int, NEW vp \in SUBSET Int, NEW vs \in SUBSET Int,
         NEW e \in Int, Acotado(x, n, vp, vs, e), NEW y \in Suma(x, 1, vp)
  PROVE  /\ y \in Int /\ Acotado(y, n + 1, {}, {}, e)
         /\ Acotado(y, n + 1, {}, vs \cup {x}, e + 1)
  <1>1. y \in Int /\ Cerca(y - (n + 1), e)
    <2>1. CASE \E v \in vp \cup {x} : y = v + 1
      <3>1. PICK v \in vp \cup {x} : y = v + 1
        BY <2>1
      <3>2. v \in Int /\ Cerca(v - n, e)
        BY DEF Acotado
      <3> QED BY <3>1, <3>2 DEF Cerca
    <2>2. CASE vp # {} /\ y = x
      <3>1. Cerca(x - n - 1, e)
        BY <2>2 DEF Acotado
      <3> QED BY <2>2, <3>1 DEF Cerca
    <2> QED BY <2>1, <2>2 DEF Suma
  <1>2. ASSUME NEW v \in vs \cup {x} PROVE Cerca(v - (n + 1), e + 1)
    <2>1. v \in Int /\ Cerca(v - n, e)
      BY DEF Acotado
    <2> QED BY <2>1 DEF Cerca
  <1>3. Cerca(y - (n + 1), e + 1) /\ Cerca(y - (n + 1) + 1, e + 1)
    BY <1>1 DEF Cerca
  <1> QED BY <1>1, <1>2, <1>3 DEF Acotado

\* The end of a remove.
LEMMA Baja ==
  ASSUME NEW x \in Int, NEW n \in Int, NEW vp \in SUBSET Int, NEW vs \in SUBSET Int,
         NEW e \in Int, Acotado(x, n, vp, vs, e), NEW y \in Suma(x, -1, vs)
  PROVE  /\ y \in Int /\ Acotado(y, n - 1, {}, {}, e)
         /\ Acotado(y, n - 1, vp \cup {x}, {}, e + 1)
  <1>1. y \in Int /\ Cerca(y - (n - 1), e)
    <2>1. CASE \E v \in vs \cup {x} : y = v + (-1)
      <3>1. PICK v \in vs \cup {x} : y = v + (-1)
        BY <2>1
      <3>2. v \in Int /\ Cerca(v - n, e)
        BY DEF Acotado
      <3> QED BY <3>1, <3>2 DEF Cerca
    <2>2. CASE vs # {} /\ y = x
      <3>1. Cerca(x - n + 1, e)
        BY <2>2 DEF Acotado
      <3> QED BY <2>2, <3>1 DEF Cerca
    <2> QED BY <2>1, <2>2 DEF Suma
  <1>2. ASSUME NEW v \in vp \cup {x} PROVE Cerca(v - (n - 1), e + 1)
    <2>1. v \in Int /\ Cerca(v - n, e)
      BY DEF Acotado
    <2> QED BY <2>1 DEF Cerca
  <1>3. Cerca(y - (n - 1), e + 1) /\ Cerca(y - (n - 1) - 1, e + 1)
    BY <1>1 DEF Cerca
  <1> QED BY <1>1, <1>2, <1>3 DEF Acotado

\* The old values an operation under way may have read.
LeidosC(op) == IF op = Nulo THEN {} ELSE op.vc
LeidosT(op) == IF op = Nulo THEN {} ELSE op.vt

\* A meeting spoils nothing before one of the two ends.
Margen == encuentros - (IF pon = Nulo \/ saca = Nulo THEN 0 ELSE 1)

Cotas ==
  cruces \subseteq {"contador"} =>
    /\ Acotado(ocupadas, Cardinality(Usadas), LeidosT(pon), LeidosT(saca), Margen)
    /\ nulos = 0 =>
         Acotado(cantidad, Cardinality(Todos(cubetas, max)), LeidosC(pon), LeidosC(saca), Margen)

\* What the lemmas need to know of the numbers.
LEMMA Contables ==
  ASSUME Inv
  PROVE  /\ IsFiniteSet(Usadas) /\ Cardinality(Usadas) \in Nat
         /\ IsFiniteSet(Todos(cubetas, max)) /\ Cardinality(Todos(cubetas, max)) \in Nat
         /\ ocupadas \in Int /\ cantidad \in Int /\ nulos \in Nat
         /\ encuentros \in Nat /\ Margen \in Int
         /\ Definido => /\ LeidosC(pon) \in SUBSET Int /\ LeidosT(pon) \in SUBSET Int
                        /\ LeidosC(saca) \in SUBSET Int /\ LeidosT(saca) \in SUBSET Int
  <1>1. TypeOK /\ Sana(cubetas, hash, max) /\ max \in Nat \ {0}
    BY MaxNatural DEF Inv, Tabla
  <1>2. IsFiniteSet(0..(max - 1)) /\ Usadas \subseteq 0..(max - 1)
    BY <1>1, FS_Interval DEF Usadas, Llenas
  <1>3. IsFiniteSet(Usadas) /\ Cardinality(Usadas) \in Nat
    BY <1>2, FS_Subset, FS_CardinalityType
  <1>4. IsFiniteSet(Todos(cubetas, max)) /\ Cardinality(Todos(cubetas, max)) \in Nat
    BY <1>1, TodosFinito, FS_CardinalityType
  <1>5. ocupadas \in Int /\ cantidad \in Int /\ nulos \in Nat /\ encuentros \in Nat
    BY <1>1, DiccionarioAssumption DEF TypeOK
  <1>6. Margen \in Int
    BY <1>5 DEF Margen
  <1>7. Definido => /\ LeidosC(pon) \in SUBSET Int /\ LeidosT(pon) \in SUBSET Int
                    /\ LeidosC(saca) \in SUBSET Int /\ LeidosT(saca) \in SUBSET Int
    BY DEF Inv, PonBien, SacaBien, LeidosC, LeidosT
  <1> QED BY <1>3, <1>4, <1>5, <1>6, <1>7

LEMMA CotasInicio == Init => Cotas
  <1> SUFFICES ASSUME Init PROVE Cotas
    OBVIOUS
  <1>1. /\ ocupadas = 0 /\ cantidad = 0 /\ pon = Nulo /\ saca = Nulo /\ encuentros = 0
        /\ cruces = {} /\ nulos = 0 /\ Inv
    BY InicioInv DEF Init
  <1>2. Cardinality(Usadas) = 0 /\ Cardinality(Todos(cubetas, max)) = 0
    BY <1>1, Contables DEF Inv, Exactas, Usadas, Llenas, Todos, Enlazados, EnCadena
  <1> QED BY <1>1, <1>2 DEF Cotas, Acotado, Cerca, LeidosC, LeidosT, Margen

\* The same numbers, with no fewer meetings.
LEMMA CotasIguales ==
  ASSUME Inv, Cotas, Definido, cruces \subseteq cruces',
         UNCHANGED <<max, ocupadas, cantidad, cubetas, nulos>>,
         LeidosC(pon)' = LeidosC(pon), LeidosT(pon)' = LeidosT(pon),
         LeidosC(saca)' = LeidosC(saca), LeidosT(saca)' = LeidosT(saca),
         Margen' \in Int, Margen <= Margen'
  PROVE  Cotas'
  <1> SUFFICES ASSUME cruces' \subseteq {"contador"}
      PROVE  /\ Acotado(ocupadas, Cardinality(Usadas), LeidosT(pon), LeidosT(saca), Margen')
             /\ nulos = 0 => Acotado(cantidad, Cardinality(Todos(cubetas, max)),
                                     LeidosC(pon), LeidosC(saca), Margen')
    BY DEF Cotas, Usadas
  <1>1. /\ Acotado(ocupadas, Cardinality(Usadas), LeidosT(pon), LeidosT(saca), Margen)
        /\ nulos = 0 => Acotado(cantidad, Cardinality(Todos(cubetas, max)),
                                LeidosC(pon), LeidosC(saca), Margen)
    BY DEF Cotas
  <1>2. /\ Cardinality(Usadas) \in Int /\ Cardinality(Todos(cubetas, max)) \in Int
        /\ ocupadas \in Int /\ cantidad \in Int /\ Margen \in Int
        /\ LeidosC(pon) \in SUBSET Int /\ LeidosT(pon) \in SUBSET Int
        /\ LeidosC(saca) \in SUBSET Int /\ LeidosT(saca) \in SUBSET Int
    BY Contables
  <1> QED BY <1>1, <1>2, MasLejos

\* The searches write nothing.
LEMMA CotasPonBusca ==
  ASSUME Inv, Cotas, NEW h \in Claves, NEW d \in Datos, PonBusca(h, d)
  PROVE  Cotas'
  <1>1. /\ Definido /\ pon = Nulo /\ Empieza(saca) /\ cruces \subseteq cruces'
        /\ UNCHANGED <<max, ocupadas, cantidad, cubetas, saca, nulos>>
    BY DEF PonBusca
  <1>2. PICK n \in Nodos \ EnUso :
          pon' = [nodo |-> n, i |-> h % max,
                  cola |-> IF cubetas[h % max] = <<>> THEN Nulo ELSE Last(cubetas[h % max]),
                  vc |-> {}, vt |-> {}]
    BY DEF PonBusca
  <1>3. encuentros \in Nat /\ encuentros' = IF saca = Nulo THEN encuentros ELSE encuentros + 1
    BY <1>1, Contables DEF Empieza
  <1>4. Margen' \in Int /\ Margen <= Margen'
    BY <1>1, <1>3 DEF Margen
  <1> QED BY <1>1, <1>2, <1>4, CotasIguales DEF LeidosC, LeidosT

LEMMA CotasSacaBusca ==
  ASSUME Inv, Cotas, NEW h \in Claves, SacaBusca(h)
  PROVE  Cotas'
  <1>1. /\ Definido /\ saca = Nulo /\ Empieza(pon) /\ cruces \subseteq cruces'
        /\ UNCHANGED <<max, ocupadas, cantidad, cubetas, pon, nulos>>
    BY DEF SacaBusca
  <1>2. PICK n, i, u :
          saca' = [nodo |-> n, i |-> i, ultimo |-> u, vc |-> {}, vt |-> {}]
    BY DEF SacaBusca
  <1>3. encuentros \in Nat /\ encuentros' = IF pon = Nulo THEN encuentros ELSE encuentros + 1
    BY <1>1, Contables DEF Empieza
  <1>4. Margen' \in Int /\ Margen <= Margen'
    BY <1>1, <1>3 DEF Margen
  <1> QED BY <1>1, <1>2, <1>4, CotasIguales DEF LeidosC, LeidosT

\* An empty table.
LEMMA CotasLimpia ==
  ASSUME Inv, Limpia
  PROVE  Cotas'
  <1>1. /\ Inv' /\ ocupadas' = 0 /\ cantidad' = 0 /\ pon' = Nulo /\ saca' = Nulo
        /\ encuentros' = encuentros /\ encuentros \in Nat
        /\ max' = max /\ cubetas' = [i \in 0..(max - 1) |-> <<>>]
    BY PasoLimpia, Contables DEF Limpia
  <1>2. Usadas' = {} /\ Todos(cubetas', max') = {}
    <2>1. Range(<<>>) = {}
      BY DEF Range
    <2> QED BY <1>1, <2>1 DEF Usadas, Llenas, Todos
  <1>3. Cardinality(Usadas') = 0 /\ Cardinality(Todos(cubetas', max')) = 0
    BY <1>2, FS_EmptySet
  <1>4. \A e \in Nat : Acotado(0, 0, {}, {}, e)
    BY DEF Acotado, Cerca
  <1> QED BY <1>1, <1>3, <1>4 DEF Cotas, LeidosC, LeidosT, Margen

\* Who is under way has one more value it may have read.
LEMMA AnotaPon ==
  ASSUME NEW C, NEW T, NEW q, Nulo # Anota(q, C, T),
         q # Nulo => q \in [nodo : Nodos, i : 0..(max - 1), cola : Nodos \cup {Nulo},
                            vc : SUBSET Int, vt : SUBSET Int]
  PROVE  /\ q # Nulo
         /\ LeidosC(Anota(q, C, T)) = LeidosC(q) \cup C
         /\ LeidosT(Anota(q, C, T)) = LeidosT(q) \cup T
  <1>1. q # Nulo /\ Anota(q, C, T) = [q EXCEPT !.vc = @ \cup C, !.vt = @ \cup T]
    BY DEF Anota
  <1>2. Anota(q, C, T) = [nodo |-> q.nodo, i |-> q.i, cola |-> q.cola,
                          vc |-> q.vc \cup C, vt |-> q.vt \cup T]
    BY <1>1
  <1>3. Anota(q, C, T).vc = q.vc \cup C /\ Anota(q, C, T).vt = q.vt \cup T
    BY <1>2
  <1> QED BY <1>1, <1>3 DEF LeidosC, LeidosT

LEMMA AnotaSaca ==
  ASSUME NEW C, NEW T, NEW q, Nulo # Anota(q, C, T),
         q # Nulo => q \in [nodo : Nodos, i : 0..(max - 1), ultimo : BOOLEAN,
                            vc : SUBSET Int, vt : SUBSET Int]
  PROVE  /\ q # Nulo
         /\ LeidosC(Anota(q, C, T)) = LeidosC(q) \cup C
         /\ LeidosT(Anota(q, C, T)) = LeidosT(q) \cup T
  <1>1. q # Nulo /\ Anota(q, C, T) = [q EXCEPT !.vc = @ \cup C, !.vt = @ \cup T]
    BY DEF Anota
  <1>2. Anota(q, C, T) = [nodo |-> q.nodo, i |-> q.i, ultimo |-> q.ultimo,
                          vc |-> q.vc \cup C, vt |-> q.vt \cup T]
    BY <1>1
  <1>3. Anota(q, C, T).vc = q.vc \cup C /\ Anota(q, C, T).vt = q.vt \cup T
    BY <1>2
  <1> QED BY <1>1, <1>3 DEF LeidosC, LeidosT

\* The put counts its element, whether or not the remove goes on.
LEMMA CotasPonEscribe ==
  ASSUME Inv, Orden, Cotas, PonEscribe
  PROVE  Cotas'
  <1>1. PICK n, i, cs, dt, t, c :
          /\ Definido /\ pon # Nulo /\ Ligue(n, i, cs) /\ Contado(dt, t, c)
          /\ IF dt = 1 /\ t >= max THEN Agranda(cs, dt, c) ELSE Sigue(cs, dt, t, c)
    BY PonPasos
  <1> SUFFICES ASSUME cruces' \subseteq {"contador"}
      PROVE  /\ Acotado(ocupadas', Cardinality(Usadas'), LeidosT(pon'), LeidosT(saca'), Margen')
             /\ nulos' = 0 => Acotado(cantidad', Cardinality(Todos(cubetas', max')),
                                      LeidosC(pon'), LeidosC(saca'), Margen')
    BY DEF Cotas, LeidosC, LeidosT
  <1>2. cruces \subseteq cruces'
    BY <1>1 DEF Sigue, Agranda
  <1>3. PICK N, K, e, PT, PC, ST, SC :
          /\ N = Cardinality(Usadas) /\ K = Cardinality(Todos(cubetas, max)) /\ e = Margen
          /\ PT = LeidosT(pon) /\ PC = LeidosC(pon) /\ ST = LeidosT(saca) /\ SC = LeidosC(saca)
    OBVIOUS
  <1>4. /\ N \in Nat /\ K \in Nat /\ e \in Int /\ ocupadas \in Int /\ cantidad \in Int
        /\ PT \in SUBSET Int /\ PC \in SUBSET Int /\ ST \in SUBSET Int /\ SC \in SUBSET Int
        /\ IsFiniteSet(Usadas) /\ IsFiniteSet(Todos(cubetas, max)) /\ encuentros \in Nat
    BY <1>1, <1>3, Contables
  <1>5. /\ Acotado(ocupadas, N, PT, ST, e)
        /\ nulos = 0 => Acotado(cantidad, K, PC, SC, e)
        /\ OrdenPon
    BY <1>2, <1>3 DEF Cotas, Orden
  <1>6. /\ dt = IF pon.cola = Nulo THEN 1 ELSE 0
        /\ t \in Suma(ocupadas, dt, PT) /\ c \in Suma(cantidad, 1, PC)
    BY <1>1, <1>3 DEF Contado, LeidosC, LeidosT
  <1>7. Ligado(n, i, cs)
    BY <1>1, PonLiga
  <1>8. pon.cola = Nulo \/ pon.cola \in EnCadena(i)
    <2> SUFFICES ASSUME pon.cola # Nulo PROVE pon.cola \in EnCadena(i)
      OBVIOUS
    <2>1. cubetas[i] # <<>> /\ Last(cubetas[i]) = pon.cola /\ cubetas[i] \in Seq(Nodos)
      BY <1>1, <1>5, <1>7 DEF OrdenPon, Ligue, Ligado, Inv, Tabla, Sana
    <2>2. Len(cubetas[i]) \in DOMAIN cubetas[i]
      BY <2>1
    <2> QED BY <2>1, <2>2 DEF Last, EnCadena, Range
  <1>9. Cardinality(Todos(cs, max)) = K + 1
    <2>1. Todos(cs, max) = Todos(cubetas, max) \cup {n} /\ n \notin Todos(cubetas, max)
      BY <1>7, <1>8 DEF Ligado
    <2> QED BY <1>3, <1>4, <2>1, FS_AddElement
  <1>10. Cardinality(Llenas(cs, max)) = N + dt
    <2>1. CASE pon.cola = Nulo
      <3>1. Llenas(cs, max) = Usadas \cup {i} /\ i \notin Usadas
        BY <1>7, <2>1 DEF Ligado
      <3> QED BY <1>3, <1>4, <1>6, <2>1, <3>1, FS_AddElement
    <2>2. CASE pon.cola # Nulo
      <3>1. Llenas(cs, max) = Usadas
        BY <1>7, <2>2 DEF Ligado
      <3> QED BY <1>3, <1>4, <1>6, <2>2, <3>1
    <2> QED BY <2>1, <2>2
  <1>11. nulos = 0 => /\ c \in Int /\ Acotado(c, K + 1, {}, {}, e)
                      /\ Acotado(c, K + 1, {}, SC \cup {cantidad}, e + 1)
    BY <1>4, <1>5, <1>6, Sube
  <1>12. /\ t \in Int /\ Acotado(t, N + dt, {}, {}, e)
         /\ Acotado(t, N + dt, {}, ST \cup Escrito(ocupadas, dt), e + 1)
    <2>1. CASE dt = 1
      <3>1. t \in Suma(ocupadas, 1, PT) /\ Escrito(ocupadas, dt) = {ocupadas}
        BY <1>6, <2>1 DEF Escrito
      <3> QED BY <1>4, <1>5, <2>1, <3>1, Sube
    <2>2. CASE dt = 0
      <3>1. t = ocupadas /\ ST \cup Escrito(ocupadas, dt) = ST /\ N + dt = N
        BY <1>4, <1>6, <2>2 DEF Escrito, Suma
      <3>2. e <= e /\ e <= e + 1 /\ e + 1 \in Int /\ {} \in SUBSET Int
        BY <1>4
      <3>3. Acotado(ocupadas, N, {}, ST, e) /\ Acotado(ocupadas, N, {}, ST, e + 1)
        BY <1>4, <1>5, <3>2, MasLejos
      <3>4. Acotado(ocupadas, N, {}, {}, e)
        BY <1>4, <3>2, <3>3, MasLejos
      <3> QED BY <1>4, <3>1, <3>3, <3>4
    <2> QED BY <1>6, <2>1, <2>2
  <1>13. CASE Sigue(cs, dt, t, c)
    <2>1. /\ ocupadas' = t /\ cantidad' = c /\ max' = max /\ cubetas' = cs /\ nulos' = nulos
          /\ pon' = Nulo /\ encuentros' = encuentros
          /\ saca' = Anota(saca, Escrito(cantidad, 1), Escrito(ocupadas, dt))
          /\ Usadas' = Llenas(cs, max)
      BY <1>13 DEF Sigue, Usadas
    <2>2. LeidosT(pon') = {} /\ LeidosC(pon') = {} /\ Margen' = encuentros
      BY <1>4, <2>1 DEF LeidosT, LeidosC, Margen
    <2>3. CASE saca' = Nulo
      <3>1. LeidosT(saca') = {} /\ LeidosC(saca') = {} /\ e <= encuentros
        BY <1>3, <1>4, <2>3 DEF LeidosT, LeidosC, Margen
      <3>2. /\ Acotado(t, N + dt, {}, {}, encuentros)
            /\ nulos = 0 => Acotado(c, K + 1, {}, {}, encuentros)
        <4>1. {} \in SUBSET Int /\ N + dt \in Int /\ K + 1 \in Int
          BY <1>4, <1>6
        <4> QED BY <1>4, <1>11, <1>12, <3>1, <4>1, MasLejos
      <3> QED BY <1>9, <1>10, <2>1, <2>2, <3>1, <3>2
    <2>4. CASE saca' # Nulo
      <3>1. saca # Nulo => saca \in [nodo : Nodos, i : 0..(max - 1), ultimo : BOOLEAN,
                                     vc : SUBSET Int, vt : SUBSET Int]
        BY <1>1 DEF Inv, SacaBien
      <3>2. PICK q, C, T : q = saca /\ C = Escrito(cantidad, 1) /\ T = Escrito(ocupadas, dt)
        OBVIOUS
      <3>3. Nulo # Anota(q, C, T) /\ saca' = Anota(q, C, T)
        BY <2>1, <2>4, <3>2
      <3>4. /\ q # Nulo /\ LeidosC(saca') = LeidosC(q) \cup C
            /\ LeidosT(saca') = LeidosT(q) \cup T
        BY <3>1, <3>2, <3>3, AnotaSaca
      <3>5. /\ LeidosC(saca') = SC \cup {cantidad} /\ e + 1 = encuentros
            /\ LeidosT(saca') = ST \cup Escrito(ocupadas, dt)
        BY <1>1, <1>3, <1>4, <3>2, <3>4 DEF Escrito, Margen
      <3> QED BY <1>9, <1>10, <1>11, <1>12, <2>1, <2>2, <3>5
    <2> QED BY <2>3, <2>4
  <1>14. CASE Agranda(cs, dt, c)
    <2>1. /\ cantidad' = c /\ nulos' = nulos /\ pon' = Nulo /\ encuentros' = encuentros
          /\ max' = max * 2 /\ cubetas' = Mudanza(cs, max, max * 2)
          /\ ocupadas' = Ocupadas(cubetas')
      BY <1>14 DEF Agranda
    <2>2. saca = Nulo /\ saca' = Nulo
      BY <1>14 DEF Agranda, Anota
    <2>3. /\ LeidosT(pon') = {} /\ LeidosC(pon') = {} /\ LeidosT(saca') = {}
          /\ LeidosC(saca') = {} /\ Margen' = encuentros /\ e = encuentros
      BY <1>3, <1>4, <2>1, <2>2 DEF LeidosT, LeidosC, Margen
    <2>4. Sana(cubetas', hash, max') /\ Todos(cubetas', max') = Todos(cs, max)
      BY <1>7, <2>1, MudaTodos DEF Ligado, Inv
    <2>5. ocupadas' = Cardinality(Usadas') /\ Cardinality(Usadas') \in Nat
      <3>1. DOMAIN cubetas' = 0..(max' - 1)
        BY <2>4 DEF Sana
      <3>2. Ocupadas(cubetas') = Cardinality(Usadas')
        BY <3>1 DEF Ocupadas, Usadas, Llenas
      <3>3. Inv'
        BY PasoPonEscribe
      <3>4. Cardinality(Usadas') \in Nat
        <4>1. max' \in Nat \ {0}
          BY <1>14, <2>1, MaxNatural DEF Inv
        <4>2. \A u, m : Llenas(u, m) \subseteq 0..(m - 1)
          BY DEF Llenas
        <4>3. Usadas' = Llenas(cubetas', max')
          BY DEF Usadas
        <4>4. IsFiniteSet(0..(max' - 1))
          BY <4>1, FS_Interval
        <4>5. IsFiniteSet(0..(max' - 1)) /\ Usadas' \subseteq 0..(max' - 1)
          BY <4>2, <4>3, <4>4
        <4> QED BY <4>5, FS_Subset, FS_CardinalityType
      <3> QED BY <2>1, <3>2, <3>4
    <2>6. \A x \in Nat, z \in Nat : Acotado(x, x, {}, {}, z)
      BY DEF Acotado, Cerca
    <2> QED BY <1>4, <1>9, <1>11, <2>1, <2>3, <2>4, <2>5, <2>6
  <1> QED BY <1>1, <1>13, <1>14

\* The remove takes its element back, unless its data is NULL, whether or not the
\* put goes on.
LEMMA CotasSacaEscribe ==
  ASSUME Inv, Orden, Cotas, SacaEscribe
  PROVE  Cotas'
  <1>1. /\ TypeOK /\ Definido /\ saca # Nulo /\ cruces' = cruces /\ max' = max
        /\ saca' = Nulo /\ encuentros' = encuentros
    BY DEF SacaEscribe, Inv
  <1> SUFFICES ASSUME cruces \subseteq {"contador"}
      PROVE  /\ Acotado(ocupadas', Cardinality(Usadas'), LeidosT(pon'), LeidosT(saca'), Margen')
             /\ nulos' = 0 => Acotado(cantidad', Cardinality(Todos(cubetas', max')),
                                      LeidosC(pon'), LeidosC(saca'), Margen')
    BY <1>1 DEF Cotas, LeidosC, LeidosT
  <1>2. PICK n, i, s, c, a : n = saca.nodo /\ i = saca.i /\ s = cubetas[i] /\ c = Resto(n)
                             /\ a = SubSeq(s, 1, Donde(s, n) - 1)
    OBVIOUS
  <1>3. PICK r \in {c} \cup (IF saca.ultimo THEN {<<>>} ELSE {}) :
          /\ cubetas' = [cubetas EXCEPT ![i] = a \o r]
          /\ ocupadas' \in Suma(ocupadas, IF a \o r = <<>> THEN -1 ELSE 0, saca.vt)
          /\ cantidad' \in Suma(cantidad, IF dato[n] = 0 THEN 0 ELSE -1, saca.vc)
          /\ pon' = Anota(pon, Escrito(cantidad, IF dato[n] = 0 THEN 0 ELSE -1),
                          Escrito(ocupadas, IF a \o r = <<>> THEN -1 ELSE 0))
          /\ nulos' = IF dato[n] = 0 THEN nulos + 1 ELSE nulos
    BY <1>2 DEF SacaEscribe
  <1>4. PICK N, K, e, PT, PC, ST, SC :
          /\ N = Cardinality(Usadas) /\ K = Cardinality(Todos(cubetas, max)) /\ e = Margen
          /\ PT = LeidosT(pon) /\ PC = LeidosC(pon) /\ ST = LeidosT(saca) /\ SC = LeidosC(saca)
    OBVIOUS
  <1>5. /\ N \in Nat /\ K \in Nat /\ e \in Int /\ ocupadas \in Int /\ cantidad \in Int
        /\ PT \in SUBSET Int /\ PC \in SUBSET Int /\ ST \in SUBSET Int /\ SC \in SUBSET Int
        /\ IsFiniteSet(Usadas) /\ IsFiniteSet(Todos(cubetas, max)) /\ encuentros \in Nat
        /\ nulos \in Nat
    BY <1>1, <1>4, Contables
  <1>6. /\ Acotado(ocupadas, N, PT, ST, e)
        /\ nulos = 0 => Acotado(cantidad, K, PC, SC, e)
        /\ OrdenSaca
    BY <1>4 DEF Cotas, Orden
  <1>7. r = c
    BY <1>1, <1>2, <1>3, <1>6 DEF OrdenSaca
  <1>8. PICK t, d, u : /\ t = a \o r /\ d = [cubetas EXCEPT ![i] = t]
                       /\ u = IF t = <<>> THEN -1 ELSE 0
    OBVIOUS
  <1>9. Desligado(n, i, s, c, r, t, d)
    <2>1. Desligue(n, i, s, c, r, t, d)
      BY <1>2, <1>7, <1>8 DEF Desligue
    <2> QED BY <1>1, <2>1, SacaDesliga
  <1>10. Cardinality(Todos(d, max)) = K - 1
    <2>1. Todos(d, max) = Todos(cubetas, max) \ {n} /\ n \in Todos(cubetas, max)
      BY <1>7, <1>9 DEF Desligado
    <2> QED BY <1>4, <1>5, <2>1, FS_RemoveElement
  <1>11. Cardinality(Llenas(d, max)) = N + u
    <2>1. i \in Usadas
      BY <1>2, <1>9 DEF Desligado, Usadas, Llenas
    <2>2. Llenas(d, max) = IF t = <<>> THEN Usadas \ {i} ELSE Usadas
      BY <1>9, <2>1 DEF Desligado, Cambiada, Usadas
    <2>3. Cardinality(Usadas \ {i}) = N - 1
      BY <1>4, <1>5, <2>1, FS_RemoveElement
    <2>4. CASE t = <<>>
      BY <1>5, <1>8, <2>2, <2>3, <2>4
    <2>5. CASE t # <<>>
      BY <1>4, <1>5, <1>8, <2>2, <2>5
    <2> QED BY <2>4, <2>5
  <1>12. nulos' = 0 => /\ dato[n] # 0 /\ nulos = 0
                       /\ cantidad' \in Int /\ Acotado(cantidad', K - 1, {}, {}, e)
                       /\ Acotado(cantidad', K - 1, PC \cup {cantidad}, {}, e + 1)
    <2> SUFFICES ASSUME nulos' = 0
                 PROVE  /\ dato[n] # 0 /\ nulos = 0
                        /\ cantidad' \in Int /\ Acotado(cantidad', K - 1, {}, {}, e)
                        /\ Acotado(cantidad', K - 1, PC \cup {cantidad}, {}, e + 1)
      OBVIOUS
    <2>1. dato[n] # 0 /\ nulos = 0
      BY <1>3, <1>5
    <2>2. cantidad' \in Suma(cantidad, -1, SC)
      BY <1>1, <1>3, <1>4, <2>1 DEF LeidosC
    <2> QED BY <1>5, <1>6, <2>1, <2>2, Baja
  <1>13. /\ ocupadas' \in Int /\ Acotado(ocupadas', N + u, {}, {}, e)
         /\ Acotado(ocupadas', N + u, PT \cup Escrito(ocupadas, u), {}, e + 1)
    <2>0. ocupadas' \in Suma(ocupadas, u, ST)
      BY <1>1, <1>3, <1>4, <1>8 DEF LeidosT
    <2>1. CASE t = <<>>
      <3>1. ocupadas' \in Suma(ocupadas, -1, ST) /\ Escrito(ocupadas, u) = {ocupadas}
        BY <1>8, <2>0, <2>1 DEF Escrito
      <3>2. N + u = N - 1
        BY <1>5, <1>8, <2>1
      <3> QED BY <1>5, <1>6, <3>1, <3>2, Baja
    <2>2. CASE t # <<>>
      <3>1. ocupadas' = ocupadas /\ PT \cup Escrito(ocupadas, u) = PT /\ N + u = N
        BY <1>5, <1>8, <2>0, <2>2 DEF Escrito, Suma
      <3>2. e <= e /\ e <= e + 1 /\ e + 1 \in Int /\ {} \in SUBSET Int
        BY <1>5
      <3>3. Acotado(ocupadas, N, PT, {}, e) /\ Acotado(ocupadas, N, PT, {}, e + 1)
        BY <1>5, <1>6, <3>2, MasLejos
      <3>4. Acotado(ocupadas, N, {}, {}, e)
        BY <1>5, <3>2, <3>3, MasLejos
      <3> QED BY <1>5, <3>1, <3>3, <3>4
    <2> QED BY <2>1, <2>2
  <1>14. cubetas' = d /\ Usadas' = Llenas(d, max)
    BY <1>1, <1>3, <1>8 DEF Usadas
  <1>15. LeidosT(saca') = {} /\ LeidosC(saca') = {} /\ Margen' = encuentros
    BY <1>1, <1>5 DEF LeidosT, LeidosC, Margen
  <1>16. CASE pon' = Nulo
    <2>1. LeidosT(pon') = {} /\ LeidosC(pon') = {} /\ e <= encuentros
      BY <1>4, <1>5, <1>16 DEF LeidosT, LeidosC, Margen
    <2>2. /\ Acotado(ocupadas', N + u, {}, {}, encuentros)
          /\ nulos' = 0 => Acotado(cantidad', K - 1, {}, {}, encuentros)
      <3>1. {} \in SUBSET Int /\ N + u \in Int /\ K - 1 \in Int
        BY <1>5, <1>8
      <3> QED BY <1>5, <1>12, <1>13, <2>1, <3>1, MasLejos
    <2> QED BY <1>1, <1>10, <1>11, <1>14, <1>15, <2>1, <2>2
  <1>17. CASE pon' # Nulo
    <2>1. pon # Nulo => pon \in [nodo : Nodos, i : 0..(max - 1), cola : Nodos \cup {Nulo},
                                 vc : SUBSET Int, vt : SUBSET Int]
      BY <1>1 DEF Inv, PonBien
    <2>2. PICK q, C, T : /\ q = pon /\ C = Escrito(cantidad, IF dato[n] = 0 THEN 0 ELSE -1)
                         /\ T = Escrito(ocupadas, u)
      OBVIOUS
    <2>3. Nulo # Anota(q, C, T) /\ pon' = Anota(q, C, T)
      BY <1>3, <1>8, <1>17, <2>2
    <2>4. /\ q # Nulo /\ LeidosC(pon') = LeidosC(q) \cup C
          /\ LeidosT(pon') = LeidosT(q) \cup T
      BY <2>1, <2>2, <2>3, AnotaPon
    <2>5. /\ dato[n] # 0 => LeidosC(pon') = PC \cup {cantidad}
          /\ LeidosT(pon') = PT \cup Escrito(ocupadas, u)
          /\ e + 1 = encuentros
      BY <1>1, <1>4, <1>5, <2>2, <2>4 DEF Escrito, Margen
    <2> QED BY <1>1, <1>10, <1>11, <1>12, <1>13, <1>14, <1>15, <2>5
  <1> QED BY <1>16, <1>17

LEMMA CotasNada ==
  ASSUME Cotas, UNCHANGED vars
  PROVE  Cotas'
  BY DEF vars, Cotas, Usadas, Llenas, Todos, LeidosC, LeidosT, Margen

LEMMA CotasDan ==
  ASSUME Inv, Cotas
  PROVE  CuentasExactas
  <1>1. /\ Usadas = {i \in 0..(max - 1) : cubetas[i] # <<>>} /\ Enlazados = Todos(cubetas, max)
        /\ cruces = {} => Usadas # 0..(max - 1)
    BY DEF Inv, Exactas, Usadas, Llenas, Enlazados, Todos, EnCadena
  <1>2. PICK x, y, n, k, e, m :
          /\ x = ocupadas /\ y = cantidad /\ n = Cardinality(Usadas)
          /\ k = Cardinality(Todos(cubetas, max)) /\ e = encuentros /\ m = Margen
    OBVIOUS
  <1>3. /\ x \in Int /\ y \in Int /\ n \in Nat /\ k \in Nat /\ e \in Nat /\ m \in Int /\ m <= e
    BY <1>2, Contables DEF Margen
  <1>4. cruces \subseteq {"contador"} => Cerca(x - n, m) /\ (nulos = 0 => Cerca(y - k, m))
    BY <1>2 DEF Cotas, Acotado
  <1>5. cruces \subseteq {"contador"} =>
          /\ e >= x - n /\ e >= n - x
          /\ nulos = 0 => e >= y - k /\ e >= k - y
    BY <1>3, <1>4 DEF Cerca
  <1> QED BY <1>1, <1>2, <1>5 DEF CuentasExactas

\* A thread alone keeps table_current_size and elements_amount exact and a bucket
\* free.  Two that meet, until they meet in a chain or a growth, leave each counter
\* off by one at most for every time they met.
THEOREM CuentasCorrectas == Spec => []CuentasExactas
  <1>1. ASSUME Inv, Orden, Cotas, [Next]_vars PROVE Cotas'
    <2>1. ASSUME NEW h \in Claves, NEW d \in Datos, PonBusca(h, d) PROVE Cotas'
      BY <1>1, <2>1, CotasPonBusca
    <2>2. ASSUME NEW h \in Claves, SacaBusca(h) PROVE Cotas'
      BY <1>1, <2>2, CotasSacaBusca
    <2>3. CASE PonEscribe
      BY <1>1, <2>3, CotasPonEscribe
    <2>4. CASE SacaEscribe
      BY <1>1, <2>4, CotasSacaEscribe
    <2>5. CASE Limpia
      BY <1>1, <2>5, CotasLimpia
    <2>6. CASE UNCHANGED vars
      BY <1>1, <2>6, CotasNada
    <2> QED BY <1>1, <2>1, <2>2, <2>3, <2>4, <2>5, <2>6 DEF Next
  <1>2. Inv /\ Orden /\ [Next]_vars => Orden'
    BY Cumple
  <1>3. Inv /\ Cotas => CuentasExactas
    BY CotasDan
  <1> QED BY <1>1, <1>2, <1>3, CotasInicio, OrdenInicio, Invariante, PTL DEF Spec
=============================================================================
