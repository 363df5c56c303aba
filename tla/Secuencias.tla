----------------------------- MODULE Secuencias -----------------------------
(***************************************************************************)
(* What the proofs about queues and lists share: induction on the natural  *)
(* numbers, that a recursive function exists, and what the operators on    *)
(* sequences do, element by element.                                       *)
(*                                                                         *)
(* The induction theorems of the library take a predicate, which the       *)
(* provers cannot instantiate.  The least element of a set needs none, and *)
(* induction over a set follows from it.                                   *)
(***************************************************************************)
EXTENDS Integers, SequencesExt, SequenceTheorems, WellFoundedInduction, TLAPS

\* A set of natural numbers has a least one.
LEMMA Minimo ==
  ASSUME NEW T, T \subseteq Nat, T # {}
  PROVE  \E x \in T : \A y \in T : x <= y
  <1>1. IsWellFoundedOn(OpToRel(<, Nat), Nat)
    BY NatLessThanWellFounded
  <1>2. PICK x \in T : \A y \in T : ~ (<<y, x>> \in OpToRel(<, Nat))
    BY <1>1, WFMin
  <1>3. \A y \in T : ~(y < x)
    BY <1>2 DEF OpToRel
  <1> QED BY <1>3

\* Induction: what has 0 and the successors of its elements has every number.
LEMMA Induccion ==
  ASSUME NEW T, 0 \in T, \A n \in Nat : n \in T => n + 1 \in T
  PROVE  \A n \in Nat : n \in T
  <1> DEFINE R == Nat \ T
  <1> SUFFICES ASSUME R # {} PROVE FALSE
    OBVIOUS
  <1>1. PICK x \in R : \A y \in R : x <= y
    BY Minimo
  <1>2. x # 0
    OBVIOUS
  <1>3. x - 1 \in Nat /\ x - 1 \notin R
    BY <1>1, <1>2
  <1> QED BY <1>3

\* f goes on from a by the steps of F.
Recurre(f, a, n, F) == f[0] = a /\ \A k \in 1..n : f[k] = F[k][f[k - 1]]

\* A function on 0..n is defined by its first value and its steps.
LEMMA Recursion ==
  ASSUME NEW A, NEW a \in A, NEW n \in Nat, NEW F \in [1..n -> [A -> A]]
  PROVE  \E f \in [0..n -> A] : Recurre(f, a, n, F)
  <1> DEFINE T == {m \in Nat : m <= n => \E f \in [0..m -> A] : Recurre(f, a, m, F)}
  <1> USE DEF Recurre
  <1>1. 0 \in T
    <2>1. [k \in 0..0 |-> a] \in [0..0 -> A] /\ Recurre([k \in 0..0 |-> a], a, 0, F)
      OBVIOUS
    <2> QED BY <2>1
  <1>2. ASSUME NEW m \in Nat, m \in T PROVE m + 1 \in T
    <2> SUFFICES ASSUME m + 1 <= n PROVE \E f \in [0..(m + 1) -> A] : Recurre(f, a, m + 1, F)
      OBVIOUS
    <2>1. PICK g \in [0..m -> A] : Recurre(g, a, m, F)
      BY <1>2
    <2>2. m \in 0..m /\ m + 1 \in 1..n /\ F[m + 1][g[m]] \in A
      OBVIOUS
    <2> DEFINE f == [k \in 0..(m + 1) |-> IF k <= m THEN g[k] ELSE F[m + 1][g[m]]]
    <2>3. f \in [0..(m + 1) -> A]
      BY <2>2
    <2>4. f[0] = a
      BY <2>1
    <2>5. ASSUME NEW k \in 1..(m + 1) PROVE f[k] = F[k][f[k - 1]]
      <3>1. CASE k <= m
        BY <2>1, <3>1
      <3>2. CASE k = m + 1
        BY <3>2
      <3> QED BY <3>1, <3>2
    <2> QED BY <2>3, <2>4, <2>5
  <1>3. n \in T
    <2> HIDE DEF T, Recurre
    <2> QED BY <1>1, <1>2, Induccion
  <1> QED BY <1>3

\* Induction on sequences, from their beginning.
LEMMA InduccionSecuencias ==
  ASSUME NEW S, NEW Q, <<>> \in Q, \A s \in Seq(S), e \in S : s \in Q => Append(s, e) \in Q
  PROVE  \A s \in Seq(S) : s \in Q
  <1> DEFINE T == {n \in Nat : \A s \in Seq(S) : Len(s) = n => s \in Q}
  <1>1. 0 \in T
    <2>1. \A s \in Seq(S) : Len(s) = 0 => s = <<>>
      OBVIOUS
    <2> QED BY <2>1
  <1>2. ASSUME NEW n \in Nat, n \in T PROVE n + 1 \in T
    <2> SUFFICES ASSUME NEW s \in Seq(S), Len(s) = n + 1 PROVE s \in Q
      OBVIOUS
    <2>1. s # <<>>
      OBVIOUS
    <2>2. PICK t \in Seq(S), e \in S : s = Append(t, e)
      BY <2>1, SequenceEmptyOrAppend
    <2>3. Len(t) = n
      BY <2>2
    <2> QED BY <1>2, <2>2, <2>3
  <1>3. \A n \in Nat : n \in T
    <2> HIDE DEF T
    <2> QED BY <1>1, <1>2, Induccion
  <1> QED BY <1>3

-----------------------------------------------------------------------------
\* t is s with e at the place i.
Insertado(t, s, i, e) ==
  /\ Len(t) = Len(s) + 1
  /\ \A j \in 1..(i - 1) : t[j] = s[j]
  /\ t[i] = e
  /\ \A j \in (i + 1)..(Len(s) + 1) : t[j] = s[j - 1]

\* t is s without the element at the place i.
Quitado(t, s, i) ==
  /\ Len(t) = Len(s) - 1
  /\ \A j \in 1..(i - 1) : t[j] = s[j]
  /\ \A j \in i..(Len(s) - 1) : t[j] = s[j + 1]

\* list_add_in_index, element by element.
LEMMA InsertaElementos ==
  ASSUME NEW S, NEW s \in Seq(S), NEW e \in S, NEW i \in 1..(Len(s) + 1),
         NEW t, t = InsertAt(s, i, e)
  PROVE  t \in Seq(S) /\ Insertado(t, s, i, e)
  <1>0. Len(s) \in Nat /\ i \in Int /\ \A j \in 1..Len(s) : s[j] \in S
    OBVIOUS
  <1>1. PICK a : a = SubSeq(s, 1, i - 1)
    OBVIOUS
  <1>2. PICK c : c = SubSeq(s, i, Len(s))
    OBVIOUS
  <1>3. PICK b : b = <<e>>
    OBVIOUS
  <1>4. PICK d : d = a \o b
    OBVIOUS
  <1>5. t = d \o c
    BY <1>1, <1>2, <1>3, <1>4 DEF InsertAt
  <1>6. a \in Seq(S) /\ Len(a) = i - 1 /\ \A j \in 1..(i - 1) : a[j] = s[j]
    BY <1>0, <1>1, SubSeqProperties
  <1>7. c \in Seq(S) /\ Len(c) = Len(s) - i + 1
        /\ \A j \in 1..(Len(s) - i + 1) : c[j] = s[i + j - 1]
    BY <1>0, <1>2, SubSeqProperties
  <1>8. b \in Seq(S) /\ Len(b) = 1 /\ b[1] = e
    BY <1>3
  <1>9. /\ d \in Seq(S) /\ Len(d) = Len(a) + Len(b)
        /\ \A j \in 1..(Len(a) + Len(b)) :
             d[j] = IF j <= Len(a) THEN a[j] ELSE b[j - Len(a)]
    BY ONLY <1>4, <1>6, <1>8, ConcatProperties
  <1>10. /\ Len(d) = i /\ d[i] = e
         /\ \A j \in 1..(i - 1) : d[j] = s[j]
    BY <1>0, <1>6, <1>8, <1>9
  <1>11. /\ t \in Seq(S) /\ Len(t) = Len(d) + Len(c)
         /\ \A j \in 1..(Len(d) + Len(c)) :
              t[j] = IF j <= Len(d) THEN d[j] ELSE c[j - Len(d)]
    <2>1. d \in Seq(S) /\ c \in Seq(S)
      BY <1>7, <1>9
    <2> QED BY ONLY <2>1, <1>5, ConcatProperties
  <1>12. Len(d) + Len(c) = Len(s) + 1
    BY <1>0, <1>7, <1>10
  <1>13. \A j \in 1..(i - 1) : t[j] = s[j]
    BY <1>0, <1>10, <1>11, <1>12
  <1>14. t[i] = e
    BY <1>0, <1>10, <1>11, <1>12
  <1>15. ASSUME NEW j \in (i + 1)..(Len(s) + 1) PROVE t[j] = s[j - 1]
    <2>1. j - i \in 1..(Len(s) - i + 1) /\ i + (j - i) - 1 = j - 1
      BY <1>0
    <2>2. t[j] = c[j - i]
      BY <1>0, <1>10, <1>11, <1>12
    <2> QED BY <2>1, <2>2, <1>7
  <1> QED BY <1>11, <1>12, <1>13, <1>14, <1>15 DEF Insertado

\* What list_add_in_index leaves in the list.
LEMMA InsertaRango ==
  ASSUME NEW S, NEW s \in Seq(S), NEW e \in S, NEW i \in 1..(Len(s) + 1),
         NEW t, t = InsertAt(s, i, e)
  PROVE  /\ t \in Seq(S) /\ Len(t) = Len(s) + 1
         /\ Range(t) = Range(s) \cup {e}
  <1>a. t \in Seq(S) /\ Insertado(t, s, i, e)
    BY InsertaElementos
  <1>1. /\ t \in Seq(S) /\ Len(t) = Len(s) + 1
        /\ \A j \in 1..(i - 1) : t[j] = s[j]
        /\ t[i] = e
        /\ \A j \in (i + 1)..(Len(s) + 1) : t[j] = s[j - 1]
    BY <1>a DEF Insertado
  <1>2. DOMAIN t = 1..(Len(s) + 1) /\ DOMAIN s = 1..Len(s) /\ Len(s) \in Nat
    BY <1>1
  <1>3. ASSUME NEW j \in DOMAIN t PROVE t[j] \in Range(s) \cup {e}
    <2>1. j < i => t[j] = s[j] /\ j \in DOMAIN s
      BY <1>1, <1>2
    <2>2. j > i => t[j] = s[j - 1] /\ j - 1 \in DOMAIN s
      BY <1>1, <1>2
    <2>3. j = i => t[j] = e
      BY <1>1
    <2>4. j < i \/ j > i \/ j = i
      BY <1>2
    <2> QED BY <2>1, <2>2, <2>3, <2>4 DEF Range
  <1>4. i \in DOMAIN t /\ e \in Range(t)
    BY <1>1, <1>2 DEF Range
  <1>5. ASSUME NEW j \in DOMAIN s PROVE s[j] \in Range(t)
    <2>1. j < i => t[j] = s[j] /\ j \in DOMAIN t
      BY <1>1, <1>2
    <2>2. j >= i => t[j + 1] = s[j] /\ j + 1 \in DOMAIN t
      BY <1>1, <1>2
    <2> QED BY <2>1, <2>2, <1>2 DEF Range
  <1>6. Range(t) = Range(s) \cup {e}
    BY <1>3, <1>4, <1>5 DEF Range
  <1> QED BY <1>1, <1>6

\* It keeps the list free of repetitions.
LEMMA InsertaUnicos ==
  ASSUME NEW S, NEW s \in Seq(S), NEW e \in S, NEW i \in 1..(Len(s) + 1),
         NEW t, t = InsertAt(s, i, e), e \notin Range(s),
         \A j, k \in DOMAIN s : s[j] = s[k] => j = k
  PROVE  \A j, k \in DOMAIN t : t[j] = t[k] => j = k
  <1>a. t \in Seq(S) /\ Insertado(t, s, i, e)
    BY InsertaElementos
  <1>1. /\ t \in Seq(S) /\ Len(t) = Len(s) + 1
        /\ \A j \in 1..(i - 1) : t[j] = s[j]
        /\ t[i] = e
        /\ \A j \in (i + 1)..(Len(s) + 1) : t[j] = s[j - 1]
    BY <1>a DEF Insertado
  <1>2. DOMAIN t = 1..(Len(s) + 1) /\ DOMAIN s = 1..Len(s) /\ Len(s) \in Nat
    BY <1>1
  <1>3. \A m \in DOMAIN s : s[m] # e
    BY DEF Range
  <1>4. \A m \in DOMAIN t : \/ m < i /\ m \in DOMAIN s /\ t[m] = s[m]
                            \/ m = i /\ t[m] = e
                            \/ m > i /\ m - 1 \in DOMAIN s /\ t[m] = s[m - 1]
    BY <1>1, <1>2
  <1> QED BY <1>2, <1>3, <1>4

\* What list_remove leaves, element by element.
LEMMA QuitaElementos ==
  ASSUME NEW S, NEW s \in Seq(S), NEW i \in 1..Len(s),
         NEW t, t = RemoveAt(s, i)
  PROVE  t \in Seq(S) /\ Quitado(t, s, i)
  <1>0. Len(s) \in Nat /\ i \in Int /\ \A j \in 1..Len(s) : s[j] \in S
    OBVIOUS
  <1>1. PICK a : a = SubSeq(s, 1, i - 1)
    OBVIOUS
  <1>2. PICK c : c = SubSeq(s, i + 1, Len(s))
    OBVIOUS
  <1>3. t = a \o c
    BY <1>1, <1>2 DEF RemoveAt
  <1>4. a \in Seq(S) /\ Len(a) = i - 1 /\ \A j \in 1..(i - 1) : a[j] = s[j]
    BY <1>0, <1>1, SubSeqProperties
  <1>5. c \in Seq(S) /\ Len(c) = Len(s) - i
        /\ \A j \in 1..(Len(s) - i) : c[j] = s[i + j]
    BY <1>0, <1>2, SubSeqProperties
  <1>6. /\ t \in Seq(S) /\ Len(t) = Len(a) + Len(c)
        /\ \A j \in 1..(Len(a) + Len(c)) :
             t[j] = IF j <= Len(a) THEN a[j] ELSE c[j - Len(a)]
    <2>1. a \in Seq(S) /\ c \in Seq(S)
      BY <1>4, <1>5
    <2> QED BY ONLY <2>1, <1>3, ConcatProperties
  <1>7. Len(a) + Len(c) = Len(s) - 1
    BY <1>0, <1>4, <1>5
  <1>8. ASSUME NEW j \in 1..(i - 1) PROVE t[j] = s[j]
    <2>1. j \in 1..(Len(a) + Len(c)) /\ j <= Len(a)
      BY <1>0, <1>4, <1>7
    <2> QED BY <2>1, <1>4, <1>6
  <1>9. ASSUME NEW j \in i..(Len(s) - 1) PROVE t[j] = s[j + 1]
    <2>1. j - (i - 1) \in 1..(Len(s) - i) /\ i + (j - (i - 1)) = j + 1
      BY <1>0
    <2>2. t[j] = c[j - (i - 1)]
      BY <1>0, <1>4, <1>6, <1>7
    <2> QED BY <2>1, <2>2, <1>5
  <1> QED BY <1>6, <1>7, <1>8, <1>9 DEF Quitado

\* list_remove undoes list_add_in_index at the same place ...
LEMMA QuitaLoInsertado ==
  ASSUME NEW S, NEW s \in Seq(S), NEW e \in S, NEW i \in 1..(Len(s) + 1),
         NEW t, t = InsertAt(s, i, e), NEW u, u = RemoveAt(t, i)
  PROVE  u = s
  <1>a. t \in Seq(S) /\ Insertado(t, s, i, e)
    BY InsertaElementos
  <1>1. /\ t \in Seq(S) /\ Len(t) = Len(s) + 1
        /\ \A j \in 1..(i - 1) : t[j] = s[j]
        /\ t[i] = e
        /\ \A j \in (i + 1)..(Len(s) + 1) : t[j] = s[j - 1]
    BY <1>a DEF Insertado
  <1>2. i \in 1..Len(t) /\ Len(s) \in Nat /\ i \in Int
    BY <1>1
  <1>3. /\ u \in Seq(S) /\ Len(u) = Len(t) - 1
        /\ \A j \in 1..(i - 1) : u[j] = t[j]
        /\ \A j \in i..(Len(t) - 1) : u[j] = t[j + 1]
    <2>1. t \in Seq(S) /\ i \in 1..Len(t)
      BY <1>1, <1>2
    <2>2. u \in Seq(S) /\ Quitado(u, t, i)
      BY <2>1, QuitaElementos
    <2> QED BY <2>2 DEF Quitado
  <1>4. ASSUME NEW j \in 1..Len(s) PROVE u[j] = s[j]
    <2>1. CASE j < i
      <3>1. j \in 1..(i - 1)
        BY <2>1, <1>2
      <3> QED BY <3>1, <1>1, <1>3
    <2>2. CASE j >= i
      <3>1. j \in i..(Len(t) - 1) /\ j + 1 \in (i + 1)..(Len(s) + 1) /\ (j + 1) - 1 = j
        BY <2>2, <1>1, <1>2
      <3> QED BY <3>1, <1>1, <1>3
    <2> QED BY <2>1, <2>2, <1>2
  <1>5. Len(u) = Len(s)
    BY <1>1, <1>2, <1>3
  <1> QED BY <1>3, <1>4, <1>5, SeqEqual

\* ... and the other way round.
LEMMA InsertaLoQuitado ==
  ASSUME NEW S, NEW s \in Seq(S), NEW i \in 1..Len(s)
  PROVE  InsertAt(RemoveAt(s, i), i, s[i]) = s
  <1>0. Len(s) \in Nat /\ i \in Int /\ s[i] \in S
    OBVIOUS
  <1>1. PICK t : t = RemoveAt(s, i)
    OBVIOUS
  <1>a. PICK e : e = s[i]
    OBVIOUS
  <1>2. PICK u : u = InsertAt(t, i, e)
    OBVIOUS
  <1>3. /\ t \in Seq(S) /\ Len(t) = Len(s) - 1
        /\ \A j \in 1..(i - 1) : t[j] = s[j]
        /\ \A j \in i..(Len(s) - 1) : t[j] = s[j + 1]
    <2>1. t \in Seq(S) /\ Quitado(t, s, i)
      BY <1>1, QuitaElementos
    <2> QED BY <2>1 DEF Quitado
  <1>4. i \in 1..(Len(t) + 1) /\ e \in S
    BY <1>0, <1>3, <1>a
  <1>5. /\ u \in Seq(S) /\ Len(u) = Len(t) + 1
        /\ \A j \in 1..(i - 1) : u[j] = t[j]
        /\ u[i] = e
        /\ \A j \in (i + 1)..(Len(t) + 1) : u[j] = t[j - 1]
    <2>1. u \in Seq(S) /\ Insertado(u, t, i, e)
      BY <1>2, <1>3, <1>4, InsertaElementos
    <2> QED BY <2>1 DEF Insertado
  <1>6. ASSUME NEW j \in 1..Len(s) PROVE u[j] = s[j]
    <2>1. CASE j < i
      <3>1. j \in 1..(i - 1)
        BY <2>1, <1>0
      <3> QED BY <3>1, <1>3, <1>5
    <2>2. CASE j = i
      BY <2>2, <1>5, <1>a
    <2>3. CASE j > i
      <3>1. j \in (i + 1)..(Len(t) + 1) /\ j - 1 \in i..(Len(s) - 1) /\ (j - 1) + 1 = j
        BY <2>3, <1>0, <1>3
      <3> QED BY <3>1, <1>3, <1>5
    <2> QED BY <2>1, <2>2, <2>3, <1>0
  <1>7. Len(u) = Len(s)
    BY <1>0, <1>3, <1>5
  <1>8. u = s
    BY <1>5, <1>6, <1>7, SeqEqual
  <1> QED BY <1>1, <1>2, <1>a, <1>8

\* t is s and then e.
Agregado(t, s, e, S) ==
  /\ t \in Seq(S) /\ Len(t) = Len(s) + 1 /\ t[Len(s) + 1] = e
  /\ \A i \in 1..Len(s) : t[i] = s[i]
  /\ Range(t) = Range(s) \cup {e}
  /\ IsInjective(s) /\ e \notin Range(s) => IsInjective(t)

\* queue_push, and what it does to the elements.
LEMMA AgregaRango ==
  ASSUME NEW S, NEW s \in Seq(S), NEW e \in S, NEW t, t = Append(s, e)
  PROVE  Agregado(t, s, e, S)
  <1>0. Len(s) \in Nat /\ DOMAIN s = 1..Len(s)
    OBVIOUS
  <1>1. /\ t \in Seq(S) /\ Len(t) = Len(s) + 1 /\ t[Len(s) + 1] = e
        /\ \A i \in 1..Len(s) : t[i] = s[i]
    OBVIOUS
  <1>2. DOMAIN t = 1..(Len(s) + 1)
    BY <1>1
  <1>3. \A i \in 1..(Len(s) + 1) : i \in 1..Len(s) \/ i = Len(s) + 1
    BY <1>0
  <1>4. Len(s) + 1 \in 1..(Len(s) + 1) /\ \A i \in 1..Len(s) : i \in 1..(Len(s) + 1)
    BY <1>0
  <1>5. Range(t) = Range(s) \cup {e}
    BY ONLY <1>0, <1>1, <1>2, <1>3, <1>4 DEF Range
  <1>6. ASSUME IsInjective(s), e \notin Range(s) PROVE IsInjective(t)
    BY ONLY <1>0, <1>1, <1>2, <1>3, <1>4, <1>6 DEF Range, IsInjective
  <1> QED BY <1>1, <1>5, <1>6 DEF Agregado

\* list_add is list_add_in_index at the end.
LEMMA InsertaAlFinal ==
  ASSUME NEW S, NEW s \in Seq(S), NEW e \in S
  PROVE  InsertAt(s, Len(s) + 1, e) = Append(s, e)
  <1>0. Len(s) \in Nat /\ Len(s) + 1 \in 1..(Len(s) + 1)
    OBVIOUS
  <1>1. PICK t : t = InsertAt(s, Len(s) + 1, e)
    OBVIOUS
  <1>2. PICK i : i = Len(s) + 1
    OBVIOUS
  <1>3. /\ t \in Seq(S) /\ Len(t) = Len(s) + 1
        /\ \A j \in 1..(i - 1) : t[j] = s[j]
        /\ t[i] = e
    <2>1. i \in 1..(Len(s) + 1) /\ t = InsertAt(s, i, e)
      BY <1>0, <1>1, <1>2
    <2>2. t \in Seq(S) /\ Insertado(t, s, i, e)
      BY <2>1, InsertaElementos
    <2> QED BY <2>2 DEF Insertado
  <1>4. PICK u : u = Append(s, e)
    OBVIOUS
  <1>5. u \in Seq(S) /\ Len(u) = Len(s) + 1 /\ u[Len(s) + 1] = e
        /\ \A j \in 1..Len(s) : u[j] = s[j]
    BY <1>4
  <1>6. \A j \in 1..Len(t) : t[j] = u[j]
    BY <1>0, <1>2, <1>3, <1>5
  <1>7. t = u
    BY <1>3, <1>5, <1>6, SeqEqual
  <1> QED BY <1>1, <1>4, <1>7
=============================================================================
