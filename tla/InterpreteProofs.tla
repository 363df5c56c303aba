-------------------------- MODULE InterpreteProofs --------------------------
(***************************************************************************)
(* For every well formed program, of any length and with calls nested to   *)
(* any depth: the interpreter never leaves the function it was called in,  *)
(* never reads past the text, and never returns from a call nobody made.   *)
(* And what is put in a variable declared once is what is read from it.    *)
(***************************************************************************)
EXTENDS Interprete, FiniteSetTheorems, WellFoundedInduction, TLAPS

\* What each step preserves: with the stack, that when an instruction is to be
\* executed it is neither a call nor, in a well formed program, fin_programa.
IInv ==
  /\ TypeOK
  /\ estado \in {"listo", "en_io"} => ~EsFuncion(L(pc))
  /\ BienFormado =>
       /\ estado # "roto"
       /\ estado \in {"listo", "en_io", "fin"} => Anidadas(pc, pila)
       /\ estado \in {"listo", "en_io"} => L(pc).op # "fin_programa"

-----------------------------------------------------------------------------
(* The text.                                                                 *)

\* A set of lines has a first one.
LEMMA Minimo ==
  ASSUME NEW S \in SUBSET Nat, S # {}
  PROVE  \E x \in S : \A y \in S : x <= y
<1>1. PICK x \in S : \A y \in S : <<y, x>> \notin OpToRel(<, Nat)
  BY NatLessThanWellFounded, WFMin, Zenon
<1>2. \A y \in S : <<y, x>> \in Nat \X Nat
  OBVIOUS
<1>3. \A y \in S : ~(y < x)
  BY <1>1, <1>2, Zenon DEF OpToRel
<1> QED BY <1>3

\* Primera finds it.
LEMMA PrimeraEsMinima ==
  ASSUME NEW S \in SUBSET Nat, S # {}
  PROVE  Primera(S) \in S /\ \A j \in S : Primera(S) <= j
BY Minimo DEF Primera

LEMMA LargoNat ==
  ASSUME codigo \in Seq(Linea)
  PROVE  N \in Nat /\ \A i \in 1..N : L(i).nombre \in Nombres
<1>1. N \in Nat /\ \A i \in 1..N : L(i) \in Linea
  BY DEF N, L
<1>2. \A l \in Linea : l.nombre \in Nombres
  BY DEF Linea
<1> QED BY <1>1, <1>2

\* A section has one end.
LEMMA SeccionUnica ==
  ASSUME codigo \in Seq(Linea), NEW a \in Nat, NEW b \in Nat, NEW c \in Nat,
         Seccion(a, b), Seccion(a, c)
  PROVE  b = c
BY LargoNat DEF Seccion, Limites

\* The search for the next line stops at the end of the section at the latest.
LEMMA ProximaEnSeccion ==
  ASSUME codigo \in Seq(Linea), NEW a \in Nat, NEW b \in Nat, Seccion(a, b),
         NEW p \in a..b
  PROVE  Proxima(p) \in p..b
<1>1. N \in Nat /\ 1 <= a /\ a < b /\ b <= N
  BY LargoNat DEF Seccion
<1>2. ~Salteable(L(b))
  BY DEF Seccion, Salteable
<1>3. b \in Ejecutables(p) /\ Ejecutables(p) \in SUBSET Nat
  BY <1>1, <1>2 DEF Ejecutables
<1>4. Proxima(p) \in Ejecutables(p) /\ Proxima(p) <= b
  BY <1>3, PrimeraEsMinima DEF Proxima
<1> QED BY <1>1, <1>4 DEF Ejecutables

\* A name that some line declares has the address of such a line.
LEMMA DireccionDeclarada ==
  ASSUME codigo \in Seq(Linea), NEW op, NEW n,
         \E i \in Lineas(op) : L(i).nombre = n
  PROVE  Direccion(op, n) \in Lineas(op) /\ L(Direccion(op, n)).nombre = n
<1> DEFINE S == {i \in Lineas(op) : L(i).nombre = n}
<1>1. S \in SUBSET Nat /\ S # {}
  BY LargoNat DEF Lineas
<1>2. Primera(S) \in S
  BY <1>1, PrimeraEsMinima
<1> QED BY <1>2 DEF Direccion

-----------------------------------------------------------------------------
(* The stack.                                                                *)

LEMMA InicioApilada ==
  ASSUME NEW s \in Seq(Marco), NEW r \in Marco, NEW k \in Nat \ {0}
  PROVE  /\ Apilada(r, s) \in Seq(Marco)
         /\ Inicio(Apilada(r, s), k + 1) = Inicio(s, k)
         /\ Inicio(Apilada(r, s), 1) = Direccion("comienzo_funcion", r.nombre)
<1>1. /\ <<r>> \o s \in Seq(Marco)
      /\ Len(<<r>> \o s) = Len(s) + 1
      /\ (<<r>> \o s)[1] = r
      /\ \A j \in 1..Len(s) : (<<r>> \o s)[j + 1] = s[j]
  OBVIOUS
<1>2. Len(s) \in Nat
  OBVIOUS
<1> QED BY <1>1, <1>2 DEF Apilada, Inicio

LEMMA InicioDesapilada ==
  ASSUME NEW s \in Seq(Marco), s # <<>>, NEW k \in Nat \ {0}
  PROVE  /\ Desapilada(s) \in Seq(Marco)
         /\ Inicio(Desapilada(s), k) = Inicio(s, k + 1)
<1>1. /\ Tail(s) \in Seq(Marco)
      /\ Len(Tail(s)) = Len(s) - 1 /\ Len(s) \in Nat
      /\ \A j \in 1..(Len(s) - 1) : Tail(s)[j] = s[j + 1]
  OBVIOUS
<1> QED BY <1>1 DEF Desapilada, Inicio

-----------------------------------------------------------------------------
(* Steps leave the text as it is.                                            *)

\* What is said of the text is said of it after the step.
LEMMA MismoTexto ==
  ASSUME codigo' = codigo
  PROVE  /\ \A p : L(p)' = L(p)
         /\ \A op : Lineas(op)' = Lineas(op)
         /\ \A i, a : EnSeccion(i, a)' <=> EnSeccion(i, a)
         /\ \A p : Comienzo(p)' <=> Comienzo(p)
         /\ N' = N
         /\ EsFuncion(L(pc))' => EsFuncion(L(pc'))
         /\ BienFormado' => BienFormado
<1>1. N' = N /\ \A p : L(p)' = L(p)
  BY DEF N, L
<1>2. ASSUME NEW op PROVE Lineas(op)' = Lineas(op)
  BY <1>1 DEF Lineas
<1>3. ASSUME NEW op, NEW n PROVE Direccion(op, n)' = Direccion(op, n)
  <2>1. {i \in Lineas(op) : L(i).nombre = n}' = {i \in Lineas(op) : L(i).nombre = n}
    BY <1>1, <1>2
  <2>2. \A S, T : S = T => Primera(S) = Primera(T)
    OBVIOUS
  <2> QED BY <2>1, <2>2 DEF Direccion
<1>4. ASSUME NEW a, NEW b PROVE Seccion(a, b)' <=> Seccion(a, b)
  BY <1>1 DEF Seccion, Limites
<1>5. ASSUME NEW i, NEW a PROVE EnSeccion(i, a)' <=> EnSeccion(i, a)
  BY <1>1, <1>4 DEF EnSeccion
<1>6. ASSUME NEW p PROVE Comienzo(p)' <=> Comienzo(p)
  BY <1>1, <1>2 DEF Comienzo
<1>7. ASSUME NEW p PROVE Proxima(p)' = Proxima(p)
  <2>1. Ejecutables(p)' = Ejecutables(p)
    BY <1>1 DEF Ejecutables, Salteable
  <2> QED BY <2>1, <1>1 DEF Proxima, Primera
<1>8. BienFormado' => BienFormado
  BY <1>1, <1>2, <1>3, <1>4, <1>5, <1>6, <1>7 DEF BienFormado
<1>9. EsFuncion(L(pc))' => EsFuncion(L(pc'))
  <2>1. L(pc)' = L(pc')
    BY DEF L
  <2> QED BY <1>1, <1>2, <2>1 DEF EsFuncion
<1> QED BY <1>1, <1>2, <1>5, <1>6, <1>8, <1>9

LEMMA MismasAnidadas ==
  ASSUME codigo' = codigo, Anidadas(pc', pila')
  PROVE  Anidadas(pc, pila)'
<1>1. (CHOOSE a \in 1..N : Comienzo(a + 1))' = (CHOOSE a \in 1..N : Comienzo(a + 1))
  BY MismoTexto
<1>2. ASSUME NEW k PROVE Inicio(pila, k)' = Inicio(pila', k)
  <2> DEFINE n == pila'[k].nombre
             F == "comienzo_funcion"
             D == {i \in Lineas(F) : L(i).nombre = n}
             E == {i \in Lineas(F)' : L(i)'.nombre = n}
             M == CHOOSE a \in 1..N : Comienzo(a + 1)
  <2>1. E = D
    BY MismoTexto
  <2>2. Inicio(pila, k)' = IF k <= Len(pila') THEN Primera(E) ELSE M'
    BY Zenon DEF Inicio, Direccion
  <2>3. Inicio(pila', k) = IF k <= Len(pila') THEN Primera(D) ELSE M
    BY Zenon DEF Inicio, Direccion
  <2>4. M' = M
    BY <1>1
  <2> HIDE DEF M, D, E
  <2> QED BY <2>1, <2>2, <2>3, <2>4
<1> QED BY MismoTexto, <1>2 DEF Anidadas

-----------------------------------------------------------------------------
(* The search for the next instruction.                                      *)

\* What the stack says of the calls under way.
EnOrden(s) ==
  \A k \in DOMAIN s :
    /\ EnSeccion(s[k].retorno, Inicio(s, k + 1))
    /\ L(s[k].retorno).op = "llamada"
    /\ L(s[k].retorno).nombre = s[k].nombre

\* A call made in a section is the first of the calls.
LEMMA Llamada ==
  ASSUME codigo \in Seq(Linea), NEW s \in Seq(Marco), EnOrden(s),
         NEW k \in 1..N, EnSeccion(k, Inicio(s, 1)), L(k).op = "llamada"
  PROVE  LET r == [retorno |-> k, nombre |-> L(k).nombre] IN
         Apilada(r, s) \in Seq(Marco) /\ EnOrden(Apilada(r, s))
<1> DEFINE r == [retorno |-> k, nombre |-> L(k).nombre]
<1>1. r \in Marco
  BY LargoNat DEF Marco
<1>2. /\ Apilada(r, s) \in Seq(Marco)
      /\ DOMAIN Apilada(r, s) = 1..(Len(s) + 1) /\ DOMAIN s = 1..Len(s) /\ Len(s) \in Nat
      /\ Apilada(r, s)[1] = r
      /\ \A j \in 1..Len(s) : Apilada(r, s)[j + 1] = s[j]
  BY <1>1 DEF Apilada
<1>3. ASSUME NEW j \in 1..(Len(s) + 1)
      PROVE  LET a == Apilada(r, s) IN
             /\ EnSeccion(a[j].retorno, Inicio(a, j + 1))
             /\ L(a[j].retorno).op = "llamada"
             /\ L(a[j].retorno).nombre = a[j].nombre
  <2>1. j \in Nat \ {0} /\ Inicio(Apilada(r, s), j + 1) = Inicio(s, j)
    BY <1>1, <1>2, InicioApilada
  <2>2. CASE j = 1
    <3>1. Apilada(r, s)[j].retorno = k /\ Apilada(r, s)[j].nombre = L(k).nombre
      BY <1>2, <2>2
    <3> QED BY <2>1, <2>2, <3>1
  <2>3. CASE j # 1
    <3>1. /\ j - 1 \in 1..Len(s) /\ (j - 1) + 1 = j
      BY <1>2, <2>3
    <3>2. Apilada(r, s)[j] = s[j - 1]
      BY <1>2, <3>1
    <3>3. /\ EnSeccion(s[j - 1].retorno, Inicio(s, (j - 1) + 1))
          /\ L(s[j - 1].retorno).op = "llamada"
          /\ L(s[j - 1].retorno).nombre = s[j - 1].nombre
      BY <1>2, <3>1 DEF EnOrden
    <3> QED BY <2>1, <3>1, <3>2, <3>3
  <2> QED BY <2>2, <2>3
<1> HIDE DEF r
<1>4. Apilada(r, s) \in Seq(Marco) /\ EnOrden(Apilada(r, s))
  BY <1>2, <1>3 DEF EnOrden
<1> QED BY <1>4 DEF r

\* From a line of the section of the last call, the search ends at a line of
\* it, or of the section it calls; or the program ends.
LEMMA PosicionaBien ==
  ASSUME codigo \in Seq(Linea), BienFormado,
         NEW s \in Seq(Marco), EnOrden(s),
         NEW a \in Nat, a = Inicio(s, 1), NEW b \in Nat, Seccion(a, b),
         NEW p \in a..b, NEW sigue \in {"listo", "en_io"}, Posiciona(p, s, sigue)
  PROVE  /\ estado' \in {"listo", "en_io", "fin"}
         /\ pc' \in Nat /\ pila' \in Seq(Marco)
         /\ Anidadas(pc', pila')
         /\ estado' # "fin" => L(pc').op # "fin_programa"
<1> DEFINE k == Proxima(p)
<1>1. N \in Nat /\ 1 <= a /\ a < b /\ b <= N
  BY LargoNat DEF Seccion
<1>2. k \in p..b /\ k \in 1..N
  BY <1>1, ProximaEnSeccion
<1>3. EnSeccion(k, a)
  BY <1>1, <1>2 DEF EnSeccion
<1>4. CASE L(k).op = "fin_programa"
  <2>1. pc' = k /\ pila' = s /\ estado' = "fin"
    BY <1>1, <1>2, <1>4 DEF Posiciona
  <2> QED BY <1>2, <1>3, <2>1 DEF Anidadas, EnOrden
<1>5. CASE L(k).op # "fin_programa" /\ ~EsFuncion(L(k))
  <2>1. pc' = k /\ pila' = s /\ estado' = sigue
    BY <1>1, <1>2, <1>5 DEF Posiciona
  <2> QED BY <1>2, <1>3, <1>5, <2>1 DEF Anidadas, EnOrden
<1>6. CASE L(k).op # "fin_programa" /\ EsFuncion(L(k))
  <2> DEFINE d == Direccion("comienzo_funcion", L(k).nombre)
             r == [retorno |-> k, nombre |-> L(k).nombre]
  <2>1. pc' = d /\ pila' = Apilada(r, s) /\ estado' = sigue
    BY <1>1, <1>2, <1>6 DEF Posiciona
  <2>2. L(k).op = "llamada" /\ d \in Lineas("comienzo_funcion")
    BY <1>6, DireccionDeclarada DEF EsFuncion
  <2>3. d \in Nat /\ L(d).op = "comienzo_funcion"
    BY <1>1, <2>2 DEF Lineas
  <2>4. EnSeccion(d, d)
    <3>1. PICK c \in 1..N : Seccion(d, c)
      BY <2>2 DEF BienFormado
    <3> QED BY <1>1, <2>3, <3>1 DEF EnSeccion, Seccion
  <2>5. Apilada(r, s) \in Seq(Marco) /\ EnOrden(Apilada(r, s))
    BY <1>2, <1>3, <2>2, Llamada
  <2>6. r \in Marco /\ r.nombre = L(k).nombre
    BY <1>2, LargoNat DEF Marco
  <2>7. Inicio(Apilada(r, s), 1) = d
    <3> HIDE DEF r
    <3> QED BY <2>6, InicioApilada
  <2> HIDE DEF d, r
  <2>8. Anidadas(d, Apilada(r, s))
    BY <2>4, <2>5, <2>7 DEF Anidadas, EnOrden
  <2> QED BY <2>1, <2>3, <2>5, <2>8
<1> QED BY <1>4, <1>5, <1>6

\* Whatever the text, the search leaves the types as they are.
LEMMA PosicionaTipo ==
  ASSUME codigo \in Seq(Linea), NEW s \in Seq(Marco), NEW p \in Nat \ {0},
         NEW sigue \in {"listo", "en_io"}, Posiciona(p, s, sigue)
  PROVE  /\ estado' \in {"listo", "en_io", "fin", "roto"}
         /\ pc' \in Nat /\ pila' \in Seq(Marco)
         /\ estado' \in {"listo", "en_io"} => ~EsFuncion(L(pc'))
<1> DEFINE k == Proxima(p)
<1>1. N \in Nat
  BY LargoNat
<1>2. k \in Nat \ {0}
  <2>1. Ejecutables(p) \in SUBSET (Nat \ {0})
    BY <1>1 DEF Ejecutables
  <2>2. CASE Ejecutables(p) = {}
    BY <1>1, <2>2 DEF Proxima
  <2>3. CASE Ejecutables(p) # {}
    BY <2>1, <2>3, PrimeraEsMinima DEF Proxima
  <2> QED BY <2>2, <2>3
<1>3. CASE k > N \/ L(k).op = "fin_programa" \/ ~EsFuncion(L(k))
  BY <1>2, <1>3 DEF Posiciona
<1>4. CASE ~(k > N) /\ L(k).op # "fin_programa" /\ EsFuncion(L(k))
  <2> DEFINE r == [retorno |-> k, nombre |-> L(k).nombre]
  <2>1. pc' = Direccion("comienzo_funcion", L(k).nombre) /\ pila' = Apilada(r, s)
        /\ estado' = sigue
    BY <1>4 DEF Posiciona
  <2>2. LET d == Direccion("comienzo_funcion", L(k).nombre) IN
        d \in Nat /\ ~EsFuncion(L(d))
    BY <1>1, <1>4, DireccionDeclarada DEF EsFuncion, Lineas
  <2>3. k \in 1..N
    BY <1>1, <1>2, <1>4
  <2>4. r \in Marco
    BY <2>3, LargoNat DEF Marco
  <2>5. Apilada(r, s) \in Seq(Marco)
    BY <2>4, InicioApilada
  <2> QED BY <2>1, <2>2, <2>5
<1> QED BY <1>3, <1>4

\* An address is a line.
LEMMA DireccionNat ==
  ASSUME codigo \in Seq(Linea), NEW op, NEW n
  PROVE  Direccion(op, n) \in Nat
<1>1. {i \in Lineas(op) : L(i).nombre = n} \in SUBSET Nat
  BY LargoNat DEF Lineas
<1> QED BY <1>1, PrimeraEsMinima DEF Direccion, Primera

\* The main program begins at the last comienzo_programa.
LEMMA ElComienzo ==
  ASSUME codigo \in Seq(Linea), BienFormado,
         NEW s \in Seq(Marco), s = <<>>, NEW p \in 1..(N + 1), Comienzo(p)
  PROVE  /\ Inicio(s, 1) = p - 1
         /\ L(p - 1).op = "comienzo_programa"
         /\ EnSeccion(p, p - 1)
         /\ L(Proxima(p)).op # "fin_programa"
<1>1. N \in Nat /\ Lineas("comienzo_programa") # {}
      /\ Lineas("comienzo_programa") \in SUBSET (1..N)
  BY LargoNat DEF BienFormado, Lineas
<1>2. \A q, r \in 1..(N + 1) : Comienzo(q) /\ Comienzo(r) => q = r
  BY <1>1 DEF Comienzo
<1>3. PICK q \in 1..(N + 1) : Comienzo(q) /\ EnSeccion(q, q - 1)
                               /\ L(Proxima(q)).op # "fin_programa"
  BY DEF BienFormado
<1>4. q = p
  BY <1>2, <1>3
<1>5. p - 1 \in Lineas("comienzo_programa") /\ (p - 1) + 1 = p
  BY <1>1 DEF Comienzo
<1>6. \A a \in 1..N : Comienzo(a + 1) => a = p - 1
  BY <1>1, <1>2
<1>7. (CHOOSE a \in 1..N : Comienzo(a + 1)) = p - 1
  <2>1. p - 1 \in 1..N /\ Comienzo((p - 1) + 1)
    BY <1>1, <1>5
  <2> HIDE DEF Comienzo
  <2> QED BY <1>6, <2>1
<1>8. Inicio(s, 1) = p - 1
  BY <1>7 DEF Inicio
<1> QED BY <1>3, <1>4, <1>5, <1>8 DEF Lineas

LEMMA InicioNat ==
  ASSUME codigo \in Seq(Linea), BienFormado, NEW s \in Seq(Marco), NEW k \in Nat \ {0}
  PROVE  Inicio(s, k) \in Nat
<1>1. CASE k <= Len(s)
  BY <1>1, DireccionNat DEF Inicio
<1>2. CASE ~(k <= Len(s))
  <2>1. N \in Nat
    BY LargoNat
  <2>2. PICK p \in 1..(N + 1) : Comienzo(p)
    BY DEF BienFormado
  <2>3. Inicio(<<>>, 1) = p - 1 /\ p - 1 \in Nat
    <3>1. <<>> \in Seq(Marco)
      OBVIOUS
    <3>2. Inicio(<<>>, 1) = p - 1
      BY <2>2, <3>1, ElComienzo
    <3> QED BY <2>1, <3>2
  <2>4. Inicio(s, k) = Inicio(<<>>, 1)
    BY <1>2 DEF Inicio
  <2> QED BY <2>3, <2>4
<1> QED BY <1>1, <1>2

\* The search keeps the invariant.
LEMMA PosicionaIInv ==
  ASSUME codigo \in Seq(Linea), codigo' = codigo,
         NEW s \in Seq(Marco), NEW p \in Nat \ {0}, NEW sigue \in {"listo", "en_io"},
         Posiciona(p, s, sigue),
         BienFormado => EnOrden(s) /\ EnSeccion(p, Inicio(s, 1))
  PROVE  IInv'
<1>1. /\ estado' \in {"listo", "en_io", "fin", "roto"} /\ pc' \in Nat /\ pila' \in Seq(Marco)
      /\ estado' \in {"listo", "en_io"} => ~EsFuncion(L(pc))'
  BY PosicionaTipo, MismoTexto
<1>2. ASSUME BienFormado
      PROVE  /\ estado' \in {"listo", "en_io", "fin"}
             /\ Anidadas(pc', pila')
             /\ estado' # "fin" => L(pc').op # "fin_programa"
  <2>1. EnOrden(s) /\ EnSeccion(p, Inicio(s, 1)) /\ Inicio(s, 1) \in Nat
    BY <1>2, InicioNat
  <2>2. PICK b \in 1..N : Seccion(Inicio(s, 1), b) /\ p \in Inicio(s, 1)..b
    BY <2>1 DEF EnSeccion
  <2>3. b \in Nat
    BY LargoNat
  <2> QED BY <1>2, <2>1, <2>2, <2>3, PosicionaBien
<1>3. BienFormado' => /\ BienFormado
                      /\ Anidadas(pc', pila') => Anidadas(pc, pila)'
                      /\ L(pc)' = L(pc')
  <2>1. L(pc)' = L(pc')
    BY DEF L
  <2> QED BY <2>1, MismoTexto, MismasAnidadas
<1> QED BY <1>1, <1>2, <1>3 DEF IInv, TypeOK

-----------------------------------------------------------------------------
(* The steps.                                                                *)

LEMMA InicioIInv == Init => IInv
<1> SUFFICES ASSUME Init PROVE IInv
  OBVIOUS
<1>1. codigo \in Seq(Linea)
  BY ProgramasAssumption DEF Init
<1> QED BY <1>1 DEF Init, IInv, TypeOK

\* Where an instruction is executed, and that it is not the last of its section
\* unless it is a return.
LEMMA EnSuSeccion ==
  ASSUME IInv, BienFormado, estado = "listo"
  PROVE  /\ EnOrden(pila) /\ Inicio(pila, 1) \in Nat
         /\ EnSeccion(pc, Inicio(pila, 1))
         /\ L(pc).op # "fin_funcion" => EnSeccion(pc + 1, Inicio(pila, 1))
         /\ L(pc).op = "fin_funcion" =>
              pc \in 1..N /\ Seccion(Inicio(pila, 1), pc)
<1> DEFINE a == Inicio(pila, 1)
<1>1. /\ codigo \in Seq(Linea) /\ pila \in Seq(Marco) /\ pc \in Nat
      /\ EnOrden(pila) /\ EnSeccion(pc, a) /\ L(pc).op # "fin_programa"
  BY DEF IInv, TypeOK, Anidadas, EnOrden
<1>2. N \in Nat /\ a \in Nat
  BY <1>1, LargoNat, InicioNat
<1>3. PICK b \in 1..N : Seccion(a, b) /\ pc \in a..b
  BY <1>1 DEF EnSeccion
<1> HIDE DEF a
<1>4. L(b).op \in {"fin_programa", "fin_funcion"}
  BY <1>3 DEF Seccion
<1>5. L(pc).op # "fin_funcion" => EnSeccion(pc + 1, a)
  <2> SUFFICES ASSUME L(pc).op # "fin_funcion" PROVE EnSeccion(pc + 1, a)
    OBVIOUS
  <2>1. pc # b
    BY <1>1, <1>4
  <2>2. pc + 1 \in a..b
    BY <1>1, <1>2, <1>3, <2>1
  <2> QED BY <1>3, <2>2 DEF EnSeccion
<1>6. L(pc).op = "fin_funcion" => pc = b
  BY <1>2, <1>3 DEF Seccion, Limites
<1> USE DEF a
<1> QED BY <1>1, <1>2, <1>3, <1>5, <1>6

LEMMA PasoInicializar ==
  ASSUME IInv, InicializarPcb
  PROVE  IInv'
<1>1. codigo \in Seq(Linea) /\ codigo' = codigo /\ <<>> \in Seq(Marco) /\ N \in Nat
  BY LargoNat DEF IInv, TypeOK, InicializarPcb
<1>2. PICK p \in 1..(N + 1) :
        /\ Comienzo(p)
        /\ IF Proxima(p) <= N /\ L(Proxima(p)).op = "fin_programa"
             THEN pc' = Proxima(p) /\ pila' = <<>> /\ estado' = "listo"
             ELSE Posiciona(p, <<>>, "listo")
  BY DEF InicializarPcb
<1>3. p \in Nat \ {0} /\ EnOrden(<<>>)
  BY <1>1 DEF EnOrden
<1>4. BienFormado => /\ EnSeccion(p, Inicio(<<>>, 1))
                     /\ L(Proxima(p)).op # "fin_programa"
  BY <1>1, <1>2, ElComienzo
<1>5. CASE Proxima(p) <= N /\ L(Proxima(p)).op = "fin_programa"
  <2>1. pc' = Proxima(p) /\ pila' = <<>> /\ estado' = "listo"
    BY <1>2, <1>5
  <2>2. ~BienFormado /\ ~BienFormado'
    BY <1>1, <1>4, <1>5, MismoTexto
  <2>3. Proxima(p) \in Nat
    <3>1. Ejecutables(p) \in SUBSET Nat
      BY <1>1, <1>3 DEF Ejecutables
    <3> QED BY <1>1, <3>1, PrimeraEsMinima DEF Proxima
  <2>4. ~EsFuncion(L(pc))'
    BY <1>1, <1>5, <2>1, MismoTexto DEF EsFuncion
  <2> QED BY <1>1, <2>1, <2>2, <2>3, <2>4 DEF IInv, TypeOK
<1>6. CASE ~(Proxima(p) <= N /\ L(Proxima(p)).op = "fin_programa")
  BY <1>1, <1>2, <1>3, <1>4, <1>6, PosicionaIInv
<1> QED BY <1>5, <1>6

\* The steps that go on to the next line.
LEMMA PasoSiguiente ==
  ASSUME IInv, codigo' = codigo, estado = "listo", L(pc).op # "fin_funcion",
         NEW sigue \in {"listo", "en_io"}, Posiciona(pc + 1, pila, sigue)
  PROVE  IInv'
<1>1. codigo \in Seq(Linea) /\ pila \in Seq(Marco) /\ pc + 1 \in Nat \ {0}
  BY DEF IInv, TypeOK
<1>2. BienFormado => EnOrden(pila) /\ EnSeccion(pc + 1, Inicio(pila, 1))
  BY EnSuSeccion, Zenon
<1> QED BY <1>1, <1>2, PosicionaIInv

\* A jump stays in its section.
LEMMA PasoSalto ==
  ASSUME IInv, Salto
  PROVE  IInv'
<1> DEFINE l == L(pc)
           d == Direccion("etiqueta", l.etiqueta)
<1>1. /\ codigo \in Seq(Linea) /\ pila \in Seq(Marco) /\ pc \in Nat
      /\ codigo' = codigo /\ estado = "listo" /\ l.op \in {"ssc", "snc"}
  BY DEF IInv, TypeOK, Salto, En
<1>2. Posiciona(1 + d, pila, "listo") \/ Posiciona(1 + pc, pila, "listo")
  BY DEF Salto
<1>3. d \in Nat
  BY <1>1, DireccionNat
<1>4. CASE Posiciona(1 + d, pila, "listo")
  <2>1. ASSUME BienFormado
        PROVE  EnOrden(pila) /\ EnSeccion(1 + d, Inicio(pila, 1))
    <3> DEFINE a == Inicio(pila, 1)
    <3>1. N \in Nat /\ EnOrden(pila) /\ a \in Nat
      <4>1. EnOrden(pila) /\ a \in Nat
        BY <1>1, <2>1, EnSuSeccion, Zenon
      <4> QED BY <1>1, <4>1, LargoNat
    <3>2. PICK b \in 1..N : Seccion(a, b) /\ pc \in a..b
      BY <1>1, <2>1, EnSuSeccion DEF EnSeccion
    <3> HIDE DEF a
    <3>3. /\ a \in Lineas("comienzo_programa") \cup Lineas("comienzo_funcion")
          /\ L(a).op \notin {"ssc", "snc"} /\ L(b).op \notin {"ssc", "snc"}
      BY <3>1, <3>2 DEF Seccion, Lineas
    <3>4. pc \in (a + 1)..(b - 1)
      BY <1>1, <3>1, <3>2, <3>3
    <3>5. PICK c \in 1..N :
            /\ Seccion(a, c)
            /\ \A i \in (a + 1)..(c - 1) :
                 L(i).op \in {"ssc", "snc"} =>
                   /\ Direccion("etiqueta", L(i).etiqueta) \in (a + 1)..(c - 1)
      BY <2>1, <3>3 DEF BienFormado
    <3>6. b = c
      BY <1>1, <3>1, <3>2, <3>5, SeccionUnica
    <3>7. d \in (a + 1)..(b - 1)
      BY <1>1, <3>4, <3>5, <3>6
    <3>8. 1 + d \in a..b
      BY <3>1, <3>7
    <3> QED BY <3>1, <3>2, <3>8 DEF EnSeccion, a
  <2>2. 1 + d \in Nat \ {0}
    BY <1>3
  <2> QED BY <1>1, <1>4, <2>1, <2>2, PosicionaIInv
<1>5. CASE Posiciona(1 + pc, pila, "listo")
  <2>1. 1 + pc = pc + 1
    BY <1>1
  <2> QED BY <1>1, <1>5, <2>1, PasoSiguiente
<1> QED BY <1>2, <1>4, <1>5

\* A return goes to the section of the call.
LEMMA PasoFinFuncion ==
  ASSUME IInv, FinFuncion
  PROVE  IInv'
<1>1. /\ codigo \in Seq(Linea) /\ pila \in Seq(Marco) /\ pc \in Nat
      /\ codigo' = codigo /\ estado = "listo" /\ L(pc).op = "fin_funcion" /\ N \in Nat
  BY LargoNat DEF IInv, TypeOK, FinFuncion, En
<1>2. CASE pila = <<>>
  <2>1. estado' = "roto" /\ pc' = pc /\ pila' = pila
    BY <1>2 DEF FinFuncion
  <2>2. ~BienFormado
    <3> SUFFICES ASSUME BienFormado PROVE FALSE
      OBVIOUS
    <3>1. PICK p \in 1..(N + 1) : Comienzo(p)
      BY DEF BienFormado
    <3>2. Inicio(pila, 1) = p - 1 /\ L(p - 1).op = "comienzo_programa"
      BY <1>1, <1>2, <3>1, ElComienzo
    <3>3. Seccion(Inicio(pila, 1), pc)
      BY <1>1, EnSuSeccion
    <3> QED BY <1>1, <3>2, <3>3 DEF Seccion
  <2>3. ~BienFormado'
    BY <1>1, <2>2, MismoTexto
  <2> QED BY <1>1, <2>1, <2>3 DEF IInv, TypeOK
<1>3. CASE pila # <<>>
  <2> DEFINE m == Head(pila)
             s == Desapilada(pila)
  <2>1. /\ m = pila[1] /\ m \in Marco /\ 1 \in DOMAIN pila
        /\ s \in Seq(Marco) /\ Len(s) = Len(pila) - 1 /\ Len(pila) \in Nat
        /\ DOMAIN s = 1..Len(s) /\ DOMAIN pila = 1..Len(pila)
        /\ \A j \in 1..Len(s) : s[j] = pila[j + 1]
    BY <1>1, <1>3 DEF Desapilada
  <2>2. Retorno(pila) = m.retorno + 1 /\ Retorno(pila) \in Nat \ {0}
    BY <2>1 DEF Retorno, Marco
  <2>3. Posiciona(Retorno(pila), s, "listo")
    BY <1>3 DEF FinFuncion
  <2>4. ASSUME BienFormado
        PROVE  EnOrden(s) /\ EnSeccion(Retorno(pila), Inicio(s, 1))
    <3>1. EnOrden(pila)
      BY <1>1, <2>4, EnSuSeccion
    <3>2. \A j \in Nat \ {0} : Inicio(s, j) = Inicio(pila, j + 1)
      BY <1>1, <1>3, InicioDesapilada
    <3>3. EnOrden(s)
      <4> SUFFICES ASSUME NEW j \in 1..Len(s)
                   PROVE  /\ EnSeccion(s[j].retorno, Inicio(s, j + 1))
                          /\ L(s[j].retorno).op = "llamada"
                          /\ L(s[j].retorno).nombre = s[j].nombre
        BY <2>1 DEF EnOrden
      <4>1. j + 1 \in 1..Len(pila) /\ j + 1 \in Nat \ {0} /\ s[j] = pila[j + 1]
        BY <2>1
      <4>2. Inicio(s, j + 1) = Inicio(pila, (j + 1) + 1)
        BY <3>2, <4>1
      <4>3. /\ EnSeccion(pila[j + 1].retorno, Inicio(pila, (j + 1) + 1))
            /\ L(pila[j + 1].retorno).op = "llamada"
            /\ L(pila[j + 1].retorno).nombre = pila[j + 1].nombre
        BY <2>1, <3>1, <4>1 DEF EnOrden
      <4> QED BY <4>1, <4>2, <4>3
    <3>4. /\ EnSeccion(m.retorno, Inicio(pila, 1 + 1)) /\ L(m.retorno).op = "llamada"
      BY <2>1, <3>1 DEF EnOrden
    <3>5. Inicio(s, 1) = Inicio(pila, 1 + 1) /\ Inicio(s, 1) \in Nat
      BY <1>1, <2>1, <2>4, <3>2, InicioNat
    <3> DEFINE a == Inicio(s, 1)
    <3> HIDE DEF a, m, s
    <3>6. EnSeccion(m.retorno, a) /\ a \in Nat
      BY <3>4, <3>5 DEF a
    <3>7. PICK b \in 1..N : Seccion(a, b) /\ m.retorno \in a..b
      BY <3>6 DEF EnSeccion
    <3>8. m.retorno # b
      BY <3>4, <3>7 DEF Seccion
    <3>9. m.retorno + 1 \in a..b
      BY <1>1, <3>6, <3>7, <3>8
    <3>10. EnSeccion(Retorno(pila), a)
      BY <2>2, <3>7, <3>9 DEF EnSeccion
    <3> QED BY <3>3, <3>10 DEF a
  <2> HIDE DEF m, s
  <2> QED BY <1>1, <2>1, <2>2, <2>3, <2>4, PosicionaIInv
<1> QED BY <1>2, <1>3

LEMMA PasoIInv == IInv /\ [Next]_vars => IInv'
<1> SUFFICES ASSUME IInv, [Next]_vars PROVE IInv'
  OBVIOUS
<1>1. CASE InicializarPcb
  BY <1>1, PasoInicializar
<1>2. CASE Otra
  <2>1. codigo' = codigo /\ estado = "listo" /\ L(pc).op # "fin_funcion"
        /\ Posiciona(pc + 1, pila, "listo")
    BY <1>2 DEF Otra
  <2> QED BY <2>1, PasoSiguiente
<1>3. CASE FinFuncion
  BY <1>3, PasoFinFuncion
<1>4. CASE Salto
  BY <1>4, PasoSalto
<1>5. CASE Asigna
  <2>1. codigo' = codigo /\ estado = "listo" /\ L(pc).op # "fin_funcion"
        /\ Posiciona(pc + 1, pila, "listo")
    BY <1>5 DEF Asigna, En
  <2> QED BY <2>1, PasoSiguiente
<1>6. CASE Io
  <2>1. codigo' = codigo /\ estado = "listo" /\ L(pc).op # "fin_funcion"
    BY <1>6 DEF Io, En
  <2>2. Posiciona(pc + 1, pila, "listo") \/ Posiciona(pc + 1, pila, "en_io")
    BY <1>6 DEF Io
  <2> QED BY <2>1, <2>2, PasoSiguiente
<1>7. CASE Vuelve \/ UNCHANGED vars
  <2>1. /\ codigo' = codigo /\ pc' = pc /\ pila' = pila
        /\ estado' = estado \/ (estado = "en_io" /\ estado' = "listo")
    BY <1>7 DEF Vuelve, vars
  <2>2. BienFormado' => BienFormado
    BY <2>1, MismoTexto
  <2>3. Anidadas(pc, pila) => Anidadas(pc, pila)'
    BY <2>1, MismasAnidadas
  <2>4. L(pc)' = L(pc)
    BY <2>1 DEF L
  <2>5. EsFuncion(L(pc))' => EsFuncion(L(pc))
    BY <2>1, MismoTexto
  <2> QED BY <2>1, <2>2, <2>3, <2>4, <2>5 DEF IInv, TypeOK
<1> QED BY <1>1, <1>2, <1>3, <1>4, <1>5, <1>6, <1>7 DEF Next, Ejecuta

\* Every step of a program, well formed or not, keeps IInv, and with it TypeOK.
THEOREM InvarianteInterprete == Spec => []IInv
BY InicioIInv, PasoIInv, PTL DEF Spec

\* Calls nest, to any depth: each return goes to the call it is the end of, and
\* the main program ends with an empty stack.
THEOREM PilaCorrecta == Spec => []LlamadasAnidadas
<1>1. IInv => LlamadasAnidadas
  BY DEF IInv, LlamadasAnidadas
<1> QED BY <1>1, InvarianteInterprete, PTL

\* A well formed program never makes the interpreter read past its text or pop
\* an empty stack.
THEOREM BienFormadoNoRompe == Spec => []NuncaRoto
<1>1. IInv => NuncaRoto
  BY DEF IInv, NuncaRoto
<1> QED BY <1>1, InvarianteInterprete, PTL

\* No call is ever executed as an instruction: it was made before.
THEOREM LlamadasHechas == Spec => []NoEjecutaLlamadas
<1>1. IInv => NoEjecutaLlamadas
  BY DEF IInv, NoEjecutaLlamadas, EsFuncion
<1> QED BY <1>1, InvarianteInterprete, PTL

-----------------------------------------------------------------------------
(* The variables.                                                            *)

\* A name declared once at most has one value at most: what the first look-up
\* finds is then what was put last.
Corta(s) == s = <<>> \/ \E v : s = <<v>>

VInv ==
  /\ datos = [x \in Nombres |-> datos[x]]
  /\ \A x \in Nombres : Declaraciones(x) <= 1 => Corta(datos[x])

\* An assignment to such a name leaves it one value, the assigned one.
LEMMA AsignadoCorta ==
  ASSUME VInv, NEW x \in Nombres, Declaraciones(x) <= 1, NEW v
  PROVE  Asignado(x, v)[x] = <<v>>
<1>1. Asignado(x, v)[x] = IF datos[x] = <<>> THEN <<v>> ELSE Append(Tail(datos[x]), v)
  BY DEF VInv, Asignado
<1>2. CASE datos[x] = <<>>
  BY <1>1, <1>2
<1>3. CASE datos[x] # <<>>
  <2>1. PICK w : datos[x] = <<w>>
    BY <1>3 DEF VInv, Corta
  <2>2. Tail(<<w>>) = <<>> /\ Append(<<>>, v) = <<v>> /\ <<w>> # <<>>
    OBVIOUS
  <2> QED BY <1>1, <1>3, <2>1, <2>2
<1> QED BY <1>2, <1>3

\* ... and the others what they had.
LEMMA AsignadoVInv ==
  ASSUME VInv, NEW x, NEW v, datos' = Asignado(x, v), codigo' = codigo
  PROVE  VInv'
<1>1. datos' = [y \in Nombres |-> datos'[y]]
  BY DEF VInv, Asignado
<1>2. ASSUME NEW y \in Nombres, Declaraciones(y) <= 1
      PROVE  Corta(datos'[y])
  <2>1. CASE y = x
    BY <1>2, <2>1, AsignadoCorta DEF Corta
  <2>2. CASE y # x
    BY <1>2, <2>2 DEF VInv, Asignado, Corta
  <2> QED BY <2>1, <2>2
<1>3. \A y \in Nombres : Declaraciones(y)' = Declaraciones(y)
  BY DEF Declaraciones, Lineas, L, N
<1> QED BY <1>1, <1>2, <1>3 DEF VInv, Corta

\* cargar_variables.
LEMMA CargaVInv ==
  ASSUME IInv, InicializarPcb
  PROVE  VInv'
<1>1. /\ codigo \in Seq(Linea) /\ codigo' = codigo
      /\ datos' = [x \in Nombres |-> [i \in 1..Declaraciones(x) |-> 0]]
  BY DEF IInv, TypeOK, InicializarPcb
<1>2. ASSUME NEW x \in Nombres, Declaraciones(x) <= 1
      PROVE  Corta(datos'[x])
  <2>1. IsFiniteSet({i \in Lineas("variables") : L(i).nombre = x})
    <3>1. IsFiniteSet(1..N)
      BY <1>1, LargoNat, FS_Interval
    <3> QED BY <3>1, FS_Subset DEF Lineas
  <2>2. Declaraciones(x) \in 0..1
    BY <1>2, <2>1, FS_CardinalityType DEF Declaraciones
  <2>3. CASE Declaraciones(x) = 0
    <3>1. datos'[x] = <<>>
      BY <1>1, <2>3
    <3> QED BY <3>1 DEF Corta
  <2>4. CASE Declaraciones(x) = 1
    <3>1. datos'[x] = <<0>>
      BY <1>1, <2>4
    <3> QED BY <3>1 DEF Corta
  <2> QED BY <2>2, <2>3, <2>4
<1>3. \A y \in Nombres : Declaraciones(y)' = Declaraciones(y)
  BY <1>1 DEF Declaraciones, Lineas, L, N
<1>4. datos' = [x \in Nombres |-> datos'[x]]
  BY <1>1
<1> QED BY <1>2, <1>3, <1>4 DEF VInv, Corta

LEMMA MismasVInv ==
  ASSUME VInv, datos' = datos, codigo' = codigo
  PROVE  VInv'
<1>1. \A y \in Nombres : Declaraciones(y)' = Declaraciones(y)
  BY DEF Declaraciones, Lineas, L, N
<1> QED BY <1>1 DEF VInv, Corta

LEMMA PasoVInv == IInv /\ VInv /\ [Next]_vars => VInv'
<1> SUFFICES ASSUME IInv, VInv, [Next]_vars
             PROVE  VInv'
  OBVIOUS
<1>1. CASE InicializarPcb
  BY <1>1, CargaVInv
<1>2. CASE Otra \/ FinFuncion \/ Salto \/ Vuelve
  BY <1>2, MismasVInv DEF Otra, FinFuncion, Salto, Vuelve
<1>3. CASE Asigna
  BY <1>3, AsignadoVInv DEF Asigna
<1>4. CASE Io
  BY <1>4, AsignadoVInv, MismasVInv DEF Io
<1>5. CASE UNCHANGED vars
  BY <1>5, MismasVInv DEF vars
<1> QED BY <1>1, <1>2, <1>3, <1>4, <1>5 DEF Next, Ejecuta

\* procesar_asignacion removes the value of a variable and puts the new one:
\* what the next instruction reads is what was assigned, unless the text
\* declares the variable twice.
THEOREM LoAsignadoSeLee == Spec => AsignacionSeLee
<1>1. Init => VInv
  BY DEF Init, VInv, Corta
<1>2. IInv /\ VInv =>
        [\A x \in Nombres : Asigna /\ x = L(pc).nombre /\ Declaraciones(x) <= 1
           => Valor(x)' = Resultado(L(pc))]_vars
  <2> SUFFICES ASSUME IInv, VInv, NEW x \in Nombres, Asigna, x = L(pc).nombre,
                      Declaraciones(x) <= 1
               PROVE  Valor(x)' = Resultado(L(pc))
    OBVIOUS
  <2> DEFINE v == Resultado(L(pc))
  <2>1. datos' = Asignado(x, v)
    BY DEF Asigna
  <2>2. datos'[x] = <<v>>
    BY <2>1, AsignadoCorta
  <2> HIDE DEF v
  <2>3. Valor(x)' = v
    BY <2>2 DEF Valor
  <2> QED BY <2>3 DEF v
<1>3. Spec => []IInv
  BY InvarianteInterprete
<1>4. Spec => []VInv
  BY <1>1, <1>3, PasoVInv, PTL DEF Spec
<1> QED BY <1>2, <1>3, <1>4, PTL DEF AsignacionSeLee
=============================================================================
