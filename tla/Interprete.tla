----------------------------- MODULE Interprete -----------------------------
(***************************************************************************)
(* parser.c: how one program is loaded and run, line by line.  Procer.tla  *)
(* sees a program as the list of what its instructions ask for; this       *)
(* module is where that list comes from: jumps, calls, returns, variables, *)
(* and the search for the next line that can be executed.                  *)
(*                                                                         *)
(* A line is a record of what the parser sees in it: its operation, a name *)
(* (of a function, a label or a variable), a label, whether an I/O blocks, *)
(* and the expression of an assignment.  Lines are numbered from 1, one    *)
(* more than in the code, so that line 1 is the address that NULL, the     *)
(* answer for an unknown key, stands for.                                  *)
(***************************************************************************)
EXTENDS Integers, Sequences, FiniteSets

CONSTANTS
  Programas,     \* what the clients may send: sequences of lines
  Nombres,       \* of variables, functions and labels
  AnchoLong, AnchoInt, \* bounds: a long has 2^AnchoLong values, an int 2^AnchoInt
  MaxPila        \* bound: calls under way

Linea == [op : STRING, nombre : Nombres, etiqueta : Nombres, bloquea : BOOLEAN,
          menos : BOOLEAN, izq : [lit : Int, var : Nombres], signo : STRING,
          der : [lit : Int, var : Nombres]]

ASSUME ProgramasAssumption ==
  /\ \A p \in Programas : p \in Seq(Linea)
  /\ AnchoLong \in Nat \ {0} /\ AnchoInt \in Nat \ {0} /\ MaxPila \in Nat

VARIABLES
  codigo, estado, pc, pila,
  datos   \* what the dictionary holds under each name, oldest first

vars == <<codigo, estado, pc, pila, datos>>

N == Len(codigo)
L(i) == codigo[i]

\* Seeded faults, not used by any action: a stack that is a queue; a pop that
\* takes everything; a return to the call itself; only the first function is
\* known; an assignment that does not take the old value out.
AlFinal(r, s) == Append(s, r)
Vaciada(s) == <<>>
RetornoALaLlamada(s) == Head(s).retorno
SinAncho(v, ancho) == v

Lineas(op) == {i \in 1..N : L(i).op = op}

\* The first line that declares a name, or line 1: dictionary_get of d_funciones
\* and d_etiquetas.
Primera(S) == IF S = {} THEN 1 ELSE CHOOSE i \in S : \A j \in S : i <= j
Direccion(op, n) == Primera({i \in Lineas(op) : L(i).nombre = n})

EsLaPrimera(l) ==
  l.op = "llamada" /\ L(Primera(Lineas("comienzo_funcion"))).nombre = l.nombre
EsFuncion(l) ==
  l.op = "llamada" /\ \E i \in Lineas("comienzo_funcion") : L(i).nombre = l.nombre

\* Comments and blank lines, and labels.
Salteable(l) == l.op \in {"comentario", "etiqueta"}

\* Where the search from p stops; N + 1 is the NULL that follows the text.
Ejecutables(p) == {i \in p..N : ~Salteable(L(i))}
Proxima(p) == IF Ejecutables(p) = {} THEN N + 1 ELSE Primera(Ejecutables(p))

\* stack_push, stack_pop, and where a call returns to.
Apilada(r, s) == <<r>> \o s
Desapilada(s) == Tail(s)
Retorno(s) == Head(s).retorno + 1

\* dictionary_get: 0 for a name that is not there.
Valor(x) == IF datos[x] = <<>> THEN 0 ELSE Head(datos[x])

AsignadoSinSacar(x, v) == [datos EXCEPT ![x] = Append(@, v)]

\* dictionary_remove and dictionary_put: the oldest goes, the new one is last.
Asignado(x, v) ==
  [datos EXCEPT ![x] = IF @ = <<>> THEN <<v>> ELSE Append(Tail(@), v)]

\* A value in a type of 2^ancho values.
Ajusta(v, ancho) == ((v + 2^(ancho - 1)) % 2^ancho) - 2^(ancho - 1)

\* strtol of a name is 0, and a sum looks a name up first; a single operand is
\* never looked up.
Operando(o) == IF datos[o.var] = <<>> THEN o.lit ELSE Head(datos[o.var])
Resultado(l) ==
  LET s == IF l.menos THEN -1 ELSE 1 IN
  Ajusta(CASE l.signo = "+" -> Operando(l.izq) * s + Operando(l.der)
           [] l.signo = "-" -> Operando(l.izq) * s - Operando(l.der)
           [] OTHER -> l.izq.lit * s, AnchoLong)

-----------------------------------------------------------------------------
Init ==
  /\ codigo \in Programas
  /\ estado = "nuevo" /\ pc = 1 /\ pila = <<>>
  /\ datos = [x \in Nombres |-> <<>>]

\* posicionarse_proxima_instruccion_ejecutable, from line p with stack s: past
\* the text the program breaks, fin_programa ends it, and a call is made at
\* once (procesar_funcion), leaving the program counter at comienzo_funcion.
Posiciona(p, s, sigue) ==
  LET k == Proxima(p) IN
  IF k > N
    THEN pc' = k /\ pila' = s /\ estado' = "roto"
  ELSE IF L(k).op = "fin_programa"
    THEN pc' = k /\ pila' = s /\ estado' = "fin"
  ELSE IF EsFuncion(L(k))
    THEN /\ Len(s) < MaxPila
         /\ pc' = Direccion("comienzo_funcion", L(k).nombre)
         /\ pila' = Apilada([retorno |-> k, nombre |-> L(k).nombre], s)
         /\ estado' = sigue
  ELSE pc' = k /\ pila' = s /\ estado' = sigue

\* How often a name is declared: cargar_variables puts it once for each.
Declaraciones(x) == Cardinality({i \in Lineas("variables") : L(i).nombre = x})

\* The line after the last comienzo_programa.  Without one, the program
\* counter is what malloc left there.
Comienzo(p) ==
  IF Lineas("comienzo_programa") = {} THEN p \in 1..(N + 1)
  ELSE p - 1 \in Lineas("comienzo_programa")
         /\ \A i \in Lineas("comienzo_programa") : i < p

\* inicializar_pcb.  It does not look at what posicionarse answers: a program
\* that ends at once goes on to execute its fin_programa.
InicializarPcb ==
  /\ estado = "nuevo"
  /\ datos' = [x \in Nombres |-> [i \in 1..Declaraciones(x) |-> 0]]
  /\ \E p \in 1..(N + 1) :
       /\ Comienzo(p)
       /\ IF Proxima(p) <= N /\ L(Proxima(p)).op = "fin_programa"
            THEN pc' = Proxima(p) /\ pila' = <<>> /\ estado' = "listo"
            ELSE Posiciona(p, <<>>, "listo")
  /\ UNCHANGED codigo

-----------------------------------------------------------------------------
(* ejecutarInstruccion: one action per kind of line.                         *)

En(op) == estado = "listo" /\ L(pc).op \in op

\* Lines that change nothing the next one sees: imprimir, a call of a function
\* that does not exist, comienzo_funcion, and whatever is not recognized.
Otra ==
  /\ estado = "listo"
  /\ L(pc).op \notin {"fin_funcion", "ssc", "snc", "io", "asigna", "asigna_io"}
  /\ Posiciona(pc + 1, pila, "listo")
  /\ UNCHANGED <<codigo, datos>>

\* procesar_fin_funcion: stack_pop of an empty stack is NULL.
FinFuncion ==
  /\ En({"fin_funcion"})
  /\ IF pila = <<>>
       THEN estado' = "roto" /\ UNCHANGED <<pc, pila>>
       ELSE Posiciona(Retorno(pila), Desapilada(pila), "listo")
  /\ UNCHANGED <<codigo, datos>>

\* procesar_salto: ssc jumps on zero and snc on anything else, of the variable
\* seen as an int.
Salto ==
  /\ En({"ssc", "snc"})
  /\ LET l == L(pc)
         cero == Ajusta(Valor(l.nombre), AnchoInt) = 0
     IN Posiciona(1 + (IF cero = (l.op = "ssc") THEN Direccion("etiqueta", l.etiqueta)
                       ELSE pc), pila, "listo")
  /\ UNCHANGED <<codigo, datos>>

\* The numeric branch of procesar_asignacion.
Asigna ==
  /\ En({"asigna"})
  /\ datos' = Asignado(L(pc).nombre, Resultado(L(pc)))
  /\ Posiciona(pc + 1, pila, "listo")
  /\ UNCHANGED codigo

\* procesar_io and the I/O branch of procesar_asignacion: the program leaves
\* the CPU, or goes on when no thread was free and it would not wait.
Io ==
  /\ En({"io", "asigna_io"})
  /\ \E pudo \in IF L(pc).bloquea THEN {TRUE} ELSE BOOLEAN :
       /\ datos' = IF L(pc).op = "io" THEN datos
                   ELSE Asignado(L(pc).nombre, IF pudo THEN 1 ELSE 0)
       /\ Posiciona(pc + 1, pila, IF pudo THEN "en_io" ELSE "listo")
  /\ UNCHANGED codigo

\* The I/O is over and the program has the CPU again.
Vuelve ==
  /\ estado = "en_io" /\ estado' = "listo"
  /\ UNCHANGED <<codigo, pc, pila, datos>>

Ejecuta == Otra \/ FinFuncion \/ Salto \/ Asigna \/ Io

Next == InicializarPcb \/ Ejecuta \/ Vuelve

Spec == Init /\ [][Next]_vars
EspecJusta == Spec /\ WF_vars(Next)

-----------------------------------------------------------------------------
(* Properties.                                                               *)

\* A call under way: where it was made, and of what.
Marco == [retorno : Nat, nombre : Nombres]

\* The program counter and the stack hold lines of some text.
TypeOK ==
  /\ codigo \in Seq(Linea)
  /\ pila \in Seq(Marco)
  /\ pc \in Nat
  /\ estado \in {"nuevo", "listo", "en_io", "fin", "roto"}

\* Lines a to b are a function or the main program.
Limites == {"comienzo_programa", "fin_programa", "comienzo_funcion", "fin_funcion"}
Seccion(a, b) ==
  /\ 1 <= a /\ a < b /\ b <= N
  /\ <<L(a).op, L(b).op>> \in {<<"comienzo_programa", "fin_programa">>,
                              <<"comienzo_funcion", "fin_funcion">>}
  /\ \A i \in (a + 1)..(b - 1) : L(i).op \notin Limites

EnSeccion(i, a) == \E b \in 1..N : Seccion(a, b) /\ i \in a..b

\* What a reader can check in a text: every beginning has its end, a jump goes
\* to a label of its section, and the main program has something to execute.
BienFormado ==
  /\ \A a \in Lineas("comienzo_programa") \cup Lineas("comienzo_funcion") :
       \E b \in 1..N :
         /\ Seccion(a, b)
         /\ \A i \in (a + 1)..(b - 1) :
              L(i).op \in {"ssc", "snc"} =>
                /\ Direccion("etiqueta", L(i).etiqueta) \in (a + 1)..(b - 1)
  /\ Lineas("comienzo_programa") # {}
  /\ \E p \in 1..(N + 1) : /\ Comienzo(p) /\ EnSeccion(p, p - 1)
                           /\ L(Proxima(p)).op # "fin_programa"

\* The interpreter neither reads past the text nor returns from a call nobody
\* made, unless the text itself is wrong: nothing in parser.c checks either.
NuncaRoto == BienFormado => estado # "roto"

\* Where the section of the k-th call from the top of a stack begins; below all
\* of them is the main program.
Inicio(s, k) ==
  IF k <= Len(s) THEN Direccion("comienzo_funcion", s[k].nombre)
  ELSE CHOOSE a \in 1..N : Comienzo(a + 1)

\* Line p is in the function on the top of the stack, and each return address
\* is a call of that function in the section of the next one.
Anidadas(p, s) ==
  /\ EnSeccion(p, Inicio(s, 1))
  /\ \A k \in DOMAIN s :
       /\ EnSeccion(s[k].retorno, Inicio(s, k + 1))
       /\ L(s[k].retorno).op = "llamada"
       /\ L(s[k].retorno).nombre = s[k].nombre

\* The program counter never leaves the function that was called last, however
\* calls are nested, and every return goes to the call it is the end of.  So
\* fin_programa is reached with an empty stack.
LlamadasAnidadas ==
  BienFormado /\ estado \in {"listo", "en_io", "fin"} => Anidadas(pc, pila)

\* "No deberia ejecutar la funcion como instruccion" (ejecutarInstruccion): a
\* call has always been made before the program has the CPU.
NoEjecutaLlamadas ==
  estado \in {"listo", "en_io"} /\ L(pc).op = "llamada" =>
    \A i \in Lineas("comienzo_funcion") : L(i).nombre # L(pc).nombre

\* What is assigned to a variable is what the next instruction reads, unless
\* it is declared twice: then the second, older, value is read.
AsignacionSeLee ==
  [][\A x \in Nombres : Asigna /\ x = L(pc).nombre /\ Declaraciones(x) <= 1
       => Valor(x)' = Resultado(L(pc))]_vars

\* Jumps go forward, and a function calls only those that come after it.
SoloAdelante ==
  \A i \in 1..N :
    /\ L(i).op \in {"ssc", "snc"} => Direccion("etiqueta", L(i).etiqueta) > i
    /\ EsFuncion(L(i)) =>
         LET d == Direccion("comienzo_funcion", L(i).nombre) IN
         d > i \/ (\A f \in Lineas("comienzo_funcion") : ~EnSeccion(i, f))

\* Such a program ends: calls return, and nothing is executed for ever.
Termina ==
  (estado = "nuevo" /\ BienFormado /\ SoloAdelante) ~> (estado = "fin")
=============================================================================
