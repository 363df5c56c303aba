---------------------------- MODULE MCInterprete ----------------------------
(* Instances of Interprete for TLC: short main programs of any lines, with   *)
(* the functions f, which calls g, and g.                                    *)
EXTENDS Interprete

MCNombres == {"x", "f", "g", "e", "lit"}

Var(x) == [lit |-> 0, var |-> x]
Num(n) == [lit |-> n, var |-> "lit"]

Dice(op, n) == [op |-> op, nombre |-> n, etiqueta |-> "e", bloquea |-> TRUE,
                menos |-> FALSE, izq |-> Num(1), signo |-> "no", der |-> Num(0)]

MCLinea == [
  nada |-> Dice("comentario", "lit"), e |-> Dice("etiqueta", "e"),
  vars |-> Dice("variables", "x"),
  ssc |-> Dice("ssc", "x"), snc |-> Dice("snc", "x"),
  llama_f |-> Dice("llamada", "f"), llama_g |-> Dice("llamada", "g"),
  programa |-> Dice("comienzo_programa", "lit"), fin |-> Dice("fin_programa", "lit"),
  fun_f |-> Dice("comienzo_funcion", "f"), fun_g |-> Dice("comienzo_funcion", "g"),
  vuelve |-> Dice("fin_funcion", "lit"),
  uno |-> Dice("asigna", "x"),
  suma |-> [Dice("asigna", "x") EXCEPT !.izq = Var("x"), !.signo = "+", !.der = Num(1)],
  resta |-> [Dice("asigna", "x") EXCEPT !.menos = TRUE, !.izq = Var("x"), !.signo = "-"],
  io |-> Dice("io", "lit"),
  io_nb |-> [Dice("asigna_io", "x") EXCEPT !.bloquea = FALSE] ]

EnCuerpo == DOMAIN MCLinea \ {"vars", "programa", "fun_f", "fun_g"}

Hasta(n, S) == UNION {[1..k -> S] : k \in 0..n}

F == <<"fun_f", "llama_g", "vuelve">>
G(l) == <<"fun_g", l, "vuelve">>

\* Any three lines between the declarations and the functions, with and without
\* fin_programa, and any three lines.
MCTextos ==
  LET antes == {<<"vars", "programa">>, <<"vars", "vars", "nada", "programa">>}
      despues == {<<"fin">> \o F \o G("suma"), <<"fin">> \o G("ssc") \o F, <<>>}
  IN {a \o c \o d : a \in antes, c \in Hasta(3, EnCuerpo), d \in despues}
     \cup Hasta(3, {"programa", "fin", "llama_f", "fun_f", "vuelve", "snc"})

MCProgramas == {[i \in DOMAIN t |-> MCLinea[t[i]]] : t \in MCTextos}
=============================================================================
