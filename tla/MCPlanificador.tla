--------------------------- MODULE MCPlanificador ---------------------------
(* Instances of Planificador for TLC.                                        *)
EXTENDS Planificador

CONSTANTS p1, p2, p3

\* Two equal priorities, and programs whose lengths order them another way.
MCPrioridad == [p \in Procesos |-> IF p = p3 THEN 0 ELSE 1]
MCLineas == [p \in Procesos |-> IF p = p1 THEN 1 ELSE 2]

LapDePP == <<"fin_quantum", "fin_bloqueados", "nuevos", "reanudar">>
LapInversa == <<"reanudar", "nuevos", "fin_bloqueados", "fin_quantum">>

Conf(a, l) == [algoritmo |-> a, quantum |-> 1, lap |-> l]

MCConfiguraciones == {Conf("RR", LapDePP), Conf("PRI", LapInversa),
                      Conf("SPN", LapInversa)}
=============================================================================
