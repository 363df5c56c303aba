---------------------------- MODULE ProcerCiclo ----------------------------
(* Procer implements CicloDeVida: the refinement mapping.                    *)
EXTENDS Procer

\* The stage of p follows from the place of its PCB.
EtapaDe(p) ==
  CASE p \in grupo["afuera"] -> "nueva"
    [] p \in grupo["rechazado"] -> "rechazada"
    [] p \in grupo["suspendidos"] -> "suspendida"
    [] p \in EnAlguno(LugaresFin) -> "concluida"
    [] OTHER -> "activa"

Ciclo == INSTANCE CicloDeVida WITH
  etapa <- [p \in Procesos |-> EtapaDe(p)],
  sistema <- ConMps,
  memoria <- ConMmp

\* Every run of the threads is a run of the life cycle: the caps hold at each
\* admission, a refusal finds the system full, a slot is returned once and only
\* by a process that ended or was suspended (pp.c, server.c:134-150).
ImplementaCiclo == Ciclo!Spec
=============================================================================
