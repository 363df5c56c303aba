---------------------------- MODULE CicloDeVida ----------------------------
(***************************************************************************)
(* What PROCER promises about its processes, without threads or queues: at *)
(* most MPS processes are in the system and at most MMP in memory; a       *)
(* process is refused only when the system is full; it runs only while in  *)
(* memory; a suspended one gives its memory back before it may be resumed; *)
(* and one that ended returns each of its two slots exactly once.          *)
(* Procer.tla is shown to implement it (ProcerCiclo.tla).                  *)
(***************************************************************************)
EXTENDS Naturals, FiniteSets

CONSTANTS Procesos, MPS, MMP

VARIABLES
  etapa,     \* where each process is in its life
  sistema,   \* the processes that hold a slot of the system
  memoria    \* the processes that hold a slot of memory

vars == <<etapa, sistema, memoria>>

Etapas == {"nueva", "rechazada", "activa", "suspendida", "concluida"}

Init ==
  /\ etapa = [p \in Procesos |-> "nueva"]
  /\ sistema = {} /\ memoria = {}

Cambia(p, desde, hasta) ==
  /\ etapa[p] = desde
  /\ etapa' = [etapa EXCEPT ![p] = hasta]

Acepta(p) ==
  /\ Cardinality(sistema) < MPS
  /\ Cambia(p, "nueva", "activa")
  /\ sistema' = sistema \cup {p}
  /\ UNCHANGED memoria

Rechaza(p) ==
  /\ Cardinality(sistema) = MPS
  /\ Cambia(p, "nueva", "rechazada")
  /\ UNCHANGED <<sistema, memoria>>

Admite(p) ==
  /\ etapa[p] = "activa" /\ p \notin memoria
  /\ Cardinality(memoria) < MMP
  /\ memoria' = memoria \cup {p}
  /\ UNCHANGED <<etapa, sistema>>

Suspende(p) ==
  /\ p \in memoria
  /\ Cambia(p, "activa", "suspendida")
  /\ UNCHANGED <<sistema, memoria>>

Reanuda(p) ==
  /\ p \notin memoria
  /\ Cambia(p, "suspendida", "activa")
  /\ UNCHANGED <<sistema, memoria>>

Concluye(p) ==
  /\ p \in memoria
  /\ Cambia(p, "activa", "concluida")
  /\ UNCHANGED <<sistema, memoria>>

LiberaMemoria(p) ==
  /\ etapa[p] \in {"suspendida", "concluida"}
  /\ p \in memoria
  /\ memoria' = memoria \ {p}
  /\ UNCHANGED <<etapa, sistema>>

LiberaSistema(p) ==
  /\ etapa[p] = "concluida"
  /\ p \in sistema
  /\ sistema' = sistema \ {p}
  /\ UNCHANGED <<etapa, memoria>>

Next == \E p \in Procesos :
  \/ Acepta(p) \/ Rechaza(p) \/ Admite(p) \/ Suspende(p) \/ Reanuda(p)
  \/ Concluye(p) \/ LiberaMemoria(p) \/ LiberaSistema(p)

Spec == Init /\ [][Next]_vars
=============================================================================
