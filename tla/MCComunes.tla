----------------------------- MODULE MCComunes -----------------------------
(* Instances for TLC of the two libraries of src/procer/commons that keep no *)
(* state in common: ListaEnlazada, with cells in any order in memory, and    *)
(* Red, with a priority, a program and a request to resume, and files of 0   *)
(* to 3 bytes, whose '\0' is counted.  They share nothing, so the run takes  *)
(* each of them from the initial state of the other.                         *)
EXTENDS ListaEnlazada, Red

CONSTANTS e1, e2, e3

MCMenor == {<<a, b>> \in Valores \X Valores : a < b}

MCConversaciones ==
  {<< [archivo |-> FALSE, largo |-> 1], [archivo |-> TRUE, largo |-> n],
      [archivo |-> FALSE, largo |-> 3] >> : n \in 1..4}

MCInit == Init /\ InitRed

MCNext == \/ Next /\ InitRed /\ UNCHANGED varsRed
          \/ NextRed /\ Init /\ UNCHANGED vars

\* Fair to the connection, so the behaviours of this formula are those of Red;
\* the histories of the list, which has no temporal property, are their prefixes.
MCEspec == MCInit /\ [][MCNext]_<<vars, varsRed>>
                  /\ WF_varsRed(Envia) /\ WF_varsRed(Receptor)
=============================================================================
