---------------------------- MODULE Planificador ----------------------------
(***************************************************************************)
(* The order in which processes get the CPU: the STS merges four queues    *)
(* into cola_listos in the order of lista_auxiliar_prioridades, procer     *)
(* takes the first one and keeps its burst, and monitorear_configuracion   *)
(* replaces the comparator, the quantum and the priorities of the queues   *)
(* when pp.conf changes, and sorts cola_listos again.                      *)
(*                                                                         *)
(* Where a PCB is when it is in none of these (blocked, in I/O, suspended) *)
(* is Procer.tla: here it is away until it is pushed to its next queue.    *)
(***************************************************************************)
EXTENDS FiniteSets, Listas

CONSTANTS
  Procesos,
  Prioridad,        \* [Procesos -> 0..20]: what pi sends
  Lineas,           \* [Procesos -> Nat]: the length of the program
  Instrucciones,    \* bound: instructions a process executes
  Configuraciones,  \* contents of pp.conf: [algoritmo, quantum, lap]
  Recargas,         \* bound: how often pp.conf is edited
  Nadie

ColasSts == {"nuevos", "reanudar", "fin_quantum", "fin_bloqueados"}
Comparadores == {"antiguo", "prioridad", "rafaga"}

ASSUME PlanificadorAssumption ==
  /\ IsFiniteSet(Procesos) /\ Nadie \notin Procesos
  /\ Prioridad \in [Procesos -> 0..20] /\ Lineas \in [Procesos -> Nat]
  /\ Instrucciones \in Nat \ {0} /\ Recargas \in Nat

\* The PRI_* of pp.conf are 1 to 4 in some order, and RR has a Q_EXP.
ASSUME ConfiguracionesAssumption ==
  \A c \in Configuraciones :
    /\ c.algoritmo \in {"FIFO", "RR", "PRI", "SPN"} /\ c.quantum \in Nat
    /\ c.lap \in SetToSeqs(ColasSts)

VARIABLES
  cola,                        \* the four queues
  listos,                      \* cola_listos, by PCB
  llegadas,                    \* the PCBs with a tiempo_entrada_listos, by it
  lista_auxiliar_prioridades,  \* the four queues, in the order of the STS
  algoritmo_ordenamiento,
  quantum,
  ultima_rafaga,
  valor_estimacion_anterior,   \* in units of 1 / Escala
  restan,                      \* instructions not executed yet
  destino,                     \* the queue a PCB that is away comes to
  sts, procer, monitor,        \* the locals of the three threads
  recargas,
  desorden                     \* since the last sort, what has disturbed listos

pcbs == <<ultima_rafaga, valor_estimacion_anterior, restan, destino>>
configuracion == <<lista_auxiliar_prioridades, algoritmo_ordenamiento, quantum,
                   monitor, recargas>>
vars == <<cola, listos, llegadas, pcbs, configuracion, sts, procer, desorden>>

\* 2 ^ Instrucciones: an estimate is halved once per dispatch, and a dispatch
\* executes something.
Escala ==
  LET potencia[n \in 0..Instrucciones] == IF n = 0 THEN 1 ELSE 2 * potencia[n - 1]
  IN potencia[Instrucciones]

\* calcular_rafaga, with FACTOR_AJUSTE_SPN 0.5.
calcular_rafaga(anterior, ultima) == (ultima * Escala + anterior) \div 2

Estimacion(p) == calcular_rafaga(valor_estimacion_anterior[p], ultima_rafaga[p])

\* es_primer_pcb_mas_antiguo, es_primer_pcb_de_menor_prioridad and
\* es_primer_pcb_de_rafaga_mas_corta, all strict.
Menor(c, a, b) ==
  CASE c = "antiguo" -> \E i, j \in DOMAIN llegadas :
                          i < j /\ llegadas[i] = a /\ llegadas[j] = b
    [] c = "prioridad" -> Prioridad[a] < Prioridad[b]
    [] c = "rafaga" -> Estimacion(a) < Estimacion(b)

Relacion(c) == {par \in Procesos \X Procesos : Menor(c, par[1], par[2])}

ComparadorDe(algoritmo) ==
  CASE algoritmo \in {"FIFO", "RR"} -> "antiguo"
    [] algoritmo = "PRI" -> "prioridad"
    [] algoritmo = "SPN" -> "rafaga"

QuantumDe(conf) == IF conf.algoritmo = "RR" THEN conf.quantum ELSE 0

\* asignar_lista_lap replaces one entry for each of these, in this order.
OrdenDeAsignacion == <<"nuevos", "reanudar", "fin_quantum", "fin_bloqueados">>

-----------------------------------------------------------------------------
(* Seeded faults, not used by any action.                                    *)

\* list_ordered_insert goes before its equals.
InsertaAntesDeIguales(s, e, menor) ==
  LET k == CHOOSE k \in 1..(Len(s) + 1) :
             /\ k <= Len(s) => <<s[k], e>> \notin menor
             /\ \A i \in 1..(k - 1) : <<s[i], e>> \in menor
  IN InsertAt(s, k, e)

StsInsertaAntes ==
  /\ sts.fase = "inserta"
  /\ listos' = InsertaAntesDeIguales(listos, sts.pcb, Relacion(sts.comparador))
  /\ sts' = [sts EXCEPT !.fase = "busca", !.pcb = Nadie]
  /\ desorden' = IF sts.comparador = algoritmo_ordenamiento THEN desorden
                 ELSE desorden \cup {"comparador viejo"}
  /\ UNCHANGED <<cola, llegadas, pcbs, configuracion, procer>>

\* The comparator is kept from one element of the queues to the next.
StsLeeUnaVez ==
  /\ sts.fase = "tiene"
  /\ llegadas' = Append(llegadas, sts.pcb)
  /\ sts' = [sts EXCEPT !.fase = "inserta"]
  /\ UNCHANGED <<cola, listos, pcbs, configuracion, procer, desorden>>

\* The reload does not sort.
RecargaSinOrdenar ==
  /\ monitor.fase = "orden"
  /\ monitor' = [monitor EXCEPT !.fase = "espera"]
  /\ desorden' = {}
  /\ UNCHANGED <<cola, listos, llegadas, lista_auxiliar_prioridades,
                 algoritmo_ordenamiento, quantum, recargas, pcbs, sts, procer>>

\* A dispatch does not take its PCB from the list.
ProcerTomaSinSacar ==
  LET p == Head(listos) IN
  /\ procer.fase = "espera" /\ listos # <<>>
  /\ valor_estimacion_anterior' = [valor_estimacion_anterior EXCEPT ![p] = Estimacion(p)]
  /\ ultima_rafaga' = [ultima_rafaga EXCEPT ![p] = 0]
  /\ procer' = [fase |-> "ejecuta", pcb |-> p, sigue |-> TRUE]
  /\ UNCHANGED <<cola, listos, llegadas, restan, destino, configuracion, sts, desorden>>

\* PRI_LFINIO is not assigned.
RecargaLapIncompleta ==
  LET q == OrdenDeAsignacion[monitor.falta] IN
  /\ monitor.fase = "lap"
  /\ lista_auxiliar_prioridades' =
       [i \in 1..4 |-> IF monitor.conf.lap[i] = q THEN q
                       ELSE lista_auxiliar_prioridades[i]]
  /\ monitor' = IF monitor.falta = 3 THEN [monitor EXCEPT !.fase = "orden"]
                ELSE [monitor EXCEPT !.falta = @ + 1]
  /\ UNCHANGED <<cola, listos, llegadas, algoritmo_ordenamiento, quantum,
                 recargas, pcbs, sts, procer, desorden>>

-----------------------------------------------------------------------------
\* inicializar_configuracion has read pp.conf.
Init ==
  \E conf \in Configuraciones :
  /\ cola = [q \in ColasSts |-> <<>>]
  /\ listos = <<>> /\ llegadas = <<>>
  /\ lista_auxiliar_prioridades = conf.lap
  /\ algoritmo_ordenamiento = ComparadorDe(conf.algoritmo)
  /\ quantum = QuantumDe(conf)
  /\ ultima_rafaga = [p \in Procesos |-> 0]
  /\ valor_estimacion_anterior = [p \in Procesos |-> Lineas[p] * Escala]
  /\ restan = [p \in Procesos |-> Instrucciones]
  /\ destino = [p \in Procesos |-> "nuevos"]
  /\ sts = [fase |-> "busca", indice |-> 1, pcb |-> Nadie,
            comparador |-> algoritmo_ordenamiento]
  /\ procer = [fase |-> "espera", pcb |-> Nadie, sigue |-> FALSE]
  /\ monitor = [fase |-> "espera", falta |-> 1, conf |-> conf]
  /\ recargas = 0 /\ desorden = {}

\* A thread of PP pushes a PCB that is ready again to one of the four queues.
Llega(p) ==
  /\ destino[p] \in ColasSts
  /\ cola' = [cola EXCEPT ![destino[p]] = Append(@, p)]
  /\ destino' = [destino EXCEPT ![p] = "adentro"]
  /\ UNCHANGED <<listos, llegadas, ultima_rafaga, valor_estimacion_anterior,
                 restan, configuracion, sts, procer, desorden>>

-----------------------------------------------------------------------------
(* sts: encolar_en_listos, again and again.                                  *)

\* sync_queue_try_pop of the next queue of the list; once one gave a PCB the
\* others are passed over.
StsBusca ==
  LET q == lista_auxiliar_prioridades[sts.indice] IN
  /\ sts.fase = "busca"
  /\ IF cola[q] = <<>>
       THEN /\ sts' = [sts EXCEPT !.indice = IF @ = 4 THEN 1 ELSE @ + 1]
            /\ UNCHANGED cola
       ELSE /\ sts' = [sts EXCEPT !.fase = "tiene", !.indice = 1, !.pcb = Head(cola[q])]
            /\ cola' = [cola EXCEPT ![q] = Tail(@)]
  /\ UNCHANGED <<listos, llegadas, pcbs, configuracion, procer, desorden>>

\* gettimeofday, and the comparator is read for the call that follows.
StsLee ==
  /\ sts.fase = "tiene"
  /\ llegadas' = Append(llegadas, sts.pcb)
  /\ sts' = [sts EXCEPT !.fase = "inserta", !.comparador = algoritmo_ordenamiento]
  /\ UNCHANGED <<cola, listos, pcbs, configuracion, procer, desorden>>

\* sync_queue_ordered_insert.
StsInserta ==
  /\ sts.fase = "inserta"
  /\ listos' = InsertaOrdenado(listos, sts.pcb, Relacion(sts.comparador))
  /\ sts' = [sts EXCEPT !.fase = "busca", !.pcb = Nadie]
  /\ desorden' = IF sts.comparador = algoritmo_ordenamiento THEN desorden
                 ELSE desorden \cup {"comparador viejo"}
  /\ UNCHANGED <<cola, llegadas, pcbs, configuracion, procer>>

Sts == StsBusca \/ StsLee \/ StsInserta

-----------------------------------------------------------------------------
(* procer: dispatch, and the count of the burst.                             *)

ProcerToma ==
  LET p == Head(listos) IN
  /\ procer.fase = "espera" /\ listos # <<>>
  /\ listos' = Tail(listos)
  /\ llegadas' = RemoveFirst(llegadas, p)
  /\ valor_estimacion_anterior' = [valor_estimacion_anterior EXCEPT ![p] = Estimacion(p)]
  /\ ultima_rafaga' = [ultima_rafaga EXCEPT ![p] = 0]
  /\ procer' = [fase |-> "ejecuta", pcb |-> p, sigue |-> TRUE]
  /\ UNCHANGED <<cola, restan, destino, configuracion, sts, desorden>>

\* What follows an instruction: the end, an I/O or a suspension take the PCB
\* away; an exhausted quantum pushes it back; or it goes on.
Sale(p, adonde) ==
  /\ procer' = [procer EXCEPT !.fase = "cuenta", !.sigue = FALSE]
  /\ destino' = [destino EXCEPT ![p] = adonde]
  /\ UNCHANGED cola

SinQuantum(p) == quantum > 0 /\ ultima_rafaga[p] + 1 >= quantum

ProcerEjecuta ==
  LET p == procer.pcb IN
  /\ procer.fase = "ejecuta"
  /\ restan' = [restan EXCEPT ![p] = @ - 1]
  /\ \/ restan[p] = 1 /\ Sale(p, "fin")
     \/ restan[p] > 1 /\ \E q \in {"fin_bloqueados", "reanudar"} : Sale(p, q)
     \/ /\ restan[p] > 1 /\ SinQuantum(p)
        /\ procer' = [procer EXCEPT !.fase = "cuenta", !.sigue = FALSE]
        /\ cola' = [cola EXCEPT !["fin_quantum"] = Append(@, p)]
        /\ UNCHANGED destino
     \/ /\ restan[p] > 1 /\ ~SinQuantum(p)
        /\ procer' = [procer EXCEPT !.fase = "cuenta"]
        /\ UNCHANGED <<cola, destino>>
  /\ UNCHANGED <<listos, llegadas, ultima_rafaga, valor_estimacion_anterior,
                 configuracion, sts, desorden>>

\* ultima_rafaga++, on a PCB that may be in cola_listos again by now.
ProcerCuenta ==
  LET p == procer.pcb IN
  /\ procer.fase = "cuenta"
  /\ ultima_rafaga' = [ultima_rafaga EXCEPT ![p] = @ + 1]
  /\ procer' = IF procer.sigue THEN [procer EXCEPT !.fase = "ejecuta"]
               ELSE [fase |-> "espera", pcb |-> Nadie, sigue |-> FALSE]
  /\ desorden' = IF p \in Range(listos) THEN desorden \cup {"rafaga tarde"}
                 ELSE desorden
  /\ UNCHANGED <<cola, listos, llegadas, valor_estimacion_anterior, restan,
                 destino, configuracion, sts>>

Procer == ProcerToma \/ ProcerEjecuta \/ ProcerCuenta

-----------------------------------------------------------------------------
(* monitorear_configuracion: a reload, between two steps of which the other  *)
(* threads go on.                                                            *)

\* pp.conf is edited; the reload begins with quantum = 0.
RecargaInicia(c) ==
  /\ monitor.fase = "espera" /\ recargas < Recargas
  /\ recargas' = recargas + 1
  /\ monitor' = [fase |-> "algoritmo", falta |-> 1, conf |-> c]
  /\ quantum' = 0
  /\ UNCHANGED <<cola, listos, llegadas, lista_auxiliar_prioridades,
                 algoritmo_ordenamiento, pcbs, sts, procer, desorden>>

RecargaAlgoritmo ==
  /\ monitor.fase = "algoritmo"
  /\ monitor' = [monitor EXCEPT !.fase = "lap"]
  /\ algoritmo_ordenamiento' = ComparadorDe(monitor.conf.algoritmo)
  /\ quantum' = QuantumDe(monitor.conf)
  /\ UNCHANGED <<cola, listos, llegadas, lista_auxiliar_prioridades, recargas,
                 pcbs, sts, procer, desorden>>

\* list_replace(lista_auxiliar_prioridades, prioridad - 1, queue).
RecargaLap ==
  LET q == OrdenDeAsignacion[monitor.falta] IN
  /\ monitor.fase = "lap"
  /\ lista_auxiliar_prioridades' =
       [i \in 1..4 |-> IF monitor.conf.lap[i] = q THEN q
                       ELSE lista_auxiliar_prioridades[i]]
  /\ monitor' = IF monitor.falta = 4 THEN [monitor EXCEPT !.fase = "orden"]
                ELSE [monitor EXCEPT !.falta = @ + 1]
  /\ UNCHANGED <<cola, listos, llegadas, algoritmo_ordenamiento, quantum,
                 recargas, pcbs, sts, procer, desorden>>

\* sync_queue_sort(cola_listos, algoritmo_ordenamiento).
RecargaOrdena ==
  /\ monitor.fase = "orden"
  /\ listos' = Ordena(listos, Relacion(algoritmo_ordenamiento))
  /\ monitor' = [monitor EXCEPT !.fase = "espera"]
  /\ desorden' = {}
  /\ UNCHANGED <<cola, llegadas, lista_auxiliar_prioridades,
                 algoritmo_ordenamiento, quantum, recargas, pcbs, sts, procer>>

Monitor == RecargaAlgoritmo \/ RecargaLap \/ RecargaOrdena

-----------------------------------------------------------------------------
Next ==
  \/ Sts \/ Procer \/ Monitor
  \/ \E p \in Procesos : Llega(p)
  \/ \E c \in Configuraciones : RecargaInicia(c)

Spec == Init /\ [][Next]_vars

-----------------------------------------------------------------------------
(* Properties.                                                               *)

\* The type of every variable; a PCB is at most once in cola_listos, and has an
\* arrival while it is there or about to be inserted.
TypeOK ==
  /\ cola \in [ColasSts -> Seq(Procesos)]
  /\ listos \in Seq(Procesos) /\ llegadas \in Seq(Procesos)
  /\ IsInjective(listos) /\ IsInjective(llegadas)
  /\ Range(llegadas) = Range(listos) \cup
        (IF sts.fase = "inserta" THEN {sts.pcb} ELSE {})
  /\ lista_auxiliar_prioridades \in [1..4 -> ColasSts]
  /\ algoritmo_ordenamiento \in Comparadores /\ quantum \in Nat
  /\ ultima_rafaga \in [Procesos -> Nat]
  /\ valor_estimacion_anterior \in [Procesos -> Nat]
  /\ restan \in [Procesos -> 0..Instrucciones]
  /\ destino \in [Procesos -> ColasSts \cup {"adentro", "fin"}]
  /\ sts \in [fase : {"busca", "tiene", "inserta"}, indice : 1..4,
              pcb : Procesos \cup {Nadie}, comparador : Comparadores]
  /\ procer \in [fase : {"espera", "ejecuta", "cuenta"},
                 pcb : Procesos \cup {Nadie}, sigue : BOOLEAN]
  /\ monitor \in [fase : {"espera", "algoritmo", "lap", "orden"},
                  falta : 1..4, conf : Configuraciones]
  /\ recargas \in 0..Recargas

\* pp.c:288 puts cola_listos in the order of the algorithm in force, and
\* every insertion keeps it, whatever reloads, I/O and quanta do: only an
\* insertion that read its comparator before a reload, and a burst counted
\* after its PCB was ready again, can disturb it.
OrdenExplicado ==
  monitor.fase = "espera" /\ desorden = {} =>
    OrdenadaPor(listos, Relacion(algoritmo_ordenamiento))

\* The process dispatched is a first one of the algorithm in force, and as
\* long as pp.conf was not edited, the first that arrived among its equals.
DespachoCorrecto ==
  [][ProcerToma /\ monitor.fase = "espera" /\ desorden = {} =>
       \A p \in Range(listos) \ {Head(listos)} :
         /\ ~Menor(algoritmo_ordenamiento, p, Head(listos))
         /\ recargas = 0 /\ Menor("antiguo", p, Head(listos)) =>
              Menor(algoritmo_ordenamiento, Head(listos), p)]_vars

\* A reload replaces the list of priorities entry by entry, and a queue may be
\* twice in it or missing meanwhile; when it ends every queue is in its place,
\* whatever the list was, and none is left that the STS never looks at.
LapCompleta ==
  monitor.fase \in {"espera", "orden"} =>
    /\ lista_auxiliar_prioridades = monitor.conf.lap
    /\ Range(lista_auxiliar_prioridades) = ColasSts

=============================================================================
