------------------------------- MODULE Procer -------------------------------
(***************************************************************************)
(* The life of a process inside the PROCER scheduler (procer/pp): the      *)
(* threads of pp.c, the LTS of server.c and the instruction step of        *)
(* parser.c, each moving pointers to a PCB from one shared queue or table  *)
(* to the next under the semaphores mps, mmp and threads_iot.              *)
(*                                                                         *)
(* One action is one step of one thread between two accesses to shared     *)
(* state.  A sync_queue push or pop is one step (SyncQueue.tla is the      *)
(* queue itself).  A place is a queue (FIFO) or a group: a hand of a       *)
(* thread, a table, or cola_listos, whose order depends on an algorithm    *)
(* the user changes at run time and on which nothing below depends.        *)
(* Clients (pi.c) stay connected until they are told that they ended.      *)
(***************************************************************************)
EXTENDS Naturals, Sequences, FiniteSets

CONSTANTS
  Procesos,       \* every process a client will ever try to start
  Programas,      \* the executions: sequences of instruction effects
  MPS,            \* pp.conf: processes the system admits
  MMP,            \* pp.conf: multiprogramming level
  THREADS_IOT,    \* pp.conf: simultaneous I/O operations
  Q_EXP,          \* the quantum at start-up, 0 when ALGORITMO is not RR
  CuantosRecarga, \* quanta that edits of pp.conf may set; {}: never edited
  Nadie           \* the procer thread holds no PCB

Efectos == {"cpu", "io", "ion"}

ASSUME ProgramasAssumption ==
  Programas \subseteq Seq(Efectos) \ {<<>>}
ASSUME CuposAssumption ==
  MPS \in Nat /\ MMP \in Nat /\ THREADS_IOT \in Nat
ASSUME CuantosAssumption == Q_EXP \in Nat /\ CuantosRecarga \subseteq Nat
ASSUME ProcesosAssumption == IsFiniteSet(Procesos)
ASSUME NadieAssumption == Nadie \notin Procesos

\* No program ends in an I/O instruction.  Not an ASSUME: the run of
\* MCProcerIoFinal checks what the code does with programs that do.
SinIoFinal == \A c \in Programas : c[Len(c)] = "cpu"

Colas == {"pendientes_nuevos", "nuevos", "pendientes_reanudar", "reanudar",
          "fin_quantum", "bloqueados", "io", "fin_bloqueados", "fin_programa"}

\* What the STS merges into cola_listos (lista_auxiliar_prioridades).
ColasSts == {"nuevos", "reanudar", "fin_bloqueados", "fin_quantum"}

\* "pn", "pr", "sts", "cpu", "bio", "fin" are the hands of the threads; the
\* suffix tells how far the handler has gone with the PCB it holds.
Grupos == {"afuera", "rechazado", "aceptado", "con_prioridad",
           "pn", "pn_mmp", "pr", "pr_mmp", "sts", "listos", "cpu",
           "bio", "bio_iot", "ios", "ios_post", "suspendidos",
           "fin", "fin_tabla", "fin_mps", "fin_avisado", "terminado"}

FasesCpu == {"espera", "ejecuta", "io_tomada", "avanza", "fin_mmp", "decide",
             "susp_mmp", "susp_envia", "susp_limpia", "cuenta"}

VARIABLES
  cola,                     \* the sync_queues
  grupo,                    \* the unordered places
  mps, mmp, threads_iot,    \* the three counting semaphores
  tabla_procesos,           \* the dictionary lts and finalizados share
  codigo,                   \* pcb->codigo, <<>> for NULL
  program_counter,          \* pcb->program_counter
  cpu,                      \* the locals of the procer thread
  hayQueSuspenderProceso,   \* set by the handler of SIGUSR1
  quantum,                  \* 0: the algorithm has no quantum
  recargando,               \* monitorear_configuracion is between lines 89-95
  avisos                    \* "1" messages a client has not answered yet

semaforos == <<mps, mmp, threads_iot>>
pcbs == <<tabla_procesos, codigo, program_counter>>
configuracion == <<quantum, recargando>>
vars == <<cola, grupo, semaforos, pcbs, cpu, hayQueSuspenderProceso,
          configuracion, avisos>>

Rango(s) == {s[i] : i \in DOMAIN s}

Contenido(l) == IF l \in Colas THEN Rango(cola[l]) ELSE grupo[l]

En(p, l) == p \in Contenido(l)

-----------------------------------------------------------------------------
(* Moving a PCB between places: sync_queue_push, sync_queue_pop, and what a  *)
(* thread does with the pointer it holds.                                    *)

Encola(p, g, q) ==
  /\ cola' = [cola EXCEPT ![q] = Append(@, p)]
  /\ grupo' = [grupo EXCEPT ![g] = @ \ {p}]

Desencola(q, g) ==
  /\ cola[q] # <<>>
  /\ cola' = [cola EXCEPT ![q] = Tail(@)]
  /\ grupo' = [grupo EXCEPT ![g] = @ \cup {Head(cola[q])}]

Pasa(p, g, h) ==
  /\ grupo' = [grupo EXCEPT ![g] = @ \ {p}, ![h] = @ \cup {p}]
  /\ UNCHANGED cola

Libres(gs) == \A g \in gs : grupo[g] = {}

-----------------------------------------------------------------------------
(* Seeded faults.  No action uses them: each replaces the action it is named *)
(* after, to see that a property notices.                                    *)

\* procesar_io blocks the process and does not return false.
EjecutaIoSinDevolverFalso ==
  /\ cpu.fase = "ejecuta" /\ codigo[cpu.pcb][program_counter[cpu.pcb]] = "io"
  /\ Encola(cpu.pcb, "cpu", "bloqueados")
  /\ cpu' = [cpu EXCEPT !.fase = "avanza", !.sigue = TRUE]
  /\ UNCHANGED <<semaforos, pcbs, hayQueSuspenderProceso, configuracion, avisos>>

\* The PCB that got an I/O thread goes through bloqueados_a_io all the same.
EncolaIoNoBloqueanteEnBloqueados ==
  /\ cpu.fase = "io_tomada"
  /\ Encola(cpu.pcb, "cpu", "bloqueados")
  /\ cpu' = [cpu EXCEPT !.fase = "avanza", !.sigue = FALSE]
  /\ UNCHANGED <<semaforos, pcbs, hayQueSuspenderProceso, configuracion, avisos>>

\* The last instruction is taken to be the one before it.
AvanzaTerminaAntes ==
  LET p == cpu.pcb IN
  /\ cpu.fase = "avanza"
  /\ program_counter' = [program_counter EXCEPT ![p] = @ + 1]
  /\ IF program_counter[p] + 1 = Len(codigo[p])
       THEN /\ Encola(p, "cpu", "fin_programa")
            /\ cpu' = [cpu EXCEPT !.fase = "fin_mmp"]
       ELSE /\ cpu' = [cpu EXCEPT !.fase = "decide"]
            /\ UNCHANGED <<cola, grupo>>
  /\ UNCHANGED <<semaforos, tabla_procesos, codigo, hayQueSuspenderProceso,
                 configuracion, avisos>>

\* ejecutarInstruccion ends the program without the sem_post(mmp).
FinMmpSinPost ==
  /\ cpu.fase = "fin_mmp"
  /\ cpu' = [cpu EXCEPT !.fase = "decide", !.sigue = FALSE]
  /\ UNCHANGED <<cola, grupo, semaforos, pcbs, hayQueSuspenderProceso,
                 configuracion, avisos>>

\* procer suspends without looking at seguir_ejecutando.
DecideSuspenderSinMirar ==
  /\ cpu.fase = "decide" /\ hayQueSuspenderProceso
  /\ Pasa(cpu.pcb, "cpu", "suspendidos")
  /\ cpu' = [cpu EXCEPT !.fase = "susp_mmp"]
  /\ UNCHANGED <<semaforos, pcbs, hayQueSuspenderProceso, configuracion, avisos>>

\* A quantum of n lets n + 1 instructions run.
FinDeQuantumTarde == quantum > 0 /\ cpu.rafaga + 1 > quantum

\* suspender_proceso without the sem_post(mmp).
SuspenderMmpSinPost ==
  /\ cpu.fase = "susp_mmp"
  /\ cpu' = [cpu EXCEPT !.fase = "susp_envia"]
  /\ UNCHANGED <<cola, grupo, semaforos, pcbs, hayQueSuspenderProceso,
                 configuracion, avisos>>

\* procer goes on with the process it has just suspended.
SuspenderLimpiaSinCortar ==
  /\ cpu.fase = "susp_limpia"
  /\ hayQueSuspenderProceso' = FALSE
  /\ cpu' = [cpu EXCEPT !.fase = "cuenta"]
  /\ UNCHANGED <<cola, grupo, semaforos, pcbs, configuracion, avisos>>

\* A resumed process skips pendientes_reanudar and its wait for memory.
LtsReanudaSinMemoria(p) ==
  /\ avisos[p] > 0
  /\ avisos' = [avisos EXCEPT ![p] = @ - 1]
  /\ IF p \in grupo["suspendidos"]
       THEN Encola(p, "suspendidos", "reanudar")
       ELSE UNCHANGED <<cola, grupo>>
  /\ UNCHANGED <<semaforos, pcbs, cpu, hayQueSuspenderProceso, configuracion>>

\* finalizados leaves the PCB in tabla_procesos.
FinTablaSinQuitar ==
  \E p \in grupo["fin"] :
    /\ Pasa(p, "fin", "fin_tabla")
    /\ UNCHANGED <<semaforos, pcbs, cpu, hayQueSuspenderProceso, configuracion,
                   avisos>>

\* finalizados without the sem_post(mps).
FinMpsSinPost ==
  \E p \in grupo["fin_tabla"] :
    /\ Pasa(p, "fin_tabla", "fin_mps")
    /\ UNCHANGED <<semaforos, pcbs, cpu, hayQueSuspenderProceso, configuracion,
                   avisos>>

-----------------------------------------------------------------------------
Init ==
  /\ cola = [q \in Colas |-> <<>>]
  /\ grupo = [g \in Grupos |-> IF g = "afuera" THEN Procesos ELSE {}]
  /\ mps = MPS /\ mmp = MMP /\ threads_iot = THREADS_IOT
  /\ tabla_procesos = {}
  /\ codigo = [p \in Procesos |-> <<>>]
  /\ program_counter = [p \in Procesos |-> 1]
  /\ cpu = [fase |-> "espera", pcb |-> Nadie, sigue |-> FALSE, rafaga |-> 0]
  /\ hayQueSuspenderProceso = FALSE
  /\ quantum = Q_EXP /\ recargando = FALSE
  /\ avisos = [p \in Procesos |-> 0]

-----------------------------------------------------------------------------
(* lts: the select loop of server.c, one action per kind of message.         *)

\* accept() with a free MPS slot: a PCB, a table entry, and the PID sent.
LtsAcepta(p) ==
  /\ p \in grupo["afuera"]
  /\ mps > 0
  /\ mps' = mps - 1
  /\ tabla_procesos' = tabla_procesos \cup {p}
  /\ Pasa(p, "afuera", "aceptado")
  /\ UNCHANGED <<mmp, threads_iot, codigo, program_counter, cpu,
                 hayQueSuspenderProceso, configuracion, avisos>>

\* accept() without one: ERROR_MPS is sent and the connection closed.
LtsRechaza(p) ==
  /\ p \in grupo["afuera"]
  /\ mps = 0
  /\ Pasa(p, "afuera", "rechazado")
  /\ UNCHANGED <<semaforos, pcbs, cpu, hayQueSuspenderProceso, configuracion,
                 avisos>>

LtsPrioridad(p) ==
  /\ p \in grupo["aceptado"]
  /\ Pasa(p, "aceptado", "con_prioridad")
  /\ UNCHANGED <<semaforos, pcbs, cpu, hayQueSuspenderProceso, configuracion,
                 avisos>>

LtsCodigo(p) ==
  /\ p \in grupo["con_prioridad"]
  /\ \E c \in Programas : codigo' = [codigo EXCEPT ![p] = c]
  /\ Encola(p, "con_prioridad", "pendientes_nuevos")
  /\ UNCHANGED <<semaforos, tabla_procesos, program_counter, cpu,
                 hayQueSuspenderProceso, configuracion, avisos>>

\* "1REANUDARPROCESO": the client answers one "1" message.  A process that is
\* not in tabla_suspendidos only earns a warning.
LtsReanuda(p) ==
  /\ avisos[p] > 0
  /\ avisos' = [avisos EXCEPT ![p] = @ - 1]
  /\ IF p \in grupo["suspendidos"]
       THEN Encola(p, "suspendidos", "pendientes_reanudar")
       ELSE UNCHANGED <<cola, grupo>>
  /\ UNCHANGED <<semaforos, pcbs, cpu, hayQueSuspenderProceso, configuracion>>

Lts(p) == \/ LtsAcepta(p) \/ LtsRechaza(p) \/ LtsPrioridad(p)
          \/ LtsCodigo(p) \/ LtsReanuda(p)

-----------------------------------------------------------------------------
(* pendientes_nuevos and pendientes_reanudar: pop, wait for memory, push.    *)

PendientesSaca(q, m, n) ==
  /\ Libres({m, n})
  /\ Desencola(q, m)
  /\ UNCHANGED <<semaforos, pcbs, cpu, hayQueSuspenderProceso, configuracion,
                 avisos>>

PendientesEspera(m, n) ==
  \E p \in grupo[m] :
    /\ mmp > 0
    /\ mmp' = mmp - 1
    /\ Pasa(p, m, n)
    /\ UNCHANGED <<mps, threads_iot, pcbs, cpu, hayQueSuspenderProceso,
                   configuracion, avisos>>

PendientesEncola(n, q) ==
  \E p \in grupo[n] :
    /\ Encola(p, n, q)
    /\ UNCHANGED <<semaforos, pcbs, cpu, hayQueSuspenderProceso, configuracion,
                   avisos>>

PendientesNuevos ==
  \/ PendientesSaca("pendientes_nuevos", "pn", "pn_mmp")
  \/ PendientesEspera("pn", "pn_mmp")
  \/ PendientesEncola("pn_mmp", "nuevos")

PendientesReanudar ==
  \/ PendientesSaca("pendientes_reanudar", "pr", "pr_mmp")
  \/ PendientesEspera("pr", "pr_mmp")
  \/ PendientesEncola("pr_mmp", "reanudar")

-----------------------------------------------------------------------------
(* sts: one PCB per round from one of the four queues, inserted in listos.   *)
(* Which queue is tried first is configurable and may change while the scan  *)
(* runs: here any queue that holds a PCB may be the one (Planificador.tla).  *)

StsSaca ==
  \E q \in ColasSts :
    /\ Libres({"sts"})
    /\ Desencola(q, "sts")
    /\ UNCHANGED <<semaforos, pcbs, cpu, hayQueSuspenderProceso, configuracion,
                   avisos>>

StsInserta ==
  \E p \in grupo["sts"] :
    /\ Pasa(p, "sts", "listos")
    /\ UNCHANGED <<semaforos, pcbs, cpu, hayQueSuspenderProceso, configuracion,
                   avisos>>

Sts == StsSaca \/ StsInserta

-----------------------------------------------------------------------------
(* procer: dispatch a PCB and run its instructions one by one.  cpu.pcb is   *)
(* the pointer the thread keeps using after the PCB went to another place.   *)

ProcerToma ==
  \E p \in grupo["listos"] :
    /\ cpu.fase = "espera"
    /\ Pasa(p, "listos", "cpu")
    /\ cpu' = [fase |-> "ejecuta", pcb |-> p, sigue |-> TRUE, rafaga |-> 0]
    /\ hayQueSuspenderProceso' = FALSE
    /\ UNCHANGED <<semaforos, pcbs, configuracion, avisos>>

Instruccion == codigo[cpu.pcb][program_counter[cpu.pcb]]

EjecutaCpu ==
  /\ cpu.fase = "ejecuta" /\ Instruccion = "cpu"
  /\ cpu' = [cpu EXCEPT !.fase = "avanza", !.sigue = TRUE]
  /\ UNCHANGED <<cola, grupo, semaforos, pcbs, hayQueSuspenderProceso,
                 configuracion, avisos>>

\* A blocking I/O, as a statement or in an assignment.
EjecutaIo ==
  /\ cpu.fase = "ejecuta" /\ Instruccion = "io"
  /\ Encola(cpu.pcb, "cpu", "bloqueados")
  /\ cpu' = [cpu EXCEPT !.fase = "avanza", !.sigue = FALSE]
  /\ UNCHANGED <<semaforos, pcbs, hayQueSuspenderProceso, configuracion, avisos>>

\* A non-blocking I/O: sem_trywait(threads_iot) takes an I/O thread ...
EjecutaIoNoBloqueante ==
  /\ cpu.fase = "ejecuta" /\ Instruccion = "ion" /\ threads_iot > 0
  /\ threads_iot' = threads_iot - 1
  /\ cpu' = [cpu EXCEPT !.fase = "io_tomada"]
  /\ UNCHANGED <<cola, grupo, mps, mmp, pcbs, hayQueSuspenderProceso,
                 configuracion, avisos>>

EncolaIoNoBloqueante ==
  /\ cpu.fase = "io_tomada"
  /\ Encola(cpu.pcb, "cpu", "io")
  /\ cpu' = [cpu EXCEPT !.fase = "avanza", !.sigue = FALSE]
  /\ UNCHANGED <<semaforos, pcbs, hayQueSuspenderProceso, configuracion, avisos>>

\* ... or fails, and the program goes on with the error code.
FallaIoNoBloqueante ==
  /\ cpu.fase = "ejecuta" /\ Instruccion = "ion" /\ threads_iot = 0
  /\ cpu' = [cpu EXCEPT !.fase = "avanza", !.sigue = TRUE]
  /\ UNCHANGED <<cola, grupo, semaforos, pcbs, hayQueSuspenderProceso,
                 configuracion, avisos>>

\* The end of ejecutarInstruccion, whatever the instruction did with the PCB.
Avanza ==
  LET p == cpu.pcb IN
  /\ cpu.fase = "avanza"
  /\ program_counter' = [program_counter EXCEPT ![p] = @ + 1]
  /\ IF program_counter[p] = Len(codigo[p])
       THEN /\ Encola(p, "cpu", "fin_programa")
            /\ cpu' = [cpu EXCEPT !.fase = "fin_mmp"]
       ELSE /\ cpu' = [cpu EXCEPT !.fase = "decide"]
            /\ UNCHANGED <<cola, grupo>>
  /\ UNCHANGED <<semaforos, tabla_procesos, codigo, hayQueSuspenderProceso,
                 configuracion, avisos>>

FinMmp ==
  /\ cpu.fase = "fin_mmp"
  /\ mmp' = mmp + 1
  /\ cpu' = [cpu EXCEPT !.fase = "decide", !.sigue = FALSE]
  /\ UNCHANGED <<cola, grupo, mps, threads_iot, pcbs, hayQueSuspenderProceso,
                 configuracion, avisos>>

\* Lines 197-206 of pp.c: suspend, end the quantum, or go on.
FinDeQuantum == quantum > 0 /\ cpu.rafaga + 1 >= quantum

DecideSuspender ==
  /\ cpu.fase = "decide" /\ cpu.sigue /\ hayQueSuspenderProceso
  /\ Pasa(cpu.pcb, "cpu", "suspendidos")
  /\ cpu' = [cpu EXCEPT !.fase = "susp_mmp"]
  /\ UNCHANGED <<semaforos, pcbs, hayQueSuspenderProceso, configuracion, avisos>>

DecideFinQuantum ==
  /\ cpu.fase = "decide" /\ cpu.sigue /\ ~hayQueSuspenderProceso
  /\ FinDeQuantum
  /\ Encola(cpu.pcb, "cpu", "fin_quantum")
  /\ cpu' = [cpu EXCEPT !.fase = "cuenta", !.sigue = FALSE]
  /\ UNCHANGED <<semaforos, pcbs, hayQueSuspenderProceso, configuracion, avisos>>

DecideSeguir ==
  /\ cpu.fase = "decide"
  /\ cpu.sigue => ~hayQueSuspenderProceso /\ ~FinDeQuantum
  /\ cpu' = [cpu EXCEPT !.fase = "cuenta"]
  /\ UNCHANGED <<cola, grupo, semaforos, pcbs, hayQueSuspenderProceso,
                 configuracion, avisos>>

SuspenderMmp ==
  /\ cpu.fase = "susp_mmp"
  /\ mmp' = mmp + 1
  /\ cpu' = [cpu EXCEPT !.fase = "susp_envia"]
  /\ UNCHANGED <<cola, grupo, mps, threads_iot, pcbs, hayQueSuspenderProceso,
                 configuracion, avisos>>

SuspenderEnvia ==
  /\ cpu.fase = "susp_envia"
  /\ avisos' = [avisos EXCEPT ![cpu.pcb] = @ + 1]
  /\ cpu' = [cpu EXCEPT !.fase = "susp_limpia"]
  /\ UNCHANGED <<cola, grupo, semaforos, pcbs, hayQueSuspenderProceso,
                 configuracion>>

SuspenderLimpia ==
  /\ cpu.fase = "susp_limpia"
  /\ hayQueSuspenderProceso' = FALSE
  /\ cpu' = [cpu EXCEPT !.fase = "cuenta", !.sigue = FALSE]
  /\ UNCHANGED <<cola, grupo, semaforos, pcbs, configuracion, avisos>>

\* pcb->ultima_rafaga++, through cpu.pcb wherever the PCB now is, and the
\* loop condition.
Cuenta ==
  /\ cpu.fase = "cuenta"
  /\ cpu' = IF cpu.sigue
              THEN [cpu EXCEPT !.fase = "ejecuta", !.rafaga = @ + 1]
              ELSE [fase |-> "espera", pcb |-> Nadie, sigue |-> FALSE,
                    rafaga |-> 0]
  /\ UNCHANGED <<cola, grupo, semaforos, pcbs, hayQueSuspenderProceso,
                 configuracion, avisos>>

HiloProcer ==
  \/ ProcerToma \/ EjecutaCpu \/ EjecutaIo \/ EjecutaIoNoBloqueante
  \/ EncolaIoNoBloqueante \/ FallaIoNoBloqueante \/ Avanza \/ FinMmp
  \/ DecideSuspender \/ DecideFinQuantum \/ DecideSeguir
  \/ SuspenderMmp \/ SuspenderEnvia \/ SuspenderLimpia \/ Cuenta

-----------------------------------------------------------------------------
(* bloqueados_a_io, lanzar_ios and one ejecutar_io thread per operation.     *)

BloqueadosSaca ==
  /\ Libres({"bio", "bio_iot"})
  /\ Desencola("bloqueados", "bio")
  /\ UNCHANGED <<semaforos, pcbs, cpu, hayQueSuspenderProceso, configuracion,
                 avisos>>

BloqueadosEspera ==
  \E p \in grupo["bio"] :
    /\ threads_iot > 0
    /\ threads_iot' = threads_iot - 1
    /\ Pasa(p, "bio", "bio_iot")
    /\ UNCHANGED <<mps, mmp, pcbs, cpu, hayQueSuspenderProceso, configuracion,
                   avisos>>

BloqueadosEncola ==
  \E p \in grupo["bio_iot"] :
    /\ Encola(p, "bio_iot", "io")
    /\ UNCHANGED <<semaforos, pcbs, cpu, hayQueSuspenderProceso, configuracion,
                   avisos>>

BloqueadosAIo == BloqueadosSaca \/ BloqueadosEspera \/ BloqueadosEncola

LanzarIos ==
  /\ Desencola("io", "ios")
  /\ UNCHANGED <<semaforos, pcbs, cpu, hayQueSuspenderProceso, configuracion,
                 avisos>>

IoTermina(p) ==
  /\ p \in grupo["ios"]
  /\ threads_iot' = threads_iot + 1
  /\ Pasa(p, "ios", "ios_post")
  /\ UNCHANGED <<mps, mmp, pcbs, cpu, hayQueSuspenderProceso, configuracion,
                 avisos>>

IoDevuelve(p) ==
  /\ p \in grupo["ios_post"]
  /\ Encola(p, "ios_post", "fin_bloqueados")
  /\ UNCHANGED <<semaforos, pcbs, cpu, hayQueSuspenderProceso, configuracion,
                 avisos>>

EjecutarIo(p) == IoTermina(p) \/ IoDevuelve(p)

-----------------------------------------------------------------------------
(* finalizados: forget the PCB, free its MPS slot, tell the client, free it. *)

FinSaca ==
  /\ Libres({"fin", "fin_tabla", "fin_mps", "fin_avisado"})
  /\ Desencola("fin_programa", "fin")
  /\ UNCHANGED <<semaforos, pcbs, cpu, hayQueSuspenderProceso, configuracion,
                 avisos>>

FinTabla ==
  \E p \in grupo["fin"] :
    /\ tabla_procesos' = tabla_procesos \ {p}
    /\ Pasa(p, "fin", "fin_tabla")
    /\ UNCHANGED <<semaforos, codigo, program_counter, cpu,
                   hayQueSuspenderProceso, configuracion, avisos>>

FinMps ==
  \E p \in grupo["fin_tabla"] :
    /\ mps' = mps + 1
    /\ Pasa(p, "fin_tabla", "fin_mps")
    /\ UNCHANGED <<mmp, threads_iot, pcbs, cpu, hayQueSuspenderProceso,
                   configuracion, avisos>>

FinAvisa ==
  \E p \in grupo["fin_mps"] :
    /\ Pasa(p, "fin_mps", "fin_avisado")
    /\ UNCHANGED <<semaforos, pcbs, cpu, hayQueSuspenderProceso, configuracion,
                   avisos>>

FinDestruye ==
  \E p \in grupo["fin_avisado"] :
    /\ Pasa(p, "fin_avisado", "terminado")
    /\ UNCHANGED <<semaforos, pcbs, cpu, hayQueSuspenderProceso, configuracion,
                   avisos>>

Finalizados == FinSaca \/ FinTabla \/ FinMps \/ FinAvisa \/ FinDestruye

-----------------------------------------------------------------------------
(* SIGUSR1 and the reload of pp.conf.                                        *)

\* suspenderProceso(signal); a signal that finds the flag set changes nothing.
Senal ==
  /\ ~hayQueSuspenderProceso
  /\ hayQueSuspenderProceso' = TRUE
  /\ UNCHANGED <<cola, grupo, semaforos, pcbs, cpu, configuracion, avisos>>

\* asignar_algoritmo_de_ordenamiento clears quantum before it knows the new one.
RecargaInicia ==
  /\ CuantosRecarga # {} /\ ~recargando
  /\ quantum' = 0 /\ recargando' = TRUE
  /\ UNCHANGED <<cola, grupo, semaforos, pcbs, cpu, hayQueSuspenderProceso,
                 avisos>>

RecargaAsigna ==
  /\ recargando
  /\ \E q \in CuantosRecarga : quantum' = q
  /\ recargando' = FALSE
  /\ UNCHANGED <<cola, grupo, semaforos, pcbs, cpu, hayQueSuspenderProceso,
                 avisos>>

\* Every client has been served: the threads wait for new ones.
Reposo ==
  /\ grupo["terminado"] \cup grupo["rechazado"] = Procesos
  /\ cpu.fase = "espera"
  /\ UNCHANGED vars

Next ==
  \/ \E p \in Procesos : Lts(p) \/ EjecutarIo(p)
  \/ PendientesNuevos \/ PendientesReanudar \/ Sts \/ HiloProcer
  \/ BloqueadosAIo \/ LanzarIos \/ Finalizados
  \/ Senal \/ RecargaInicia \/ RecargaAsigna \/ Reposo

Spec == Init /\ [][Next]_vars

\* Each thread keeps running; every select() round of the LTS looks at every
\* client; a client sends its messages and its user answers a suspension.
Equidad ==
  /\ \A p \in Procesos : WF_vars(Lts(p)) /\ WF_vars(EjecutarIo(p))
  /\ WF_vars(PendientesNuevos) /\ WF_vars(PendientesReanudar)
  /\ WF_vars(Sts) /\ WF_vars(HiloProcer)
  /\ WF_vars(BloqueadosAIo) /\ WF_vars(LanzarIos) /\ WF_vars(Finalizados)

EspecJusta == Spec /\ Equidad

-----------------------------------------------------------------------------
(* Properties.                                                               *)

Lugares == Colas \cup Grupos

\* Where a process holds a slot of mps, a slot of mmp, an I/O thread.
LugaresMps == Lugares \ {"afuera", "rechazado", "fin_mps", "fin_avisado",
                         "terminado"}
LugaresMmp == ColasSts \cup {"pn_mmp", "pr_mmp", "sts", "listos", "cpu",
                 "bloqueados", "bio", "bio_iot", "io", "ios", "ios_post"}
LugaresIot == {"bio_iot", "io", "ios"}

\* Where a process is once its program ended.
LugaresFin == {"fin_programa", "fin", "fin_tabla", "fin_mps", "fin_avisado",
               "terminado"}

EnAlguno(ls) == UNION {Contenido(l) : l \in ls}

\* The PCB for which the procer thread is about to run sem_post(mmp), or has
\* just run sem_trywait(threads_iot).
DebeMmp == {p \in Procesos : cpu.pcb = p /\ cpu.fase \in {"fin_mmp", "susp_mmp"}}
TieneIot == {p \in Procesos : cpu.pcb = p /\ cpu.fase = "io_tomada"}

ConMps == EnAlguno(LugaresMps)
ConMmp == EnAlguno(LugaresMmp) \cup DebeMmp
ConIot == EnAlguno(LugaresIot) \cup TieneIot

\* The type of every variable: queues of PCBs, sets of PCBs, semaphores that
\* never go negative.
TypeOK ==
  /\ cola \in [Colas -> Seq(Procesos)]
  /\ grupo \in [Grupos -> SUBSET Procesos]
  /\ mps \in Nat /\ mmp \in Nat /\ threads_iot \in Nat
  /\ tabla_procesos \subseteq Procesos
  /\ codigo \in [Procesos -> Seq(Efectos)]
  /\ program_counter \in [Procesos -> Nat]
  /\ cpu \in [fase : FasesCpu, pcb : Procesos \cup {Nadie}, sigue : BOOLEAN,
              rafaga : Nat]
  /\ hayQueSuspenderProceso \in BOOLEAN
  /\ quantum \in Nat /\ recargando \in BOOLEAN
  /\ avisos \in [Procesos -> Nat]

\* A PCB is never lost and never reachable from two queues, tables or threads
\* at once: whoever takes it owns it (parser.c: "Devuelve false si el proceso
\* fue movido a otra cola").
UnSoloLugar ==
  /\ \A p \in Procesos : \E l \in Lugares : En(p, l)
  /\ \A l \in Lugares : \A p \in Contenido(l) :
        \A m \in Lugares \ {l} : ~En(p, m)
  /\ \A q \in Colas : \A i, j \in DOMAIN cola[q] :
        cola[q][i] = cola[q][j] => i = j

\* No MPS slot leaks and none is invented: the semaphore plus the processes
\* between accept() and the sem_post of finalizados are MPS.
CupoMps == mps + Cardinality(ConMps) = MPS

\* The same for the multiprogramming level, over every way into memory (new,
\* resumed) and out of it (end, suspension), posts that are still due included.
CupoMmp == mmp + Cardinality(ConMmp) = MMP

\* The same for the I/O threads, taken with sem_wait by bloqueados_a_io or
\* with sem_trywait by an instruction, and returned by ejecutar_io.
CupoIot == threads_iot + Cardinality(ConIot) = THREADS_IOT

\* A process that a client was asked to resume is suspended, its memory is
\* already free and its PCB known: the answer never finds it "no-suspendido",
\* although the put, the post and the send are separate steps of procer.
AvisoEsperaReanudar ==
  \A p \in Procesos :
    avisos[p] > 0 => /\ avisos[p] = 1
                     /\ p \in grupo["suspendidos"] \cap tabla_procesos
                     /\ p \notin ConMmp

\* finalizados gets a process exactly when every instruction of it was run.
ProgramaCompleto ==
  \A p \in Procesos :
    p \in EnAlguno(LugaresFin) <=>
      codigo[p] # <<>> /\ program_counter[p] > Len(codigo[p])

\* tabla_procesos never lists more processes than slots are taken: finalizados
\* forgets a PCB before lts can admit another client in its place.
TablaAcotada == Cardinality(tabla_procesos) + mps <= MPS

\* The memory slots in use exceed the system slots in use by at most the one
\* post that procer still owes (the PCB is pushed to cola_fin_programa before
\* mmp is posted, and finalizados does not wait for it).
MemoriaAtrasada == MMP - mmp <= (MPS - mps) + 1

\* With an unchanged quantum, no dispatch runs more instructions than it.
RafagaAcotada ==
  Q_EXP > 0 => cpu.rafaga < Q_EXP

\* finalizados may free a PCB (pp.c:80) that procer still points at.  Then
\* procer has seen the end of the program, and all it does with that PCB is the
\* count of pp.c:207 and its log line: it is never run, suspended or queued
\* again.
PunteroAcotado ==
  cpu.pcb \in grupo["terminado"] =>
    \/ cpu.fase \in {"fin_mmp", "susp_limpia"}
    \/ cpu.fase \in {"decide", "cuenta"} /\ ~cpu.sigue

\* Every client gets an answer: its process ends, or it was refused.
TodosTerminan ==
  <>(Procesos = grupo["terminado"] \cup grupo["rechazado"])

-----------------------------------------------------------------------------
(* The inductive invariant behind the theorems of ProcerProofs.              *)

\* procer has a PCB in every phase but the one in which it waits.
CpuConPcb == IF cpu.fase = "espera" THEN cpu.pcb = Nadie
                                    ELSE cpu.pcb \in Procesos

\* The phases in which the PCB is in the hands of procer and nowhere else.
OcupaCpu == \/ cpu.fase \in {"ejecuta", "io_tomada"}
            \/ cpu.fase \in {"avanza", "decide", "cuenta"} /\ cpu.sigue

\* The phase of procer says where the PCB it points at is.
CpuCoherente ==
  /\ grupo["cpu"] = IF OcupaCpu THEN {cpu.pcb} ELSE {}
  /\ cpu.fase = "fin_mmp" => cpu.pcb \in EnAlguno(LugaresFin)
  /\ cpu.fase \in {"susp_mmp", "susp_envia"} =>
        cpu.pcb \in grupo["suspendidos"] /\ avisos[cpu.pcb] = 0

LugaresSinCodigo == {"afuera", "rechazado", "aceptado", "con_prioridad"}

\* pcb->codigo and pcb->program_counter agree with the place of the PCB, and an
\* I/O that moved the PCB away was not the last instruction.
ProgramaCoherente ==
  /\ \A p \in Procesos :
       /\ program_counter[p] >= 1
       /\ IF p \in EnAlguno(LugaresSinCodigo)
            THEN codigo[p] = <<>> /\ program_counter[p] = 1
            ELSE /\ codigo[p] \in Programas
                 /\ IF p \in EnAlguno(LugaresFin)
                      THEN program_counter[p] = Len(codigo[p]) + 1
                      ELSE program_counter[p] <= Len(codigo[p])
  /\ cpu.fase = "io_tomada" \/ (cpu.fase = "avanza" /\ ~cpu.sigue) =>
       program_counter[cpu.pcb] < Len(codigo[cpu.pcb])

LugaresTabla == LugaresMps \ {"fin_tabla"}

\* tabla_procesos lists what holds a slot and finalizados has not forgotten.
TablaCoherente == tabla_procesos = EnAlguno(LugaresTabla)

\* Everything above, together: what each step of Next preserves.
IInv ==
  /\ TypeOK /\ CpuConPcb
  /\ UnSoloLugar /\ CpuCoherente /\ ProgramaCoherente
  /\ TablaCoherente /\ AvisoEsperaReanudar
  /\ CupoMps /\ CupoMmp /\ CupoIot
=============================================================================
