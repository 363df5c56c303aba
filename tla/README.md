# A formal model of PROCER

`src/procer` is a small operating-system scheduler: a planner process (PP)
accepts programs from clients (PI) over TCP, and a set of threads moves each
program's control block (PCB) between shared queues until it ends.
`src/shield` is an unrelated restricted shell written in bash. This directory
holds TLA+ models of PROCER, the TLC configurations that check them, and TLAPS
proofs about them.

```
tlc -config MCProcer.cfg MCProcer.tla       # one run
tlapm ProcerProofs.tla                      # one proof module
```

Names in the modules are those of the code (Spanish) where there is one.

## 1. Inventory of the system

### PP, the planner (`src/procer/pp`)

| Part | State | Operations |
|---|---|---|
| LTS (`server.c`) | the descriptors of `select`, `tabla_procesos` | accept or refuse (`sem_trywait(mps)`), priority, program, resume request, disconnection |
| `pendientes_nuevos`, `pendientes_reanudar` (`pp.c:19-45`) | one queue each | pop, wait for `mmp`, push to `cola_nuevos` / `cola_reanudar` |
| STS (`pp.c:133-164`) | `lista_auxiliar_prioridades` (four queues) | take one PCB from the first non-empty queue, insert it in `cola_listos` by `algoritmo_ordenamiento` |
| `procer` (`pp.c:183-212`) | the running PCB, `hayQueSuspenderProceso`, `quantum` | dispatch, one instruction at a time, suspension, quantum |
| Interpreter (`parser.c`) | program counter, variables, functions, stack | load a program; assignment, jump, function call, print, I/O; end of program |
| I/O (`pp.c:47-56`, `214-243`, `parser.c:186-212`) | `threads_iot`, `cola_bloqueados`, `cola_io` | blocking and non-blocking I/O, one thread per operation |
| `finalizados` (`pp.c:58-83`) | `tabla_procesos`, `mps` | forget a PCB, free its slot, send its last state and `"2"`, shut the connection down, free the PCB |
| Configuration (`configuracion.c`, `pp.c:246-299`) | `pp.conf` | initial values; on every edit: quantum, comparator, the four priorities, sort `cola_listos` |
| SIGUSR1 (`parser.c:35-51`) | `hayQueSuspenderProceso` | ask for the suspension of the running process |

The nine threads (`pp.c:98-131`), one more per I/O operation and the signal
handler interact only through `sync_queue`s, the semaphores `mps`, `mmp` and
`threads_iot`, two dictionaries, a few global variables, and pointers to PCBs
that they hand from one to another. Clients interact with them through one TCP
connection each, whose descriptor number is the PID.

### Common code (`src/procer/commons`)

`sync_queue` (a list, a mutex, a semaphore), `list`, `queue`, `stack`,
`dictionary` (open hash chains; a `put` of a present key adds a second entry),
`network` (length-prefixed messages), `config`, `log`, `string`, `temporal`,
`bitarray`, `error`.

### PI, the client (`src/procer/pi`)

Connects, reads its PID or an error, sends priority and program, then loops
over the messages of PP: `'0'` text, `'1'` ask the user and send a resume
request, `'2'` close.

### SHIELD (`src/shield`)

A bash main loop that reads a command and passes it through the command modules
(session control, limits, load, security, audit, network traffic), which may
refuse it, while periodic modules run in the background.

### What is hard, and what correct means

* **Ownership.** A PCB is a bare pointer. It must be in one queue, table or
  thread at a time, whatever the interleaving (`UnSoloLugar`).
* **Slots.** `mps`, `mmp` and `threads_iot` are each taken and returned by
  several threads, several queues apart. No slot may leak or be returned twice
  (`CupoMps`, `CupoMmp`, `CupoIot`).
* **Ordering of steps seen by others.** The table entry, the post and the
  message of a suspension (`AvisoEsperaReanudar`); the table, the slot and the
  messages of an end (`TablaAcotada`, `MemoriaAtrasada`, `CupoConCliente`).
* **Progress.** Two threads compete for `mmp`, each with a PCB in hand, while
  the memory may be held by a process that is blocked on its I/O and waits for
  `threads_iot` (`TodosTerminan`).
* **Reload at any time**, between two steps of every other thread
  (`OrdenExplicado`, `LapCompleta`).
* **Identity by descriptor.** A PID is reused as soon as the LTS closes it,
  while other threads still write to it (`UnActivoPorPid`, `SinNulo`,
  `MensajesPropios`).
* **Pointers kept too long.** `procer` goes on using a PCB that it has given
  away (`PunteroAcotado`).
* **Programs that are wrong.** The interpreter checks no text: what it needs of
  one not to leave it (`NuncaRoto`, `LlamadasAnidadas`).
* **Bytes in pieces.** A header, a body, a file may each arrive in parts, and the
  connection may end in any of them (`Integros`, `Llegan`, `SeEntera`).
* **Tables without a lock.** Two threads use each dictionary, which may grow in
  the middle (`ImplementaMapa`, `CuentasExactas`).

`PROJECT.json` lists every hazard at its line, with the properties that
would notice it going wrong.

## 2. The modules

| Module | What it is |
|---|---|
| `Procer` | the core: every thread of PP as it moves PCBs between places |
| `CicloDeVida` | abstract: the life of a process under the caps MPS and MMP |
| `ProcerCiclo` | the refinement mapping from `Procer` to `CicloDeVida` |
| `SyncQueue` | one `sync_queue`, line by line, with concurrent callers |
| `ColaAtomica` | abstract: a queue whose operations are atomic |
| `Servidor` | the LTS and its clients: descriptors, messages, disconnections |
| `Listas` | `list_ordered_insert` and `list_sort` as operators |
| `Planificador` | STS, comparators, dispatch and reload: the order of `cola_listos` |
| `Interprete` | `parser.c`: loading and running one program |
| `Diccionario` | the hash table, its growth, and two threads in it |
| `MapaConRepetidos` | abstract: what a dictionary promises |
| `ListaEnlazada` | `list.c` as cells and links |
| `Red` | `network.c`: length-prefixed messages over a stream |
| `MC*` | instances for TLC |
| `Secuencias` | lemmas that the proofs share: induction, recursion, sequences |
| `*Proofs` | theorems |

`Procer` is the composition of the threads. The others look at what it takes as
given: `SyncQueue` justifies that a push or a pop is one step, `ListaEnlazada`
that the list inside is a sequence, `Servidor` opens the connections that
`Procer` keeps alive, `Planificador` opens the order of `cola_listos`,
`Interprete` is where the effects of a program come from. `Red` is below the
messages of `Servidor`, and `Diccionario` below its tables.

### Procer

A *place* is a queue (a sequence) or a group (a set): the hand of a thread, a
table, `cola_listos`. An action is one step of one thread between two accesses
to shared state, named after its thread (`PendientesEspera` is the
`sem_wait(mmp)` of either `pendientes_*` thread, `FinTabla` and `FinMps` the first
two steps of `finalizados`). Modelling decisions:

* A program is the sequence of effects of its execution: `"cpu"`, `"io"`
  (blocking) or `"ion"` (non-blocking). What the instructions compute is left
  out; programs of every sequence of effects are allowed as a parameter.
* `cola_listos` is a set and the STS takes from any of its queues, so the results
  do not depend on the algorithm or the priorities.
* The quantum test reads `quantum` twice (`pp.c:202`); if the second read gives
  0 the unsigned comparison with `quantum - 1` is false, so one read has the
  same outcomes.
* The pop and the thread creation of `lanzar_ios` are one step, and creation
  succeeds.
* `PunteroAcotado` is about the pointer that `procer` still has when
  `finalizados` frees the PCB: it says that the only uses left are the count of
  `pp.c:207` and its log line.
* Clients stay connected until they are told `"2"`; `Servidor` drops this.
* Operators with the heading "seeded faults" are plausible bugs, used by no action: the
  properties are tried against them.
* `Reposo` is the explicit stutter of a system in which every process is done,
  so that any other deadlock is reported.

### SyncQueue

Threads call `push`, `ordered_insert`, `pop`, `try_pop` and `sort`. Semaphore,
mutex, list access and unlock are separate steps. Where an ordered insertion or
a sort puts an element is left open. An element becomes visible at its
`sem_post`: this is the linearisation point of the mapping to `ColaAtomica`
(`lugar` remembers where the not yet visible element is). Each queue of PP has
one consuming thread, and so has the instance: with two consumers `try_pop` could
answer NULL while an element is in the list.

### Servidor

A client, its connection (two message channels, an end-of-stream flag, a reset
flag) and its PCB share one name. Descriptors are taken lowest first and freed
when the LTS sees the end of a connection; `pid[p]` keeps the number the process was given,
and `finalizados` and `procer` write to it through `Envia`, whoever has it by then. The
dictionaries keep the duplicates that `dictionary_put` leaves. One pass of the
LTS over one descriptor is one action. `caido` records that PP died, and why: a
NULL from `dictionary_get`, SIGPIPE, or a program counter that `inicializar_pcb`
never set.

### Planificador and Listas

A comparator is a relation. `llegadas` holds the PCBs of `cola_listos` in the
order of their `tiempo_entrada_listos` (one thread sets them, and its clock is
taken not to go back nor to give one value twice). Estimates are kept in units of `1 / Escala`,
small enough that the halvings of `FACTOR_AJUSTE_SPN` are exact within the bound.
Reading the next entry of the list of priorities and trying to pop that queue are one step. The
comparator is read in a step of its own (`StsLee`) before the insertion, as the
C call does. `desorden` is a history variable: it records what has happened to
`cola_listos` since its last sort that may have disturbed it: an insertion that
read its comparator before a reload, or a burst counted late. `OrdenExplicado`
says that nothing else does.

### Interprete

A line is a record of what the parser sees in it; cutting a line into words is
left out. `Posiciona` is `posicionarse_proxima_instruccion_ejecutable` with
`procesar_funcion`: after every instruction the program counter is moved to the
next line that can be executed, and calls are made on the way. `estado` is
`"roto"` where the C code would read past the text or through the NULL of an
empty stack. `datos` holds the values of a name oldest first, as the dictionary
does, so a variable declared twice has two. Values wrap at `2^AnchoLong`, and a
jump looks at an `int`. Line 1 is what an unknown label or function gives, as the
NULL of `dictionary_get` is offset 0.

### Diccionario and MapaConRepetidos

A key is its hash code, since elements are compared by the hash alone. `put` and
`remove` are two steps each (walk, write), one thread puts and another removes,
as the LTS and `finalizados` do. `cruces` records how the two met: only on the
counters, on one element of a chain, or on a growth; after a growth under a
`remove` the behaviour of the C code is undefined and nothing more is said.
`Contenido` maps the table to `MapaConRepetidos`.

### ListaEnlazada

Cells that are taken, linked, unlinked, freed and taken again. The operations
have their names in `list.c`; queues and stacks are the same operations at fixed
places. `ImplementaSecuencia` compares each with the sequence operation its name
promises, and the ordered insertion with the one of `Listas`.

### Red

A byte knows its message, its place, and in a header its digit of the length. A
`send` or a `recv` moves any number of bytes. The first piece of a header gives
the digits it has (`RecibeCabecera`); the next ones are written past the length,
over other locals of the stack (`PisaLaPila`), after which PP may die
(`"roto"`), take something for an end, or go on reading with no idea of where a
message begins (`"perdido"`), and what it hands over then is not followed.
`EnviaArchivo` sends what `sendfile` takes and gives the rest up. The ghosts
`partida` and `corto` record that one of these happened.

## 3. What is checked

| Run | Instance | What it shows |
|---|---|---|
| `procer` | 3 processes, MPS 2, MMP 2, 1 I/O thread, quantum 1 or none, edits at any time | the safety invariants of the core in every interleaving |
| `vivacidad` | 3 processes, MPS 3, MMP 1, 1 I/O thread, quantum 2, a longer program, no edits | every client is served; `Procer` implements `CicloDeVida`; no dispatch exceeds the quantum |
| `sync_queue` | 2 producers, 1 consumer, 1 sorter, 2 elements | list, semaphore and mutex agree; no lost wake-up; the operations are atomic |
| `servidor` | 3 clients, MPS 2, one of them may be killed at any time | descriptor reuse is survivable: one running process per PID, no NULL; who is not cut gets an end |
| `planificador` | 3 processes, 2 instructions each, RR/PRI/SPN, 1 edit | order of `cola_listos`, of dispatch and of the priorities |
| `interprete` | every main program of up to 3 lines with two functions in several orders, with and without ends | a well-formed text never breaks the interpreter, calls nest, assignments are read back |
| `diccionario` | 4 nodes, 3 keys of which two collide, growth from 2 to 4 buckets, two meetings of the threads | put, remove and clean do what those of a map with repetitions do; its two counters are off by at most one per meeting |
| `comunes` | 3 cells, 3 values; a priority, a file of 0 to 3 bytes and a request, cut anywhere | every history of the list operations is one of a sequence, and no cell is lost; messages arrive whole and in order unless a header is cut or a file not sent whole; an end is noticed |
| `io_final` | a program that ends in an I/O | *violation* of `UnSoloLugar` |
| `fuga_mps` | 2 clients, MPS 1, kills | *violation* of `RechazoJusto` |
| `shutdown_ajeno` | 2 clients, MPS 1, no kills | *violation* of `NadieCortado` |
| `tamanio_nulos` | the dictionary of one thread | *violation* of `TamanioEsCantidad` |

**Bounds and why they are enough.** In `procer`, three processes for two slots is
the least that has a slot in use, one wanted and one refused; one I/O thread makes
the `trywait` of a non-blocking I/O fail. With two memory slots for two processes
`mmp` hardly makes anyone wait, so `vivacidad` has three processes in the system
and memory for one (`pp.conf` has MMP < MPS too): the memory is held by a process
blocked on its I/O while a new one and a resumed one wait for it, one in each
`pendientes_*` thread. A quantum of 1 or 2 with programs of 2 to 4
instructions cuts a program, and lets it end exactly at, and before, a quantum.
One hand per thread bounds the queues. `Bandeja` bounds the unread prints of a client
and nothing else; three clients and two slots give a reused descriptor whose
former process still runs, beside one that is refused. In `Planificador`,
`Instrucciones` bounds the dispatches of a process and `Recargas` the edits: one
edit suffices for each of its races, and three elements are the least on which a
pass of `list_sort` differs from one exchange. In `Interprete`, three free lines
suffice for a jump over a call, a call inside a call and a backward jump;
`MaxPila` bounds recursion. In `Diccionario`, `Nodos` and `MaxTabla` bound the
table, `Encuentros` the operations that begin under another one, `MaxNulos` the
ghost that counts removed NULLs; with two meetings an update may be lost to the
other thread, in both directions and twice. `comunes` has two libraries that
share nothing: each runs from the initial state of the other, and the fairness
is that of `Red`. Headers of `H` = 3 digits are cut in one or two
places. `CHECK_DEADLOCK FALSE` is said where the system may stop: in `Servidor`
(PP may die, and clients may wait for it for ever), at the end of a program in
`Interprete` and of a connection in `Red`, and in `Diccionario` and
`ListaEnlazada` when the bounded memory is full.

**Fairness.** Threads of PP run on a preemptive kernel, so each has weak
fairness on its steps (`EspecJusta`, `Equidad`); in `Procer` that is all: nothing
is assumed of the order in which semaphores wake the threads that wait. A user
answers a suspension in the end. In `SyncQueue` the acquisition of the mutex has
strong fairness: a mutex released again and again is not refused to one thread
for ever. In `Servidor` a client reads
and answers, the LTS, `finalizados` and the sending half of a suspension go on
(weak fairness each), and a program that is interrupted again and again still
ends (strong fairness on `Termina`): a program that prints for ever is legal and
would keep its client waiting. `Interprete` has weak fairness on its steps: the
CPU is given again after an I/O. In `Red` the kernel moves bytes in both
directions; nothing is assumed of where it cuts them, and a client may leave.

**Disagreements found** (one run each):

1. `parser.c:250`: a program whose last instruction is an I/O has its PCB in the
   I/O queues and in `cola_fin_programa` at once; its memory slot is posted, and
   it is freed under the I/O threads.
2. `server.c:160`: a client that leaves before sending its program keeps its
   MPS slot for ever.
3. `pp.c:78`: `shutdown` on the PID after `"2"` was sent may hit the next client,
   who got the same descriptor.
4. `dictionary.c:115`: an element whose data is NULL is removed and not counted
   out, so `dictionary_size` is not the number of elements, and
   `dictionary_is_empty` is false of an empty dictionary.

Other behaviours met on the way are recorded as hazards. The code does go wrong
there, and no property could say that it does not: a ghost records that it
happened, or a precondition leaves it out, and the property says how far it
goes, that is, that nothing else goes wrong in the same way. `procer` counts the
burst in a PCB that `finalizados` may have freed (`PunteroAcotado`); an insertion
by the old comparator may follow the sort of a reload, and a burst counted late
moves an SPN key inside `cola_listos` (`desorden`, `OrdenExplicado`); a reload may
turn round equal elements (`DespachoCorrecto`); while the list of priorities is
being replaced a queue is twice in it or missing (`LapCompleta`); with a killed
client, messages of the next owner of its descriptor go to the old PCB
(`SinNulo`); a header in pieces is misread, over the stack, and a file may be cut
short (`partida` and `corto`, `Integros`); two threads in one dictionary may lose
an element if they meet on it or in a growth (`cruces`, `ImplementaMapa`), and
spoil the counters whenever they meet (`CuentasExactas`); a variable declared
twice reads back its older value (`AsignacionSeLee`).

## 4. What is proved

For every value of the constants that the modules' assumptions admit:

* `ProcerProofs!TipoCorrecto`: `Spec => []TypeOK`.
* `ProcerProofs!Rafaga`: with no edits (`CuantosRecarga = {}`), no dispatch runs
  more than the quantum.
* `ProcerProofs!Invariante`, under `SinIoFinal` (no program ends in an I/O,
  which finding 1 shows to be needed): the inductive invariant `IInv`; from it
  `DuenoUnico`, `Cupos` (and one by one `CupoMpsSiempre`, `CupoIotSiempre`),
  `AvisoEncuentra`, `Completo`, `Retrasos`, `TablaSiempre`, and `PunteroTardio`.
* `ProcerProofs!Implementa`, under `SinIoFinal`: `Procer` implements
  `CicloDeVida`.
* `SyncQueueProofs`, for any number of threads and elements: `InvarianteCola`
  (types and exclusion among its parts), `Cuenta`, `PopSeguro`, `DuenoEnCola`;
  and `Linealizable`: with at most one consumer, as each queue of PP has,
  `SyncQueue` implements `ColaAtomica` (`ImplementaCola`).
* `InterpreteProofs`, for every text, every set of names and every depth of
  calls: `InvarianteInterprete`, `PilaCorrecta`, `BienFormadoNoRompe`,
  `LlamadasHechas`, `LoAsignadoSeLee` (`AsignacionSeLee`).
* `ServidorProofs`, for any number of clients and descriptors, any of which may
  be killed at any time: `InvarianteServidor`, `TipoServidor`, `CupoServidor`,
  `PidUnico`.
* in the same module and under the same assumptions: `InvarianteMensajes`,
  `NuncaNulo`, and, while no connection was cut, `InvarianteIntacto`,
  `CadaUnoLoSuyo`, `CupoAtendido`.
* `PlanificadorProofs`, for any number of processes, any priorities and any edits
  of `pp.conf`: `TipoCorrecto`, `Invariante`,
  `LapCorrecta` (`LapCompleta`), `OrdenCorrecto` (`OrdenExplicado`),
  `DespachoEnOrden` (`DespachoCorrecto`).
* `CommonsProofs`, of `list.c`, for any memory, any values and any comparator:
  `Invariante`, `CadenaCorrecta` (`CuentaYCadena`), `Secuencia`
  (`ImplementaSecuencia`); and of `network.c`, for any messages, any size of
  header and any base of its digits: `MensajesEnteros` (`Integros`).
* `DiccionarioProofs`, for any keys, any number of elements and any size of the
  table: `Invariante`, `CubetaCorrecta` (`CadaUnoEnSuCubeta`), `CuentasCorrectas`
  (`CuentasExactas`), `Mapeo` (`ImplementaMapa`), for any number of meetings of
  the two threads.

**The argument for Procer.** None of the properties is inductive alone: that a
slot count is right needs to know where PCBs are, and that needs to know which
phase `procer` is in and that the last instruction is not an I/O. `IInv` adds to the checked
invariants that the phase of `procer` agrees with the hand `"cpu"`
(`CpuCoherente`), that code and program counter agree with the place
(`ProgramaCoherente`), and that the table lists exactly the PCBs in certain
places (`TablaCoherente`). Nearly every step moves one PCB from one place to another. One
lemma says what such a move does to the contents of all places, to
`UnSoloLugar`, and to the union of any family of places; each semaphore counts
such a family. A step is then checked by its profile: which families the PCB
enters and leaves. The refinement proof reuses the moves: the stage of a process
is a function of its place.

**The argument for SyncQueue.** A pop that has passed the semaphore owns one
element of the list without knowing which. The invariant counts: semaphore plus
pops under way plus pushes not yet posted is the length of the list, so
the list is not empty when such a pop looks at it. The sets counted are finite
because the threads are. For the refinement, an element counts from its
`sem_post` on: between `list_add` and `sem_post` the mutex is held, so the
element stays where it was put (`Lugares`), and taking it out of the list gives
what the callers see. A failed `sem_trywait` is where one consumer is needed: no
other pop is under way, so the list holds at most the one element not posted.

**The argument for Interprete.** The text does not change, so all that a
well-formed text says of its sections is a fact about constants of the run. The
invariant is that the program counter is in the section on top of the stack and
each return address is a call of that section in the next one (`Anidadas`). A
section ends in its `fin_*`, which is executable, so the search for the next line
cannot leave it (`Proxima` stops in the section); a return goes to the line after
a call, which is in the section below. Of the variables, one declared at most
once never has more than one value (`VInv`), so the first that a look-up finds is
the last that was put.

**The argument for Servidor.** Descriptors are reused, so nothing can be said of
who owns a PID. What is inductive is about the list of a PID in
`tabla_procesos`: only its first PCB may have been started, because a message is
always for the first, and the others are `"admitido"`; whoever is in the system
is the first of its PID; `tabla_suspendidos` lists at most that one. Slots are
counted over where PCBs are (`ConCupo`), and accept() has a descriptor to give
because those in use are held by different clients.

On top of it the module says what is in flight (`JInv`). A client
sends its priority, its program and one answer per request (`EnOrden`); a PCB
whose client still has the descriptor got what it has from that client
(`Propio`); on a connection there is one request to resume or one answer
(`UnPedido`), and while there is, the first PCB of the PID is suspended
(`Vigente`). So whoever has something to say has a PCB listed under its
descriptor: its own if the program was not read yet, the suspended one if the
message is an answer. `Intactos` adds, while nothing was cut, that each process
from `accept()` to its `"2"` has its client connected, on its own descriptor.

**The argument for Planificador.** `list_sort` is recursive over its passes, and
a pass over the places of the list. A pass keeps the elements and, if nothing
was exchanged, the list is in order; each pass shortens what is left to look at,
so the last one leaves all of it in order (`OrdenaOrdena`), for every
comparator that is a strict weak order, which the three of the code are. An
ordered insertion in a list in order leaves it in order. `Inv` says that a PCB
is in one queue or thread at a time and that what each thread holds is still
what it read, so every sort and insertion is of distinct PCBs that arrived at
different times. `OrdenInv` is `OrdenExplicado` with the fact that without an
edit the algorithm never changes: a PCB that waits in `cola_listos` keeps its
key until a reload or a late count, and those are recorded. `LapInv` is the loop
invariant of `asignar_lista_lap`: the priorities assigned so far have the
queues of the new configuration.

**The argument for ListaEnlazada.** The state is that of one sequence of
distinct cells (`Inv`): the head is its first, each `next` its next, `usadas`
its cells. A walk of `k` links is at its `k`-th element (`CaminoPorLaLista`, by
induction on `k`), so what each operation writes is the head or the `next` of
an element of known place, and the new sequence is the old one with a cell
inserted or removed there. Both properties are read off the sequence.

**The argument for Red.** What the receiver took of the message under way, the
bytes on the wire and those still to send are, one after the other and after the
messages handed over, the messages sent up to the current one (`Conectados`,
part of `InvRed`). The sender extends both sides by one message (`OtraTrama`). A
whole header at the front of the wire is that of the next message
(`CabeceraEntera`), its digits determine the length (`CifrasDelLargo`), and
as many bytes after it are its body and no other (`MasCuerpo`). That holds
only until a header arrives cut or a file is left short, which is when `Integros`
says nothing either.

**The argument for Diccionario.** `Tabla` says that every chain holds distinct
elements of its own bucket, `PonBien` and `SacaBien` that what a `put` or a
`remove` read in its walk is still where it was, `Solos` that as long as the
threads did not meet there is at most one of them. The counters need more than
arithmetic at a growth: it happens when every bucket is in use, one of them by
the element just linked alone, and that bucket divides into two of which one stays
empty. For the map, `Orden` says that a `put` knows the last element of its chain
and a `remove` the first of its key, so that each writes what its operation
promises; a growth reads the old buckets in turn, and
since the elements of one key are all in one of them and move to one other,
their order does not change (`MudaClave`, by induction over the buckets).

When the threads meet, an operation may write a counter from any value that it
had since the operation began, or see its own write lost. `Cotas` bounds the
counter and every such old value at once: while the two are under way each is off
by at most the meetings before this one (`Margen`), and what a lost write would
make of it is counted too. A write moves the counter and the truth by one
(`Sube`, `Baja`), so when one of the two ends what was lost is at most one more,
this meeting's; and a growth counts the buckets again.

**Induction.** The induction theorems of the proof library take a predicate as
a parameter, which the installed provers cannot instantiate. `Secuencias` has
instead that a non-empty set of natural numbers has a least element
(`Minimo`), induction over a set of numbers (`Induccion`) and of sequences
(`InduccionSecuencias`), and that a function defined by recursion on numbers
exists (`Recursion`). The models define recursive functions and not RECURSIVE
operators where something is proved of them (the passes of `Listas`,
the walks of `ListaEnlazada`, `Filtra` and `Mudanza` of `Diccionario`,
`Potencia` of `Red`).

**Only model-checked:** the liveness properties (`TodosTerminan`,
`EsperaAtendida`, `TodoClienteSale`, `Termina`, `Llegan`, `SeEntera`): fairness
is beyond the prover. Every invariant and action property that a passing run
checks is proved. The types of `SyncQueue`, `Interprete`, `Servidor` and
`Procer` are proved and not run.

## 5. Not modelled

* How the words of a line are cut, and texts printed (`string.c`); parsing of
  `pp.conf` (`config.c`) and reading it while an editor has truncated it.
* Failures of `malloc`, `pthread_create`, `accept`, `bind`, `inotify`: the code
  checks few of them and goes on as if they could not happen.
* Data races at the level of words inside the dictionaries: `Diccionario` splits
  each operation into its walk and its write, and says nothing after a table is
  replaced under another thread. `dictionary_get` is the search a `remove` begins
  with; a `get` of the LTS beside the `remove` of `finalizados` is not an action
  (`Servidor` has the look-ups and removes of the tables, each in one step).
* What PP does after a header in pieces was written over its stack.
* Operations of the common library that no thread of PP calls (`list_take`,
  `list_filter`, `list_map`, `sync_queue_peek` and the like), logging, dates, bit
  arrays.
* SHIELD, which shares nothing with PROCER: its state is that of the host (users,
  processes, iptables) and of the shell that runs it.

## 6. Plan

1. `Shield`: the main loop, the chain of modules, the session limits and the
   periodic scripts.
