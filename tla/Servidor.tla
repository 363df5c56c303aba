------------------------------ MODULE Servidor ------------------------------
(***************************************************************************)
(* The LTS of server.c and its clients (pi.c), with the connections that   *)
(* Procer.tla leaves out.  The descriptor accept() returns is the PID of   *)
(* the process and the key of tabla_procesos; finalizados and procer write *)
(* to that descriptor from other threads, whoever it belongs to by then.   *)
(*                                                                         *)
(* A PCB is named by the client for which it was created.  What happens to *)
(* it between cola_pendientes_nuevos and cola_fin_programa is Procer.tla;  *)
(* here it runs, prints, is suspended and ends at any time.                *)
(***************************************************************************)
EXTENDS Naturals, FiniteSets, SequencesExt

CONSTANTS
  Clientes,  \* the runs of pi
  Fds,       \* the descriptors, as many as clients: accept() never fails
  MPS,       \* pp.conf
  Cortes,    \* the clients that may be killed (or lose their connection)
  Bandeja,   \* bound: unread "0" messages a client may have
  Nadie

ASSUME FdsAssumption ==
  Fds \subseteq Nat /\ IsFiniteSet(Fds) /\ IsFiniteSet(Clientes)
    /\ Cardinality(Fds) >= Cardinality(Clientes)
ASSUME ServidorAssumption ==
  /\ MPS \in Nat /\ Bandeja \in Nat
  /\ Cortes \subseteq Clientes /\ Nadie \notin Clientes

VARIABLES
  cliente,            \* how far each pi is
  backlog,            \* connections that listen() queued and accept() has not
  haciaPI, haciaPP,   \* the bytes in flight, as messages
  finPI,              \* the write side of the server is closed
  roto,               \* the peer answered a send with a reset
  fd,                 \* descriptor -> connection, or Nadie
  mps,
  tabla_procesos,     \* PID -> PCBs: dictionary_put appends, get and remove
  tabla_suspendidos,  \*        take the first
  pid, estado, prioridad, codigo,   \* of each PCB
  caido,              \* "no", or why PP died
  cortes              \* the connections that ended before their process did

conexiones == <<backlog, haciaPI, haciaPP, finPI, roto>>
tablas == <<fd, mps, tabla_procesos, tabla_suspendidos>>
pcbs == <<pid, estado, prioridad, codigo>>
vars == <<cliente, conexiones, tablas, pcbs, caido, cortes>>

\* Inside the main of pi, and after it.
Vivos == {"conectado", "con_pid", "mando_prioridad", "espera", "pausado"}
Idos == {"fin", "rechazado", "cortado"}

\* A PCB before cola_pendientes_nuevos, in the system, and in finalizados.
EnSistema == {"sistema", "susp_envia", "suspendido", "en_fin"}
EnFinalizados == {"fin_tabla", "fin_mps", "fin_estado", "fin_aviso"}
Estados == {"no", "admitido", "liberado"} \cup EnSistema \cup EnFinalizados

Libres == {f \in Fds : fd[f] = Nadie}

MinFd(s) == CHOOSE f \in s : \A g \in s : f <= g

EnServidor(c) == \E f \in Fds : fd[f] = c

Abandona(c) == cliente[c] \in Vivos /\ c \in Cortes

-----------------------------------------------------------------------------
(* socket_send to descriptor f, from any thread of PP.                       *)

\* It fails with EBADF; or reaches whoever has the descriptor; or nobody
\* reads it and the peer answers with a reset, after which, or after a
\* shutdown of this side, a send raises SIGPIPE, which PP does not handle.
Envia(f, m) ==
  LET c == fd[f] IN
  IF c = Nadie
    THEN UNCHANGED <<haciaPI, roto, caido>>
  ELSE IF finPI[c]
    THEN caido' = "sigpipe" /\ UNCHANGED <<haciaPI, roto>>
  ELSE IF cliente[c] \in Vivos
    THEN /\ haciaPI' = [haciaPI EXCEPT ![c] = Append(@, m)]
         /\ UNCHANGED <<roto, caido>>
  ELSE /\ roto' = [roto EXCEPT ![c] = TRUE]
       /\ IF roto[c] THEN caido' \in {"no", "sigpipe"} ELSE UNCHANGED caido
       /\ UNCHANGED haciaPI

Mensaje(t, p) == [tipo |-> t, pcb |-> p]

-----------------------------------------------------------------------------
(* Seeded faults, not used by any action.                                    *)

\* dictionary_put puts the new element first.
AceptaAdelante ==
  LET c == Head(backlog)
      f == MinFd(Libres)
  IN
  /\ caido = "no" /\ backlog # <<>> /\ mps > 0
  /\ backlog' = Tail(backlog)
  /\ fd' = [fd EXCEPT ![f] = c]
  /\ mps' = mps - 1
  /\ pid' = [pid EXCEPT ![c] = f]
  /\ estado' = [estado EXCEPT ![c] = "admitido"]
  /\ tabla_procesos' = [tabla_procesos EXCEPT ![f] = <<c>> \o @]
  /\ haciaPI' = IF cliente[c] \in Vivos
                  THEN [haciaPI EXCEPT ![c] = Append(@, Mensaje("pid", c))]
                  ELSE haciaPI
  /\ UNCHANGED <<cliente, haciaPP, finPI, roto, tabla_suspendidos, prioridad,
                 codigo, caido, cortes>>

\* The LTS forgets the process of a connection that ended.
CierraOlvida(f) ==
  LET c == fd[f] IN
  /\ caido = "no" /\ c # Nadie /\ haciaPP[c] = <<>> /\ cliente[c] \in Idos
  /\ fd' = [fd EXCEPT ![f] = Nadie]
  /\ tabla_procesos' = [tabla_procesos EXCEPT ![f] = IF @ = <<>> THEN @ ELSE Tail(@)]
  /\ UNCHANGED <<cliente, conexiones, mps, tabla_suspendidos, pcbs, caido, cortes>>

\* The LTS returns the slot of a connection that ended.
CierraDevuelve(f) ==
  LET c == fd[f] IN
  /\ caido = "no" /\ c # Nadie /\ haciaPP[c] = <<>> /\ cliente[c] \in Idos
  /\ fd' = [fd EXCEPT ![f] = Nadie]
  /\ mps' = mps + 1
  /\ UNCHANGED <<cliente, conexiones, tabla_procesos, tabla_suspendidos, pcbs,
                 caido, cortes>>

\* The client is told that it ended while its slot is still taken.
FinTablaAvisando ==
  \E p \in Clientes :
    /\ caido = "no" /\ estado[p] = "en_fin"
    /\ \A q \in Clientes : estado[q] \notin EnFinalizados
    /\ estado' = [estado EXCEPT ![p] = "fin_tabla"]
    /\ tabla_procesos' = [tabla_procesos EXCEPT ![pid[p]] =
                            IF @ = <<>> THEN @ ELSE Tail(@)]
    /\ Envia(pid[p], Mensaje("2", p))
    /\ UNCHANGED <<cliente, backlog, haciaPP, finPI, fd, mps, tabla_suspendidos,
                   pid, prioridad, codigo, cortes>>

\* The final state of the process is sent after the "2".
FinEstadoDespues ==
  \E p \in Clientes :
    /\ caido = "no" /\ estado[p] = "fin_mps"
    /\ estado' = [estado EXCEPT ![p] = "fin_estado"]
    /\ Envia(pid[p], Mensaje("2", p))
    /\ UNCHANGED <<cliente, backlog, haciaPP, finPI, tablas, pid, prioridad,
                   codigo, cortes>>

\* The message of a suspension asks for nothing.
SuspendeEnviaSinPedir(p) ==
  /\ caido = "no" /\ estado[p] = "susp_envia"
  /\ estado' = [estado EXCEPT ![p] = "suspendido"]
  /\ Envia(pid[p], Mensaje("0", p))
  /\ UNCHANGED <<cliente, backlog, haciaPP, finPI, tablas, pid, prioridad,
                 codigo, cortes>>

-----------------------------------------------------------------------------
Init ==
  /\ cliente = [c \in Clientes |-> "afuera"]
  /\ backlog = <<>>
  /\ haciaPI = [c \in Clientes |-> <<>>] /\ haciaPP = [c \in Clientes |-> <<>>]
  /\ finPI = [c \in Clientes |-> FALSE] /\ roto = [c \in Clientes |-> FALSE]
  /\ fd = [f \in Fds |-> Nadie]
  /\ mps = MPS
  /\ tabla_procesos = [f \in Fds |-> <<>>]
  /\ tabla_suspendidos = [f \in Fds |-> <<>>]
  /\ pid = [c \in Clientes |-> 0]
  /\ estado = [c \in Clientes |-> "no"]
  /\ prioridad = [c \in Clientes |-> FALSE]
  /\ codigo = [c \in Clientes |-> FALSE]
  /\ caido = "no"
  /\ cortes = {}

-----------------------------------------------------------------------------
(* pi: the client.                                                           *)

Conecta(c) ==
  /\ cliente[c] = "afuera" /\ caido = "no"
  /\ cliente' = [cliente EXCEPT ![c] = "conectado"]
  /\ backlog' = Append(backlog, c)
  /\ UNCHANGED <<haciaPI, haciaPP, finPI, roto, tablas, pcbs, caido, cortes>>

\* The next message: the PID or an error text first, and then "0" (printed),
\* "1" (asks for ENTER) and "2" (the end) in a loop.
Recibe(c) ==
  /\ cliente[c] \in {"conectado", "espera"} /\ haciaPI[c] # <<>>
  /\ cliente' = [cliente EXCEPT ![c] =
                   CASE Head(haciaPI[c]).tipo = "pid" -> "con_pid"
                     [] Head(haciaPI[c]).tipo = "error" -> "rechazado"
                     [] Head(haciaPI[c]).tipo = "0" -> "espera"
                     [] Head(haciaPI[c]).tipo = "1" -> "pausado"
                     [] Head(haciaPI[c]).tipo = "2" -> "fin"]
  /\ haciaPI' = [haciaPI EXCEPT ![c] = Tail(@)]
  /\ UNCHANGED <<backlog, haciaPP, finPI, roto, tablas, pcbs, caido, cortes>>

\* The connection ends without a "2": exit status 1.
RecibeFin(c) ==
  /\ cliente[c] \in {"conectado", "espera"} /\ haciaPI[c] = <<>> /\ finPI[c]
  /\ cliente' = [cliente EXCEPT ![c] = "cortado"]
  /\ cortes' = cortes \cup {c}
  /\ UNCHANGED <<conexiones, tablas, pcbs, caido>>

Manda(c, desde, hasta, m) ==
  /\ cliente[c] = desde
  /\ cliente' = [cliente EXCEPT ![c] = hasta]
  /\ haciaPP' = [haciaPP EXCEPT ![c] = Append(@, m)]
  /\ UNCHANGED <<backlog, haciaPI, finPI, roto, tablas, pcbs, caido, cortes>>

MandaPrioridad(c) == Manda(c, "con_pid", "mando_prioridad", "prioridad")
MandaCodigo(c) == Manda(c, "mando_prioridad", "espera", "codigo")
MandaReanudar(c) == Manda(c, "pausado", "espera", "reanudar")

\* pi is killed.  Unread input makes the kernel reset the connection, and a
\* reset may drop what the server has not read.
Muere(c) ==
  /\ Abandona(c)
  /\ cliente' = [cliente EXCEPT ![c] = "cortado"]
  /\ roto' = [roto EXCEPT ![c] = haciaPI[c] # <<>>]
  /\ \/ UNCHANGED haciaPP
     \/ haciaPI[c] # <<>> /\ haciaPP' = [haciaPP EXCEPT ![c] = <<>>]
  /\ haciaPI' = [haciaPI EXCEPT ![c] = <<>>]
  /\ cortes' = cortes \cup {c}
  /\ UNCHANGED <<backlog, finPI, tablas, pcbs, caido>>

Pi(c) == \/ Recibe(c) \/ RecibeFin(c) \/ MandaPrioridad(c) \/ MandaCodigo(c)
         \/ MandaReanudar(c)

-----------------------------------------------------------------------------
(* lts.                                                                      *)

\* accept() takes the lowest free descriptor.
Acepta ==
  LET c == Head(backlog)
      f == MinFd(Libres)
  IN
  /\ caido = "no" /\ backlog # <<>> /\ mps > 0
  /\ backlog' = Tail(backlog)
  /\ fd' = [fd EXCEPT ![f] = c]
  /\ mps' = mps - 1
  /\ pid' = [pid EXCEPT ![c] = f]
  /\ estado' = [estado EXCEPT ![c] = "admitido"]
  /\ tabla_procesos' = [tabla_procesos EXCEPT ![f] = Append(@, c)]
  /\ haciaPI' = IF cliente[c] \in Vivos
                  THEN [haciaPI EXCEPT ![c] = Append(@, Mensaje("pid", c))]
                  ELSE haciaPI
  /\ UNCHANGED <<cliente, haciaPP, finPI, roto, tabla_suspendidos, prioridad,
                 codigo, caido, cortes>>

Rechaza ==
  LET c == Head(backlog) IN
  /\ caido = "no" /\ backlog # <<>> /\ mps = 0
  /\ backlog' = Tail(backlog)
  /\ haciaPI' = IF cliente[c] \in Vivos
                  THEN [haciaPI EXCEPT ![c] = Append(@, Mensaje("error", c))]
                  ELSE haciaPI
  /\ finPI' = [finPI EXCEPT ![c] = TRUE]
  /\ UNCHANGED <<cliente, haciaPP, roto, tablas, pcbs, caido, cortes>>

\* A message of the client on f is for the first PCB listed under f.
Mensajero(f) ==
  /\ caido = "no" /\ fd[f] # Nadie /\ haciaPP[fd[f]] # <<>>
  /\ haciaPP' = [haciaPP EXCEPT ![fd[f]] = Tail(@)]
  /\ UNCHANGED <<cliente, backlog, haciaPI, finPI, roto, fd, mps,
                 tabla_procesos, pid, cortes>>

\* The first byte of the message, whatever it is: a priority is at most 20, a
\* text may begin with anything, and "reanudar" begins with a '1' (49).  The
\* PCB is read first: without one, dictionary_get answered NULL.
LeePrioridad(f) ==
  LET ps == tabla_procesos[f]
      m == Head(haciaPP[fd[f]])
  IN
  /\ Mensajero(f) /\ (ps # <<>> => ~prioridad[Head(ps)])
  /\ \E b \in BOOLEAN :
       /\ m = "prioridad" => b
       /\ m = "reanudar" => ~b
       /\ prioridad' = [p \in Clientes |->
            IF ps # <<>> /\ p = Head(ps) THEN b ELSE prioridad[p]]
  /\ caido' = IF ps = <<>> THEN "nulo" ELSE caido
  /\ UNCHANGED <<estado, codigo, tabla_suspendidos>>

\* The text of the program.  What is not a text has no comienzo_programa, and
\* the program counter nuevo_pcb left uninitialized is used.
LeeCodigo(f) ==
  LET p == Head(tabla_procesos[f])
      m == Head(haciaPP[fd[f]])
  IN
  /\ Mensajero(f) /\ tabla_procesos[f] # <<>> /\ prioridad[p] /\ ~codigo[p]
  /\ codigo' = [codigo EXCEPT ![p] = TRUE]
  /\ estado' = [estado EXCEPT ![p] = "sistema"]
  /\ caido' \in IF m = "codigo" THEN {"no"} ELSE {"no", "programa"}
  /\ UNCHANGED <<prioridad, tabla_suspendidos>>

\* "1REANUDARPROCESO" for a suspended process; anything else earns a warning.
LeeReanudar(f) ==
  LET p == Head(tabla_procesos[f])
      m == Head(haciaPP[fd[f]])
      ts == tabla_suspendidos[f]
  IN
  /\ Mensajero(f) /\ tabla_procesos[f] # <<>> /\ prioridad[p] /\ codigo[p]
  /\ IF m = "reanudar" /\ ts # <<>>
       THEN /\ estado' = [estado EXCEPT ![Head(ts)] = "sistema"]
            /\ tabla_suspendidos' = [tabla_suspendidos EXCEPT ![f] = Tail(@)]
       ELSE UNCHANGED <<estado, tabla_suspendidos>>
  /\ UNCHANGED <<prioridad, codigo, caido>>

\* recv() returns 0 or an error: the descriptor is free again, and the PCB,
\* its table entry and its MPS slot stay as they are.
Cierra(f) ==
  LET c == fd[f] IN
  /\ caido = "no" /\ c # Nadie /\ haciaPP[c] = <<>> /\ cliente[c] \in Idos
  /\ fd' = [fd EXCEPT ![f] = Nadie]
  /\ UNCHANGED <<cliente, conexiones, mps, tabla_procesos, tabla_suspendidos,
                 pcbs, caido, cortes>>

Lts ==
  \/ Acepta \/ Rechaza
  \/ \E f \in Fds : \/ LeePrioridad(f) \/ LeeCodigo(f)
                   \/ LeeReanudar(f) \/ Cierra(f)

-----------------------------------------------------------------------------
(* procer, as seen from the connections: imprimir, suspender_proceso, the    *)
(* end of the program.                                                       *)

Cambia(p, e) == estado' = [estado EXCEPT ![p] = e]

Imprime(p) ==
  /\ caido = "no" /\ estado[p] = "sistema"
  /\ fd[pid[p]] # Nadie => Len(haciaPI[fd[pid[p]]]) < Bandeja
  /\ Envia(pid[p], Mensaje("0", p))
  /\ UNCHANGED <<cliente, backlog, haciaPP, finPI, tablas, pcbs, cortes>>

Suspende(p) ==
  /\ caido = "no" /\ estado[p] = "sistema"
  /\ \A q \in Clientes : estado[q] # "susp_envia"
  /\ Cambia(p, "susp_envia")
  /\ tabla_suspendidos' = [tabla_suspendidos EXCEPT ![pid[p]] = Append(@, p)]
  /\ UNCHANGED <<cliente, conexiones, fd, mps, tabla_procesos, pid, prioridad,
                 codigo, caido, cortes>>

SuspendeEnvia(p) ==
  /\ caido = "no" /\ estado[p] = "susp_envia"
  /\ Cambia(p, "suspendido")
  /\ Envia(pid[p], Mensaje("1", p))
  /\ UNCHANGED <<cliente, backlog, haciaPP, finPI, tablas, pid, prioridad,
                 codigo, cortes>>

Termina(p) ==
  /\ caido = "no" /\ estado[p] = "sistema"
  /\ Cambia(p, "en_fin")
  /\ UNCHANGED <<cliente, conexiones, tablas, pid, prioridad, codigo, caido,
                 cortes>>

-----------------------------------------------------------------------------
(* finalizados, one PCB at a time: forget it, free its slot, send its final  *)
(* state and "2", and shut the descriptor down.                              *)

FinTabla ==
  \E p \in Clientes :
    /\ caido = "no" /\ estado[p] = "en_fin"
    /\ \A q \in Clientes : estado[q] \notin EnFinalizados
    /\ Cambia(p, "fin_tabla")
    /\ tabla_procesos' = [tabla_procesos EXCEPT ![pid[p]] =
                            IF @ = <<>> THEN @ ELSE Tail(@)]
    /\ UNCHANGED <<cliente, conexiones, fd, mps, tabla_suspendidos, pid,
                   prioridad, codigo, caido, cortes>>

FinMps ==
  \E p \in Clientes :
    /\ caido = "no" /\ estado[p] = "fin_tabla"
    /\ Cambia(p, "fin_mps")
    /\ mps' = mps + 1
    /\ UNCHANGED <<cliente, conexiones, fd, tabla_procesos, tabla_suspendidos,
                   pid, prioridad, codigo, caido, cortes>>

FinEnvia(desde, hasta, m) ==
  \E p \in Clientes :
    /\ caido = "no" /\ estado[p] = desde
    /\ Cambia(p, hasta)
    /\ Envia(pid[p], Mensaje(m, p))
    /\ UNCHANGED <<cliente, backlog, haciaPP, finPI, tablas, pid, prioridad,
                   codigo, cortes>>

FinEstado == FinEnvia("fin_mps", "fin_estado", "0")

FinAviso == FinEnvia("fin_estado", "fin_aviso", "2")

\* shutdown(pcb->id_proceso, SHUT_WR), whoever has the descriptor now.
FinShutdown ==
  \E p \in Clientes :
    /\ caido = "no" /\ estado[p] = "fin_aviso"
    /\ Cambia(p, "liberado")
    /\ LET c == fd[pid[p]] IN
         IF c = Nadie
           THEN UNCHANGED <<finPI, cortes>>
           ELSE /\ finPI' = [finPI EXCEPT ![c] = TRUE]
                /\ cortes' = IF c = p THEN cortes ELSE cortes \cup {c}
    /\ UNCHANGED <<cliente, backlog, haciaPI, haciaPP, roto, tablas, pid,
                   prioridad, codigo, caido>>

Finalizados == FinTabla \/ FinMps \/ FinEstado \/ FinAviso \/ FinShutdown

-----------------------------------------------------------------------------
Next ==
  \/ \E c \in Clientes : Conecta(c) \/ Pi(c) \/ Muere(c)
  \/ Lts \/ Finalizados
  \/ \E p \in Clientes :
       Imprime(p) \/ Suspende(p) \/ SuspendeEnvia(p) \/ Termina(p)

Spec == Init /\ [][Next]_vars

\* The threads go on, clients read and send, and programs end.
EspecJusta ==
  /\ Spec
  /\ WF_vars(Lts) /\ WF_vars(Finalizados)
  /\ WF_vars(\E p \in Clientes : SuspendeEnvia(p))
  /\ \A c \in Clientes : WF_vars(Conecta(c) \/ Pi(c)) /\ SF_vars(Termina(c))

-----------------------------------------------------------------------------
(* Properties.                                                               *)

\* Where a PCB holds a slot of mps.
ConCupo == {"admitido", "fin_tabla"} \cup EnSistema

Mensajes == [tipo : {"pid", "error", "0", "1", "2"}, pcb : Clientes]

\* The type of every variable; mps never goes negative.
TypeOK ==
  /\ cliente \in [Clientes -> {"afuera"} \cup Vivos \cup Idos]
  /\ backlog \in Seq(Clientes)
  /\ haciaPI \in [Clientes -> Seq(Mensajes)]
  /\ haciaPP \in [Clientes -> Seq({"prioridad", "codigo", "reanudar"})]
  /\ finPI \in [Clientes -> BOOLEAN] /\ roto \in [Clientes -> BOOLEAN]
  /\ fd \in [Fds -> Clientes \cup {Nadie}] /\ mps \in Nat
  /\ tabla_procesos \in [Fds -> Seq(Clientes)]
  /\ tabla_suspendidos \in [Fds -> Seq(Clientes)]
  /\ pid \in [Clientes -> Fds \cup {0}] /\ estado \in [Clientes -> Estados]
  /\ prioridad \in [Clientes -> BOOLEAN] /\ codigo \in [Clientes -> BOOLEAN]
  /\ caido \in {"no", "nulo", "sigpipe", "programa"}
  /\ cortes \subseteq Clientes

\* The LTS never reads through the NULL that dictionary_get would answer for a
\* connection without a PCB, however descriptors are reused; and PP does not
\* die unless some connection was cut.
SinNulo == caido # "nulo" /\ (cortes = {} => caido = "no")

\* Two processes of the system never have the same PID, although a descriptor
\* is reused while the process of its former client still runs: the first PCB
\* listed under a PID is the only one that messages can start.
UnActivoPorPid ==
  \A p \in Clientes : estado[p] \in EnSistema =>
    /\ tabla_procesos[pid[p]] # <<>> /\ Head(tabla_procesos[pid[p]]) = p
    /\ \A q \in Clientes \ {p} : estado[q] \in EnSistema => pid[q] # pid[p]

\* A slot of mps is held by every PCB that finalizados has not seen, with or
\* without a client.
CupoDeServidor ==
  mps + Cardinality({p \in Clientes : estado[p] \in ConCupo}) = MPS

\* As long as no connection was cut, what a client reads is about its own
\* process.
MensajesPropios ==
  cortes = {} =>
    \A c \in Clientes : \A i \in DOMAIN haciaPI[c] : haciaPI[c][i].pcb = c

\* As long as no connection was cut, every slot belongs to a process whose
\* client is connected and waiting.
CupoConCliente ==
  cortes = {} =>
    \A p \in Clientes : estado[p] \in ConCupo =>
      fd[pid[p]] = p /\ cliente[p] \notin Idos

\* As long as no connection was cut, every client is served to its end or
\* refused.
TodoClienteSale ==
  <>(cortes # {} \/ \A c \in Clientes : cliente[c] \in {"fin", "rechazado"})

\* ERROR_MPS tells the truth (server.c:25, "se alcanzo el maximo de procesos en
\* el sistema (MPS)"): when it is sent there are MPS processes whose client is
\* connected or whose program was received.
RechazoJusto ==
  [][Rechaza => Cardinality({p \in Clientes :
       /\ estado[p] \in ConCupo
       /\ EnServidor(p) \/ codigo[p]}) = MPS]_vars

\* A client that is not killed leaves because it was told to (pi.c:117,
\* "cerramos la conexion", on a "2") or refused.
NadieCortado == \A c \in Clientes : cliente[c] # "cortado"
=============================================================================
